------------------------------ MODULE MediaProofs ------------------------------
(***************************************************************************)
(* The storage card moves the sectors it is asked for and loses none, for  *)
(* every size of card, sector and count register and every schedule; the   *)
(* NAND flash erases and programs what the guest commands and nothing      *)
(* else, for every geometry, image, pattern and route to the chip; and the *)
(* access point in the WL54CF lets data pass only after the handshake.     *)
(***************************************************************************)
EXTENDS CfSlot, NandGuest, NetCards, SequenceTheorems, FiniteSetTheorems, NaturalsInduction,
        WellFoundedInduction, TLAPS

SectorAt(s) == s * SectorWords
Datum == Nat \cup {"id"}
Image == [Words -> Datum]
Status == SUBSET {"drdy", "drq", "err"}
Disk == [kind : {"none", "ata", "io"}, image : Image, dirty : BOOLEAN, visible : BOOLEAN,
         lba : Nat, count : Nat, lbamode : BOOLEAN, status : Status,
         buf : Seq(Datum), pos : Nat, pend : BOOLEAN, tlba : Nat, trem : Nat]
Job == [op : {"none", "identify", "read", "write"}, lba : Nat, cnt : Nat, n : Nat]
SlotTypeOK == /\ disk \in Disk /\ job \in Job /\ file \in Image /\ media \in Image
              /\ plan \in [eject : Nat, insert : Nat, net : Nat]
              /\ now \in Nat /\ done \subseteq {"eject", "insert", "net"}

\* No transfer is open.
AtRest(d) == d.buf = <<>> /\ ~d.pend /\ "drq" \notin d.status
\* The sector in the buffer is the one the job has come to.
InStep(d, j) == /\ SectorAt(d.tlba) + d.pos = SectorAt(j.lba) + j.n
                /\ SectorAt(d.trem) - d.pos = SectorAt(j.cnt) - j.n
                /\ d.trem > 0 /\ d.tlba + d.trem <= Sectors
Underway(d, j) ==
    /\ d.kind = "ata" /\ Len(d.buf) = SectorWords /\ d.pos < SectorWords
    /\ j.op # "none" /\ (d.pend <=> j.op = "write")
    /\ j.op = "identify" => d.trem = 0
    /\ j.op \in {"read", "write"} => InStep(d, j)
    /\ j.op = "read" => d.buf = Sector(d.image, d.tlba)
    /\ j.op = "write" => \A k \in 1..d.pos : d.buf[k] = j.n - d.pos + k
Transfer(d, j) == (AtRest(d) /\ j = NoJob) \/ Underway(d, j)

\* A card that is in the socket before its insertion is due is to be ejected first.
InsertAwaits(d, p, f) ==
    d.kind = "ata" /\ p.insert > 0 /\ "insert" \notin f => p.eject > 0 /\ "eject" \notin f
Kept(d, f, m) == /\ m = (IF d.kind = "ata" THEN d.image ELSE f)
                 /\ d.kind = "ata" /\ ~d.dirty => d.image = f

SlotInv == /\ SlotTypeOK
           /\ Transfer(disk, job)
           /\ Kept(disk, file, media)
           /\ InsertAwaits(disk, plan, done)

--------------------------------------------------------------------------------
(***************************************************************************)
(* Where the words of a sector are.                                        *)
(***************************************************************************)
LEMMA AtNat == \A s \in Nat : SectorAt(s) \in Nat /\ SectorAt(s + 1) = SectorAt(s) + SectorWords
  BY DiskAssumption DEF DiskAssumption, SectorAt

\* A sector ends where a later one begins, or before.
LEMMA AtLess == \A s, t \in Nat : s < t => SectorAt(s) + SectorWords <= SectorAt(t)
<1> SUFFICES ASSUME NEW s \in Nat, NEW t \in Nat, s < t PROVE SectorAt(s) + SectorWords <= SectorAt(t)
  OBVIOUS
<1>1. t - (s + 1) \in Nat
  OBVIOUS
<1>2. (t - (s + 1)) * SectorWords \in Nat
  BY <1>1, DiskAssumption DEF DiskAssumption
<1>3. (t - (s + 1)) * SectorWords = t * SectorWords - (s * SectorWords + SectorWords)
  BY DiskAssumption DEF DiskAssumption
<1> QED
  BY <1>2, <1>3, DiskAssumption DEF DiskAssumption, SectorAt

\* The words that a sector of the image holds.
LEMMA SectorTyped ==
  ASSUME NEW img \in Image, NEW s \in Nat, s < Sectors
  PROVE  /\ Sector(img, s) \in Seq(Datum) /\ Len(Sector(img, s)) = SectorWords
         /\ \A i \in 1..SectorWords : Sector(img, s)[i] = img[SectorAt(s) + i - 1]
<1>1. \A i \in 1..SectorWords : SectorAt(s) + i - 1 \in Words
  <2>1. SectorAt(s) + SectorWords <= SectorAt(Sectors)
    BY AtLess, DiskAssumption DEF DiskAssumption
  <2> QED
    BY <2>1, AtNat, DiskAssumption DEF DiskAssumption, Words, SectorAt
<1>2. \A i \in 1..SectorWords : img[SectorAt(s) + i - 1] \in Datum
  BY <1>1 DEF Image
<1>3. Sector(img, s) = [i \in 1..SectorWords |-> img[SectorAt(s) + i - 1]]
  BY DEF Sector, SectorAt
<1> QED
  BY <1>2, <1>3, DiskAssumption DEF DiskAssumption

\* A blank card is an image.
LEMMA BlankTyped == Blank \in Image
  BY DEF Blank, Image, Datum

\* A command asks for at least one sector: a count of 0 is the largest.
LEMMA AskedTyped == ASSUME NEW d \in Disk PROVE Asked(d) \in Nat \ {0}
  BY DiskAssumption DEF DiskAssumption, Disk, Asked

--------------------------------------------------------------------------------
(***************************************************************************)
(* The card's operations, each with what it leaves.                        *)
(***************************************************************************)
LEMMA IdleTyped ==
  ASSUME NEW d
  PROVE  /\ Idle(d) \in Status /\ "drq" \notin Idle(d)
         /\ {"err"} \cup Idle(d) \in Status
         /\ "drq" \notin {"err"} \cup Idle(d)
  BY DEF Idle, Status

\* The status of an empty socket and of an open transfer.
LEMMA StatusTyped == {} \in Status /\ {"drdy", "drq"} \in Status
  BY DEF Status

\* An empty buffer is a buffer.
LEMMA NoneTyped == <<>> \in Seq(Datum)
  OBVIOUS

\* cf_reset_taskfile ends the transfer and leaves the image and its dirty mark.
LEMMA ResetRests ==
  ASSUME NEW d \in Disk
  PROVE  /\ ResetTaskfile(d) \in Disk /\ AtRest(ResetTaskfile(d))
         /\ ResetTaskfile(d).buf = <<>>
         /\ ResetTaskfile(d).kind = d.kind /\ ResetTaskfile(d).image = d.image
         /\ ResetTaskfile(d).dirty = d.dirty
  BY IdleTyped, NoneTyped DEF ResetTaskfile, Disk, AtRest

\* A command that fails ends the transfer and leaves the image and its dirty mark.
LEMMA FailedRests ==
  ASSUME NEW d \in Disk
  PROVE  /\ Failed(d) \in Disk /\ AtRest(Failed(d)) /\ Failed(d).buf = <<>>
         /\ Failed(d).kind = d.kind /\ Failed(d).image = d.image /\ Failed(d).dirty = d.dirty
  <1> DEFINE st == {"err"} \cup Idle(d)
  <1>1. st \in Status /\ "drq" \notin st
    BY IdleTyped
  <1>2. Failed(d) = [d EXCEPT !.buf = <<>>, !.pos = 0, !.pend = FALSE, !.trem = 0, !.status = st]
    BY DEF Failed, Closed, Idle, Present, Disk
  <1> HIDE DEF st
  <1>3. Failed(d) \in Disk
    <2>1. [d EXCEPT !.buf = <<>>, !.pos = 0, !.pend = FALSE, !.trem = 0, !.status = st] \in Disk
      BY <1>1, NoneTyped DEF Disk
    <2> QED
      BY <1>2, <2>1
  <1> QED
    BY <1>1, <1>2, <1>3 DEF Disk, AtRest

\* So does the last sector of a transfer.
LEMMA FinishedRests ==
  ASSUME NEW d \in Disk
  PROVE  /\ Finished(d) \in Disk /\ AtRest(Finished(d)) /\ Finished(d).buf = <<>>
         /\ Finished(d).kind = d.kind /\ Finished(d).image = d.image /\ Finished(d).dirty = d.dirty
  <1> DEFINE st == Idle(Closed(d))
  <1>1. st \in Status /\ "drq" \notin st
    BY IdleTyped
  <1>2. Finished(d) = [d EXCEPT !.buf = <<>>, !.pos = 0, !.pend = FALSE, !.trem = 0, !.status = st]
    BY DEF Finished, Ready, Closed, Disk
  <1> HIDE DEF st
  <1>3. Finished(d) \in Disk
    <2>1. [d EXCEPT !.buf = <<>>, !.pos = 0, !.pend = FALSE, !.trem = 0, !.status = st] \in Disk
      BY <1>1, NoneTyped DEF Disk
    <2> QED
      BY <1>2, <2>1
  <1> QED
    BY <1>1, <1>2, <1>3 DEF Disk, AtRest

\* An empty socket has no transfer.
LEMMA NoDiskRests == NoDisk \in Disk /\ AtRest(NoDisk) /\ NoDisk.kind = "none"
  BY BlankTyped, StatusTyped, NoneTyped DEF NoDisk, Disk, AtRest

\* A sector is opened with its buffer's first word.
LEMMA OpenTyped ==
  ASSUME NEW d \in Disk, NEW words \in Seq(Datum), NEW writing \in BOOLEAN
  PROVE  /\ Open(d, words, writing) \in Disk
         /\ Open(d, words, writing) =
              [d EXCEPT !.buf = words, !.pos = 0, !.pend = writing, !.status = {"drdy", "drq"}]
  BY StatusTyped DEF Open, Disk

\* cf_load_read_sector fills the buffer from the sector the transfer has come to.
LEMMA LoadSectorTyped ==
  ASSUME NEW d \in Disk, d.tlba < Sectors
  PROVE  LET r == LoadSector(d)
         IN /\ r \in Disk /\ r.kind = d.kind /\ r.image = d.image /\ r.dirty = d.dirty
            /\ r.tlba = d.tlba /\ r.trem = d.trem /\ r.pos = 0 /\ r.pend = FALSE
            /\ r.buf = Sector(d.image, d.tlba) /\ Len(r.buf) = SectorWords
  <1>1. d.image \in Image /\ d.tlba \in Nat
    BY DEF Disk
  <1>2. Sector(d.image, d.tlba) \in Seq(Datum) /\ Len(Sector(d.image, d.tlba)) = SectorWords
    BY <1>1, SectorTyped
  <1> QED
    BY <1>2, StatusTyped DEF LoadSector, Open, Disk

\* A sector opened for writing keeps where the transfer has come to.
LEMMA PrepareWriteTyped ==
  ASSUME NEW d \in Disk
  PROVE  LET r == PrepareWrite(d)
         IN /\ r \in Disk /\ r.kind = d.kind /\ r.image = d.image /\ r.dirty = d.dirty
            /\ r.tlba = d.tlba /\ r.trem = d.trem /\ r.pos = 0 /\ r.pend = TRUE
            /\ Len(r.buf) = SectorWords
  <1> DEFINE zeros == [i \in 1..SectorWords |-> 0]
  <1>1. zeros \in Seq(Datum) /\ Len(zeros) = SectorWords
    BY DiskAssumption DEF DiskAssumption, Datum
  <1> QED
    BY <1>1, StatusTyped DEF PrepareWrite, Open, Disk

\* IDENTIFY opens one buffer and leaves nothing to transfer behind it.
LEMMA IdentifyTyped ==
  ASSUME NEW d \in Disk
  PROVE  LET r == Identify(d)
         IN /\ r \in Disk /\ r.kind = d.kind /\ r.image = d.image /\ r.dirty = d.dirty
            /\ r.trem = 0 /\ r.pos = 0 /\ r.pend = FALSE /\ Len(r.buf) = SectorWords
  <1> DEFINE ids == [i \in 1..SectorWords |-> "id"]
  <1>1. ids \in Seq(Datum) /\ Len(ids) = SectorWords
    BY DiskAssumption DEF DiskAssumption, Datum
  <1> QED
    BY <1>1, StatusTyped DEF Identify, Open, Disk

\* The transfer goes on to the next sector, whatever the taskfile says.
LEMMA SteppedTyped ==
  ASSUME NEW d \in Disk
  PROVE  LET r == Stepped(d)
         IN /\ r \in Disk /\ r.kind = d.kind /\ r.image = d.image /\ r.dirty = d.dirty
            /\ r.tlba = d.tlba + 1 /\ r.trem = (IF d.trem > 0 THEN d.trem - 1 ELSE 0)
            /\ r.buf = d.buf /\ r.pos = d.pos /\ r.pend = d.pend
  <1> DEFINE left == IF d.trem > 0 THEN d.trem - 1 ELSE 0
  <1>1. left \in Nat /\ left % CountMod \in Nat
    BY DiskAssumption DEF DiskAssumption, Disk
  <1> HIDE DEF left
  <1>2. Stepped(d) = [d EXCEPT !.lba = d.tlba + 1, !.count = left % CountMod,
                               !.tlba = d.tlba + 1, !.trem = left]
    BY DEF Stepped, left
  <1>3. d.tlba + 1 \in Nat
    BY DEF Disk
  <1>4. Stepped(d) \in Disk
    BY <1>1, <1>2, <1>3 DEF Disk
  <1>5. Stepped(d).trem = left
    BY <1>2 DEF Disk
  <1> QED
    BY <1>2, <1>4, <1>5 DEF Disk, left

\* An access moves up to the sector's last word, and no further.
LEMMA TakenTyped ==
  ASSUME NEW d \in Disk, Len(d.buf) = SectorWords, d.pos < SectorWords, NEW n \in Nat \ {0}
  PROVE  /\ Taken(d, n) \in Nat /\ Taken(d, n) > d.pos /\ Taken(d, n) <= SectorWords
         /\ Taken(d, n) = SectorWords <=> d.pos + n >= SectorWords
         /\ Taken(d, n) < SectorWords => Taken(d, n) = d.pos + n
  BY DiskAssumption DEF DiskAssumption, Disk, Taken

\* The image a commit leaves: the buffer where the sector is.
Patched(d) == [w \in Words |-> IF w \in SectorAt(d.tlba) .. SectorAt(d.tlba) + SectorWords - 1
                               THEN d.buf[w - SectorAt(d.tlba) + 1] ELSE d.image[w]]

\* A commit leaves an image.
LEMMA PatchedTyped ==
  ASSUME NEW d \in Disk, Len(d.buf) = SectorWords
  PROVE  Patched(d) \in Image
<1>1. ASSUME NEW w \in Words
      PROVE  (IF w \in SectorAt(d.tlba) .. SectorAt(d.tlba) + SectorWords - 1
              THEN d.buf[w - SectorAt(d.tlba) + 1] ELSE d.image[w]) \in Datum
  <2>3. /\ d.buf \in Seq(Datum) /\ d.image \in Image /\ d.tlba \in Nat
    BY DEF Disk
  <2>4. w \in Int
    BY DEF Words
  <2>5. SectorAt(d.tlba) \in Nat
    BY <2>3, AtNat
  <2>0. /\ d.buf \in Seq(Datum) /\ d.image \in Image /\ SectorAt(d.tlba) \in Nat /\ w \in Int
        /\ \A i \in 1..SectorWords : d.buf[i] \in Datum
    BY <2>3, <2>4, <2>5
  <2>1. CASE w \in SectorAt(d.tlba) .. SectorAt(d.tlba) + SectorWords - 1
    <3>1. w - SectorAt(d.tlba) + 1 \in 1..SectorWords
      BY <2>0, <2>1, DiskAssumption DEF DiskAssumption
    <3> QED
      BY <2>0, <2>1, <3>1
  <2>2. CASE w \notin SectorAt(d.tlba) .. SectorAt(d.tlba) + SectorWords - 1
    BY <2>0, <2>2 DEF Image
  <2> QED
    BY <2>1, <2>2
<1> QED
  BY <1>1 DEF Patched, Image

\* cf_commit_write puts the buffer into the image and opens the next sector, or ends.
LEMMA CommitTyped ==
  ASSUME NEW d \in Disk, Len(d.buf) = SectorWords
  PROVE  LET r == CommitWrite(d)
         IN /\ r \in Disk /\ r.kind = d.kind /\ r.image = Patched(d) /\ r.dirty = TRUE
            /\ d.trem <= 1 => AtRest(r) /\ r.buf = <<>>
            /\ d.trem > 1 => /\ r.tlba = d.tlba + 1 /\ r.trem = d.trem - 1 /\ r.pos = 0
                             /\ r.pend = TRUE /\ Len(r.buf) = SectorWords
<1> DEFINE e == [d EXCEPT !.dirty = TRUE, !.image = Patched(d)]
           s == Stepped(e)
<1>1. /\ e \in Disk /\ e.kind = d.kind /\ e.image = Patched(d) /\ e.dirty = TRUE
      /\ e.tlba = d.tlba /\ e.trem = d.trem
  BY PatchedTyped DEF Disk
<1>2. CommitWrite(d) = IF s.trem > 0 THEN PrepareWrite(s) ELSE Finished(s)
  BY DEF CommitWrite, Patched, SectorAt
<1> HIDE DEF e
<1>3. /\ s \in Disk /\ s.kind = d.kind /\ s.image = Patched(d) /\ s.dirty = TRUE
      /\ s.tlba = d.tlba + 1 /\ s.trem = (IF d.trem > 0 THEN d.trem - 1 ELSE 0)
  BY <1>1, SteppedTyped
<1> HIDE DEF s
<1>4. d.trem \in Nat
  BY DEF Disk
<1>5. CASE s.trem > 0
  <2>1. CommitWrite(d) = PrepareWrite(s)
    BY <1>2, <1>5
  <2> QED
    <3>1. d.trem > 1 /\ s.trem = d.trem - 1
      BY <1>3, <1>4, <1>5
    <3>2. /\ PrepareWrite(s) \in Disk /\ PrepareWrite(s).kind = s.kind
          /\ PrepareWrite(s).image = s.image /\ PrepareWrite(s).dirty = s.dirty
          /\ PrepareWrite(s).tlba = s.tlba /\ PrepareWrite(s).trem = s.trem
          /\ PrepareWrite(s).pos = 0 /\ PrepareWrite(s).pend = TRUE
          /\ Len(PrepareWrite(s).buf) = SectorWords
      BY <1>3, PrepareWriteTyped
    <3> QED
      BY <1>3, <1>4, <3>1, <3>2, <2>1
<1>6. CASE ~(s.trem > 0)
  <2>1. CommitWrite(d) = Finished(s)
    BY <1>2, <1>6
  <2> QED
    <3>1. d.trem <= 1
      BY <1>3, <1>4, <1>6
    <3> QED
      BY <1>3, <3>1, <2>1, <1>4, FinishedRests
<1> QED
  BY <1>5, <1>6

--------------------------------------------------------------------------------
(***************************************************************************)
(* A disk that only its transfer changed.                                  *)
(***************************************************************************)
Same(d, e) == e \in Disk /\ e.kind = d.kind /\ e.image = d.image /\ e.dirty = d.dirty
JobAfter(d, j) == IF d.buf = <<>> THEN NoJob ELSE j

\* No command is open.
LEMMA NoJobTyped == NoJob \in Job /\ NoJob.op = "none"
  BY DEF NoJob, Job

\* A command opens the transfer it asks for, fails, or leaves the open one open.
LEMMA CommandGood ==
  ASSUME NEW d \in Disk, NEW j \in Job, d.kind = "ata", Transfer(d, j),
         NEW cmd \in Commands, NEW k,
         k = IF Command(d, cmd).buf = <<>> THEN NoJob
             ELSE IF cmd = "none" THEN j
             ELSE [op |-> cmd, lba |-> d.lba, cnt |-> Asked(d), n |-> 0]
  PROVE  Same(d, Command(d, cmd)) /\ k \in Job /\ Transfer(Command(d, cmd), k)
<1> DEFINE r == Command(d, cmd)
           new == [op |-> cmd, lba |-> d.lba, cnt |-> Asked(d), n |-> 0]
<1>0. SectorWords \in Nat \ {0} /\ d.lba \in Nat /\ d.lbamode \in BOOLEAN
  BY DiskAssumption DEF DiskAssumption, Disk
<1>1. ASSUME r = Failed(d) PROVE Same(d, r) /\ k \in Job /\ Transfer(r, k)
  <2>1. r.buf = <<>> /\ AtRest(r) /\ Same(d, r)
    BY <1>1, FailedRests DEF Same
  <2>2. k = NoJob
    BY <2>1
  <2> QED
    BY <2>1, <2>2, NoJobTyped DEF Transfer
<1>2. ASSUME cmd \in {"read", "write", "identify"}, r \in Disk, Len(r.buf) = SectorWords
      PROVE  k = new /\ k \in Job
  <2>1. r.buf # <<>>
    BY <1>0, <1>2
  <2>2. k = new
    BY <1>2, <2>1
  <2>3. Asked(d) \in Nat
    BY AskedTyped
  <2> QED
    BY <1>0, <1>2, <2>2, <2>3 DEF Job
<1>3. CASE cmd = "identify"
  <2>1. r = Identify(d)
    BY <1>3 DEF Command, Present
  <2>2. /\ Same(d, r) /\ r.trem = 0 /\ r.pos = 0 /\ r.pend = FALSE /\ Len(r.buf) = SectorWords
    BY <2>1, IdentifyTyped DEF Same
  <2>3. k = new /\ k \in Job
    BY <1>2, <1>3, <2>2 DEF Same
  <2>4. k.op = "identify"
    BY <1>3, <2>3
  <2> QED
    BY <1>0, <2>2, <2>3, <2>4 DEF Same, Transfer, Underway
<1>4. CASE cmd \in {"read", "write"}
  <2> DEFINE t == [d EXCEPT !.tlba = d.lba, !.trem = Asked(d)]
  <2>1. r = BeginTransfer(d, cmd = "write")
    BY <1>4 DEF Command, Present
  <2>2. CASE ~d.lbamode \/ ~Fits(d)
    BY <1>1, <2>1, <2>2 DEF BeginTransfer
  <2>3. CASE ~(~d.lbamode \/ ~Fits(d))
    <3>0. Asked(d) \in Nat \ {0}
      BY AskedTyped
    <3>1. r = IF cmd = "write" THEN PrepareWrite(t) ELSE LoadSector(t)
      BY <2>1, <2>3 DEF BeginTransfer
    <3>2. /\ t \in Disk /\ t.kind = d.kind /\ t.image = d.image /\ t.dirty = d.dirty
          /\ t.tlba = d.lba /\ t.trem = Asked(d)
      BY <1>0, <3>0 DEF Disk
    <3>3. d.lba + Asked(d) <= Sectors
      BY <2>3 DEF Fits
    <3> HIDE DEF t
    <3>7. SectorAt(d.lba) \in Nat /\ SectorAt(Asked(d)) \in Nat
      BY <1>0, <3>0, AtNat
    <3>4. d.lba < Sectors
      BY <1>0, <3>0, <3>3, DiskAssumption DEF DiskAssumption
    <3>5. CASE cmd = "write"
      <4>1. r = PrepareWrite(t)
        BY <3>1, <3>5
      <4>2. /\ Same(d, r) /\ r.tlba = d.lba /\ r.trem = Asked(d) /\ r.pos = 0 /\ r.pend = TRUE
            /\ Len(r.buf) = SectorWords
        BY <3>2, <4>1, PrepareWriteTyped DEF Same
      <4>3. k = new /\ k \in Job
        BY <1>2, <3>5, <4>2 DEF Same
      <4>4. k.op = "write" /\ k.lba = d.lba /\ k.cnt = Asked(d) /\ k.n = 0
        BY <3>5, <4>3
      <4>5. InStep(r, k)
        BY <1>0, <3>0, <3>3, <3>7, <4>2, <4>4 DEF InStep
      <4>6. Underway(r, k)
        BY <1>0, <4>2, <4>4, <4>5 DEF Same, Underway
      <4> QED
        BY <4>2, <4>3, <4>6 DEF Transfer
    <3>6. CASE cmd = "read"
      <4>1. r = LoadSector(t)
        BY <3>1, <3>6
      <4>0. /\ r \in Disk /\ r.kind = t.kind /\ r.image = t.image /\ r.dirty = t.dirty
            /\ r.tlba = t.tlba /\ r.trem = t.trem /\ r.pos = 0 /\ r.pend = FALSE
            /\ r.buf = Sector(t.image, t.tlba) /\ Len(r.buf) = SectorWords
        BY <3>2, <3>4, <4>1, LoadSectorTyped, ZenonT(120)
      <4>2. /\ Same(d, r) /\ r.tlba = d.lba /\ r.trem = Asked(d) /\ r.pos = 0 /\ r.pend = FALSE
            /\ r.buf = Sector(r.image, r.tlba) /\ Len(r.buf) = SectorWords
        BY <3>2, <4>0 DEF Same
      <4>3. k = new /\ k \in Job
        BY <1>2, <3>6, <4>2 DEF Same
      <4>4. k.op = "read" /\ k.lba = d.lba /\ k.cnt = Asked(d) /\ k.n = 0
        BY <3>6, <4>3
      <4>5. InStep(r, k)
        BY <1>0, <3>0, <3>3, <3>7, <4>2, <4>4 DEF InStep
      <4>6. Underway(r, k)
        BY <1>0, <4>2, <4>4, <4>5 DEF Same, Underway
      <4> QED
        BY <4>2, <4>3, <4>6 DEF Transfer
    <3> QED
      BY <1>4, <3>5, <3>6
  <2> QED
    BY <2>2, <2>3
<1>5. CASE cmd = "none"
  <2>1. r = [d EXCEPT !.status = Idle(d)]
    BY <1>5 DEF Command, Present, Ready
  <2>2. /\ Same(d, r) /\ r.buf = d.buf /\ r.pos = d.pos /\ r.pend = d.pend
        /\ r.tlba = d.tlba /\ r.trem = d.trem /\ r.status = Idle(d)
    <3>1. [d EXCEPT !.status = Idle(d)] \in Disk
      BY IdleTyped DEF Disk
    <3> QED
      BY <2>1, <3>1 DEF Disk, Same
  <2>3. CASE AtRest(d) /\ j = NoJob
    <3>1. d.buf = <<>> /\ ~d.pend /\ "drq" \notin Idle(d)
      BY <2>3, IdleTyped DEF AtRest
    <3>2. k = NoJob
      BY <2>2, <3>1
    <3>3. AtRest(r)
      BY <2>2, <3>1 DEF AtRest
    <3> QED
      BY <2>2, <3>2, <3>3, NoJobTyped DEF Transfer
  <2>4. CASE Underway(d, j)
    <3>1. Len(d.buf) = SectorWords
      BY <2>4 DEF Underway
    <3>2. r.buf # <<>>
      BY <1>0, <2>2, <3>1
    <3>3. k = j
      BY <1>5, <3>2
    <3>4. Underway(r, j)
      BY <2>2, <2>4 DEF Same, Underway, InStep
    <3> QED
      BY <2>2, <3>3, <3>4 DEF Transfer
  <2> QED
    BY <2>3, <2>4 DEF Transfer
<1>6. CASE cmd = "other"
  <2>1. r = Failed(d)
    BY <1>6 DEF Command, Present
  <2> QED
    BY <1>1, <2>1
<1> QED
  BY <1>3, <1>4, <1>5, <1>6 DEF Commands

--------------------------------------------------------------------------------
(***************************************************************************)
(* The data register.                                                      *)
(***************************************************************************)
LEMMA UnderwayWhenOpen ==
  ASSUME NEW d \in Disk, NEW j \in Job, Transfer(d, j), d.buf # <<>>
  PROVE  /\ Underway(d, j) /\ Len(d.buf) = SectorWords /\ d.pos < SectorWords /\ d.kind = "ata"
         /\ d.pos \in Nat /\ d.tlba \in Nat /\ d.trem \in Nat /\ j.n \in Nat
         /\ SectorAt(d.tlba) \in Nat /\ SectorAt(d.trem) \in Nat /\ SectorAt(j.lba) \in Nat /\ SectorAt(j.cnt) \in Nat
         /\ SectorWords \in Nat \ {0}
<1>1. Underway(d, j)
  BY DEF Transfer, AtRest
<1>2. d.pos \in Nat /\ d.tlba \in Nat /\ d.trem \in Nat
  BY DEF Disk
<1>3. j.n \in Nat /\ j.lba \in Nat /\ j.cnt \in Nat
  BY DEF Job
<1> QED
  BY <1>1, <1>2, <1>3, AtNat, DiskAssumption DEF DiskAssumption, Underway

\* The job with some words more behind it.
MovedBy(j, k) == [j EXCEPT !.n = @ + k]

\* The job after some more words.
LEMMA MovedTyped ==
  ASSUME NEW j \in Job, NEW k \in Nat
  PROVE  /\ MovedBy(j, k) \in Job
         /\ MovedBy(j, k).op = j.op /\ MovedBy(j, k).lba = j.lba /\ MovedBy(j, k).cnt = j.cnt
         /\ MovedBy(j, k).n = j.n + k
  BY DEF MovedBy, Job

\* The addresses of the next sector.
LEMMA NextSector ==
  ASSUME NEW tlba \in Nat, NEW trem \in Nat, trem > 1
  PROVE  /\ SectorAt(tlba + 1) = SectorAt(tlba) + SectorWords /\ SectorAt(trem) = SectorAt(trem - 1) + SectorWords
         /\ SectorAt(tlba) \in Nat /\ SectorAt(trem - 1) \in Nat
<1>1. trem - 1 \in Nat /\ (trem - 1) + 1 = trem
  OBVIOUS
<1> QED
  BY <1>1, AtNat

\* An access within a sector keeps the transfer in step with its job.
LEMMA SameSector ==
  ASSUME NEW d \in Disk, NEW e \in Disk, NEW j \in Job, NEW m \in Job, InStep(d, j),
         e.tlba = d.tlba, e.trem = d.trem, m.lba = j.lba, m.cnt = j.cnt,
         m.n = j.n + (e.pos - d.pos)
  PROVE  InStep(e, m)
<1> DEFINE a == SectorAt(d.tlba) b == SectorAt(j.lba) c == SectorAt(d.trem) f == SectorAt(j.cnt)
           p == d.pos q == e.pos x == j.n y == m.n
<1>1. /\ d.pos \in Nat /\ e.pos \in Nat /\ d.tlba \in Nat /\ d.trem \in Nat
      /\ j.n \in Nat /\ m.n \in Nat /\ j.lba \in Nat /\ j.cnt \in Nat
  BY DEF Disk, Job
<1>2. a \in Nat /\ b \in Nat /\ c \in Nat /\ f \in Nat
  BY <1>1, AtNat
<1>3. a + p = b + x /\ c - p = f - x /\ y = x + (q - p)
  BY DEF InStep
<1>4. p \in Nat /\ q \in Nat /\ x \in Nat /\ y \in Nat
  BY <1>1
<1> HIDE DEF a, b, c, f, p, q, x, y
<1>5. a + q = b + y /\ c - q = f - y
  BY <1>2, <1>3, <1>4
<1>6. SectorAt(e.tlba) + e.pos = SectorAt(m.lba) + m.n /\ SectorAt(e.trem) - e.pos = SectorAt(m.cnt) - m.n
  BY <1>5 DEF a, b, c, f, q, y
<1> QED
  BY <1>6 DEF InStep

\* So does the access that goes on to the next sector.
LEMMA NewSector ==
  ASSUME NEW d \in Disk, NEW e \in Disk, NEW j \in Job, NEW m \in Job, InStep(d, j),
         d.trem > 1, e.tlba = d.tlba + 1, e.trem = d.trem - 1, e.pos = 0,
         m.lba = j.lba, m.cnt = j.cnt, m.n = j.n + (SectorWords - d.pos)
  PROVE  InStep(e, m) /\ e.tlba < Sectors
<1> DEFINE a == SectorAt(d.tlba) b == SectorAt(j.lba) c == SectorAt(d.trem) f == SectorAt(j.cnt)
           p == d.pos x == j.n y == m.n g == SectorAt(e.tlba) h == SectorAt(e.trem)
<1>1. /\ d.pos \in Nat /\ d.tlba \in Nat /\ d.trem \in Nat /\ e.tlba \in Nat /\ e.trem \in Nat
      /\ j.n \in Nat /\ m.n \in Nat /\ j.lba \in Nat /\ j.cnt \in Nat
  BY DEF Disk, Job
<1>2. a \in Nat /\ b \in Nat /\ c \in Nat /\ f \in Nat /\ g \in Nat /\ h \in Nat
  BY <1>1, AtNat
<1>3. a + p = b + x /\ c - p = f - x /\ y = x + (SectorWords - p)
  BY DEF InStep
<1>4. g = a + SectorWords /\ c = h + SectorWords
  <2>1. SectorAt(d.tlba + 1) = SectorAt(d.tlba) + SectorWords /\ SectorAt(d.trem) = SectorAt(d.trem - 1) + SectorWords
    BY <1>1, NextSector
  <2> QED
    BY <2>1
<1>5. p \in Nat /\ x \in Nat /\ y \in Nat /\ SectorWords \in Nat
  BY <1>1, DiskAssumption DEF DiskAssumption
<1>6. e.trem > 0 /\ e.tlba + e.trem <= Sectors /\ e.tlba < Sectors
  BY <1>1, DiskAssumption DEF DiskAssumption, InStep
<1> HIDE DEF a, b, c, f, p, x, y, g, h
<1>7. g + 0 = b + y /\ h - 0 = f - y
  BY <1>2, <1>3, <1>4, <1>5
<1>8. SectorAt(e.tlba) + e.pos = SectorAt(m.lba) + m.n /\ SectorAt(e.trem) - e.pos = SectorAt(m.cnt) - m.n
  BY <1>7 DEF b, f, y, g, h
<1> QED
  BY <1>6, <1>8 DEF InStep

\* An access that reads keeps the transfer in step, up to its last sector.
LEMMA ReadGood ==
  ASSUME NEW d \in Disk, NEW j \in Job, Transfer(d, j), Readable(d), NEW n \in 1..SectorWords
  PROVE  LET r == DataRead(d, n)
             k == JobAfter(r, MovedBy(j, Taken(d, n) - d.pos))
         IN Same(d, r) /\ k \in Job /\ Transfer(r, k)
<1> DEFINE r == DataRead(d, n)
           moved == Taken(d, n) - d.pos
           m == MovedBy(j, moved)
           k == JobAfter(r, m)
           e == [d EXCEPT !.pos = Taken(d, n)]
           s == Stepped(e)
<1> SUFFICES Same(d, r) /\ k \in Job /\ Transfer(r, k)
  OBVIOUS
<1>1. d.buf # <<>> /\ ~d.pend
  BY DEF Readable
<1>2. /\ Underway(d, j) /\ Len(d.buf) = SectorWords /\ d.pos < SectorWords /\ d.kind = "ata"
      /\ d.pos \in Nat /\ d.tlba \in Nat /\ d.trem \in Nat /\ j.n \in Nat
      /\ SectorAt(d.tlba) \in Nat /\ SectorAt(d.trem) \in Nat /\ SectorAt(j.lba) \in Nat /\ SectorAt(j.cnt) \in Nat
      /\ SectorWords \in Nat \ {0}
  BY <1>1, UnderwayWhenOpen
<1>20. n \in Nat \ {0}
  BY <1>2
<1>3. /\ Taken(d, n) \in Nat /\ Taken(d, n) > d.pos /\ Taken(d, n) <= SectorWords
  BY <1>2, <1>20, TakenTyped
<1>4. moved \in Nat /\ moved = Taken(d, n) - d.pos
  BY <1>2, <1>3
<1>21. k = JobAfter(r, m)
  OBVIOUS
<1> HIDE DEF moved
<1>5. /\ m \in Job /\ m.op = j.op /\ m.lba = j.lba /\ m.cnt = j.cnt /\ m.n = j.n + moved
  BY <1>4, MovedTyped
<1>6. /\ e \in Disk /\ e.kind = d.kind /\ e.image = d.image /\ e.dirty = d.dirty /\ e.buf = d.buf
      /\ e.pos = Taken(d, n) /\ e.pend = d.pend /\ e.tlba = d.tlba /\ e.trem = d.trem
  BY <1>3 DEF Disk
<1>7. r = IF e.pos < Len(d.buf) THEN e ELSE IF s.trem > 0 THEN LoadSector(s) ELSE Finished(s)
  BY <1>1 DEF DataRead, Readable
<1> HIDE DEF e, m, r, k
<1>8. CASE Taken(d, n) < SectorWords
  <2>1. r = e
    BY <1>2, <1>6, <1>7, <1>8
  <2>2. k = m
    BY <1>1, <1>6, <2>1, <1>21 DEF JobAfter
  <2>3. ASSUME j.op \in {"read", "write"} PROVE InStep(e, m)
    <3>1. InStep(d, j)
      BY <1>2, <2>3 DEF Underway
    <3>2. m.n = j.n + (e.pos - d.pos)
      BY <1>4, <1>5, <1>6
    <3> QED
      BY <1>5, <1>6, <3>1, <3>2, SameSector
  <2>4. Underway(e, m)
    BY <1>1, <1>2, <1>3, <1>4, <1>5, <1>6, <1>8, <2>3 DEF Underway
  <2> QED
    BY <1>5, <1>6, <2>1, <2>2, <2>4 DEF Same, Transfer
<1>9. CASE Taken(d, n) = SectorWords
  <2>1. r = IF s.trem > 0 THEN LoadSector(s) ELSE Finished(s)
    BY <1>2, <1>6, <1>7, <1>9
  <2>2. /\ s \in Disk /\ s.kind = d.kind /\ s.image = d.image /\ s.dirty = d.dirty
        /\ s.tlba = d.tlba + 1 /\ s.trem = (IF d.trem > 0 THEN d.trem - 1 ELSE 0)
    BY <1>6, SteppedTyped
  <2> HIDE DEF s
  <2>3. CASE ~(s.trem > 0)
    <3>1. r = Finished(s)
      BY <2>1, <2>3
    <3>2. Same(d, r) /\ AtRest(r) /\ r.buf = <<>>
      BY <2>2, <3>1, FinishedRests DEF Same
    <3>3. k = NoJob
      BY <3>2, <1>21 DEF JobAfter
    <3> QED
      BY <3>2, <3>3, NoJobTyped DEF Transfer
  <2>4. CASE s.trem > 0
    <3>1. d.trem > 1 /\ s.trem = d.trem - 1
      BY <1>2, <2>2, <2>4
    <3>2. j.op = "read" /\ InStep(d, j)
      BY <1>1, <1>2, <3>1 DEF Underway, Job
    <3>3. s.tlba < Sectors /\ s.tlba + s.trem <= Sectors
      BY <1>2, <2>2, <3>1, <3>2, DiskAssumption, SMTT(60) DEF DiskAssumption, InStep
    <3>4. /\ r \in Disk /\ r.kind = s.kind /\ r.image = s.image /\ r.dirty = s.dirty
          /\ r.tlba = s.tlba /\ r.trem = s.trem /\ r.pos = 0 /\ r.pend = FALSE
          /\ r.buf = Sector(s.image, s.tlba) /\ Len(r.buf) = SectorWords
      BY <2>1, <2>2, <2>4, <3>3, LoadSectorTyped
    <3>5. r.buf # <<>>
      BY <1>2, <3>4
    <3>6. k = m
      BY <3>5, <1>21 DEF JobAfter
    <3>7. m.n = j.n + (SectorWords - d.pos)
      BY <1>4, <1>5, <1>9
    <3>8. InStep(r, m)
      BY <1>5, <2>2, <3>1, <3>2, <3>4, <3>7, NewSector
    <3>9. r.kind = "ata" /\ r.pos < SectorWords /\ m.op = "read" /\ r.buf = Sector(r.image, r.tlba)
      BY <1>2, <1>5, <2>2, <3>2, <3>4
    <3>10. Underway(r, m)
      BY <3>4, <3>8, <3>9 DEF Underway
    <3> QED
      BY <1>5, <2>2, <3>4, <3>6, <3>10 DEF Same, Transfer
  <2> QED
    BY <2>3, <2>4
<1> QED
  BY <1>2, <1>3, <1>8, <1>9

\* The words of an access, put into the buffer behind those already there.
Filled(d, to, x) == [d EXCEPT !.pos = to, !.buf = [i \in DOMAIN d.buf |->
                       IF i \in d.pos + 1 .. to THEN x + (i - d.pos) ELSE d.buf[i]]]

\* The buffer holds the job's words up to where it is filled.
LEMMA FilledTyped ==
  ASSUME NEW d \in Disk, Len(d.buf) = SectorWords, NEW to \in Nat, NEW x \in Nat,
         d.pos < to, to <= SectorWords,
         \A i \in 1..d.pos : d.buf[i] = x - d.pos + i
  PROVE  LET r == Filled(d, to, x)
         IN /\ r \in Disk /\ r.kind = d.kind /\ r.image = d.image /\ r.dirty = d.dirty
            /\ r.pos = to /\ r.pend = d.pend /\ r.tlba = d.tlba /\ r.trem = d.trem
            /\ Len(r.buf) = SectorWords
            /\ \A i \in 1..to : r.buf[i] = x - d.pos + i
<1> DEFINE b == [i \in 1..SectorWords |-> IF i \in d.pos + 1 .. to THEN x + (i - d.pos) ELSE d.buf[i]]
           r == Filled(d, to, x)
<1>1. /\ d.buf \in Seq(Datum) /\ d.pos \in Nat /\ SectorWords \in Nat
      /\ DOMAIN d.buf = 1..SectorWords /\ \A i \in 1..SectorWords : d.buf[i] \in Datum
  BY DiskAssumption DEF DiskAssumption, Disk
<1>2. ASSUME NEW i \in 1..SectorWords PROVE b[i] \in Datum
  BY <1>1, SMTT(60) DEF Datum
<1>3. b \in Seq(Datum) /\ Len(b) = SectorWords
  BY <1>1, <1>2
<1>4. r = [d EXCEPT !.pos = to, !.buf = b]
  BY <1>1 DEF Filled
<1>5. ASSUME NEW i \in 1..to PROVE b[i] = x - d.pos + i
  <2>0. i \in 1..SectorWords
    BY <1>1
  <2>1. CASE i \in d.pos + 1 .. to
    BY <1>1, <2>0, <2>1
  <2>2. CASE i \notin d.pos + 1 .. to
    <3>1. i \in 1..d.pos
      BY <1>1, <2>2
    <3> QED
      BY <1>1, <2>0, <2>2, <3>1
  <2> QED
    BY <2>1, <2>2
<1> HIDE DEF b
<1>6. /\ r \in Disk /\ r.kind = d.kind /\ r.image = d.image /\ r.dirty = d.dirty
      /\ r.pos = to /\ r.pend = d.pend /\ r.tlba = d.tlba /\ r.trem = d.trem /\ r.buf = b
  <2>1. [d EXCEPT !.pos = to, !.buf = b] \in Disk
    BY <1>3 DEF Disk
  <2> QED
    BY <1>4, <2>1 DEF Disk
<1> QED
  BY <1>3, <1>5, <1>6

\* The card as it should be once a sector ends with the word x + 1 of its first word.
Written(img, lba, first) ==
  [w \in Words |-> IF w - SectorAt(lba) \in first .. first + SectorWords - 1
                   THEN w - SectorAt(lba) + 1 ELSE img[w]]

\* A commit changes the image as the guest meant to change the card.
LEMMA PatchedIsWritten ==
  ASSUME NEW d \in Disk, NEW j \in Job, NEW first \in Int,
         SectorAt(d.tlba) = SectorAt(j.lba) + first,
         \A i \in 1..SectorWords : d.buf[i] = first + i
  PROVE  Patched(d) = Written(d.image, j.lba, first)
<1>1. SectorAt(d.tlba) \in Nat /\ SectorAt(j.lba) \in Nat
  <2>1. d.tlba \in Nat /\ j.lba \in Nat
    BY DEF Disk, Job
  <2> QED
    BY <2>1, AtNat
<1>2. ASSUME NEW w \in Words
      PROVE  (IF w \in SectorAt(d.tlba) .. SectorAt(d.tlba) + SectorWords - 1
              THEN d.buf[w - SectorAt(d.tlba) + 1] ELSE d.image[w])
             = (IF w - SectorAt(j.lba) \in first .. first + SectorWords - 1
                THEN w - SectorAt(j.lba) + 1 ELSE d.image[w])
  <2>0. w \in Int
    BY DEF Words
  <2> DEFINE a == SectorAt(d.tlba) b == SectorAt(j.lba)
  <2>1. a \in Nat /\ b \in Nat /\ a = b + first /\ SectorWords \in Nat
    BY <1>1, DiskAssumption DEF DiskAssumption
  <2> HIDE DEF a, b
  <2>2. w \in a .. a + SectorWords - 1 <=> w - b \in first .. first + SectorWords - 1
    BY <2>0, <2>1
  <2>3. ASSUME w \in a .. a + SectorWords - 1
        PROVE  w - a + 1 \in 1..SectorWords /\ first + (w - a + 1) = w - b + 1
    BY <2>0, <2>1, <2>3
  <2>4. ASSUME w \in a .. a + SectorWords - 1
        PROVE  d.buf[w - a + 1] = w - b + 1
    BY <2>3, <2>4
  <2> QED
    BY <2>2, <2>4 DEF a, b
<1> QED
  BY <1>2 DEF Patched, Written

\* An access that writes keeps the transfer in step, and commits a full sector.
LEMMA WriteGood ==
  ASSUME NEW d \in Disk, NEW j \in Job, Transfer(d, j), Writable(d), NEW n \in 1..SectorWords
  PROVE  LET r == DataWrite(d, [i \in 1..n |-> j.n + i])
             k == JobAfter(r, MovedBy(j, Taken(d, n) - d.pos))
         IN /\ r \in Disk /\ r.kind = "ata" /\ k \in Job /\ Transfer(r, k)
            /\ d.pos + n < SectorWords => r.image = d.image /\ r.dirty = d.dirty
            /\ ~(d.pos + n < SectorWords) =>
                 r.image = Written(d.image, j.lba, j.n - d.pos) /\ r.dirty = TRUE
<1> DEFINE words == [i \in 1..n |-> j.n + i]
           r == DataWrite(d, words)
           to == Taken(d, n)
           moved == to - d.pos
           m == MovedBy(j, moved)
           k == JobAfter(r, m)
           e == Filled(d, to, j.n)
<1> SUFFICES /\ r \in Disk /\ r.kind = "ata" /\ k \in Job /\ Transfer(r, k)
             /\ d.pos + n < SectorWords => r.image = d.image /\ r.dirty = d.dirty
             /\ ~(d.pos + n < SectorWords) =>
                  r.image = Written(d.image, j.lba, j.n - d.pos) /\ r.dirty = TRUE
  OBVIOUS
<1>1. d.buf # <<>> /\ d.pend
  BY DEF Writable
<1>2. /\ Underway(d, j) /\ Len(d.buf) = SectorWords /\ d.pos < SectorWords /\ d.kind = "ata"
      /\ d.pos \in Nat /\ d.tlba \in Nat /\ d.trem \in Nat /\ j.n \in Nat
      /\ SectorAt(d.tlba) \in Nat /\ SectorAt(d.trem) \in Nat /\ SectorAt(j.lba) \in Nat /\ SectorAt(j.cnt) \in Nat
      /\ SectorWords \in Nat \ {0}
  BY <1>1, UnderwayWhenOpen
<1>3. j.op = "write" /\ InStep(d, j) /\ \A i \in 1..d.pos : d.buf[i] = j.n - d.pos + i
  BY <1>1, <1>2 DEF Underway
<1>4. n \in Nat \ {0} /\ Len(words) = n
  BY <1>2
<1>5. /\ to \in Nat /\ to > d.pos /\ to <= SectorWords
      /\ to = SectorWords <=> d.pos + n >= SectorWords
      /\ to < SectorWords => to = d.pos + n
  BY <1>2, <1>4, TakenTyped
<1>6. moved \in Nat /\ moved = to - d.pos
  BY <1>2, <1>5
<1>7. /\ m \in Job /\ m.op = j.op /\ m.lba = j.lba /\ m.cnt = j.cnt /\ m.n = j.n + moved
  BY <1>6, MovedTyped
<1>8. r = IF to = SectorWords THEN CommitWrite(e) ELSE e
  <2>1. to <= d.pos + n
    BY <1>2, <1>4 DEF Taken
  <2>2. DOMAIN d.buf = 1..SectorWords
    BY <1>2 DEF Disk
  <2>3. ASSUME NEW i \in 1..SectorWords
        PROVE  (IF i \in d.pos + 1 .. to THEN words[i - d.pos] ELSE d.buf[i])
               = (IF i \in d.pos + 1 .. to THEN j.n + (i - d.pos) ELSE d.buf[i])
    <3>1. ASSUME i \in d.pos + 1 .. to PROVE i - d.pos \in 1..n
      <4> DEFINE p == d.pos
      <4>1. p \in Nat /\ to \in Nat /\ n \in Nat /\ to <= p + n /\ i \in p + 1 .. to
        BY <1>2, <1>4, <1>5, <2>1, <3>1
      <4> HIDE DEF p, to
      <4>2. i - p \in 1..n
        BY <4>1
      <4> QED
        BY <4>2 DEF p
    <3> QED
      BY <3>1
  <2>4. [d EXCEPT !.pos = to, !.buf = [i \in DOMAIN @ |-> IF i \in d.pos + 1 .. to
                                             THEN words[i - d.pos] ELSE @[i]]] = e
    BY <2>2, <2>3 DEF Filled, Disk
  <2> QED
    BY <1>1, <1>2, <1>4, <2>4 DEF DataWrite, Writable
<1>9. /\ e \in Disk /\ e.kind = d.kind /\ e.image = d.image /\ e.dirty = d.dirty
      /\ e.pos = to /\ e.pend = d.pend /\ e.tlba = d.tlba /\ e.trem = d.trem
      /\ Len(e.buf) = SectorWords /\ \A i \in 1..to : e.buf[i] = j.n - d.pos + i
  <2>1. to \in Nat /\ d.pos < to /\ to <= SectorWords /\ Len(d.buf) = SectorWords /\ j.n \in Nat
    BY <1>2, <1>5
  <2>2. \A i \in 1..d.pos : d.buf[i] = j.n - d.pos + i
    BY <1>3
  <2> HIDE DEF to
  <2> QED
    BY <2>1, <2>2, FilledTyped, Zenon
<1>21. k = JobAfter(r, m)
  OBVIOUS
<1> HIDE DEF r, k, m, e, to, moved, words
<1>10. CASE d.pos + n < SectorWords
  <2>1. to < SectorWords
    BY <1>2, <1>4, <1>5, <1>10
  <2>2. r = e
    BY <1>2, <1>5, <1>8, <2>1
  <2>3. e.buf # <<>>
    BY <1>2, <1>9
  <2>4. k = m
    BY <1>21, <2>2, <2>3 DEF JobAfter
  <2>5. m.n = j.n + (e.pos - d.pos)
    BY <1>6, <1>7, <1>9
  <2>6. InStep(e, m)
    BY <1>3, <1>7, <1>9, <2>5, SameSector
  <2>7. m.n - e.pos = j.n - d.pos
    <3>1. m.n = j.n + (to - d.pos) /\ e.pos = to
      BY <1>6, <1>7, <1>9
    <3> QED
      BY <1>2, <1>5, <3>1, SMTT(60) DEF Disk, Job
  <2>8. \A i \in 1..e.pos : e.buf[i] = m.n - e.pos + i
    BY <1>9, <2>7
  <2>9. Underway(e, m)
    BY <1>1, <1>2, <1>3, <1>7, <1>9, <2>1, <2>6, <2>8 DEF Underway
  <2> QED
    BY <1>2, <1>7, <1>9, <1>10, <2>2, <2>4, <2>9 DEF Transfer
<1>11. CASE ~(d.pos + n < SectorWords)
  <2>1. to = SectorWords
    BY <1>2, <1>4, <1>5, <1>11
  <2>2. r = CommitWrite(e)
    BY <1>8, <2>1
  <2>3. /\ r \in Disk /\ r.kind = e.kind /\ r.image = Patched(e) /\ r.dirty = TRUE
        /\ e.trem <= 1 => AtRest(r) /\ r.buf = <<>>
        /\ e.trem > 1 => /\ r.tlba = e.tlba + 1 /\ r.trem = e.trem - 1 /\ r.pos = 0
                         /\ r.pend = TRUE /\ Len(r.buf) = SectorWords
    BY <1>9, <2>2, CommitTyped
  <2>4. Patched(e) = Written(e.image, j.lba, j.n - d.pos)
    <3>1. SectorAt(e.tlba) = SectorAt(j.lba) + (j.n - d.pos)
      <4> DEFINE a == SectorAt(d.tlba) b == SectorAt(j.lba) p == d.pos x == j.n
      <4>1. a \in Nat /\ b \in Nat /\ p \in Nat /\ x \in Nat /\ a + p = b + x
        BY <1>2, <1>3 DEF InStep
      <4> HIDE DEF a, b, p, x
      <4>2. a = b + (x - p)
        BY <4>1
      <4> QED
        BY <1>9, <4>2 DEF a, b, p, x
    <3>2. \A i \in 1..SectorWords : e.buf[i] = (j.n - d.pos) + i
      BY <1>9, <2>1
    <3>3. j.n - d.pos \in Int
      BY <1>2
    <3> QED
      BY <1>9, <3>1, <3>2, <3>3, PatchedIsWritten
  <2>5. CASE d.trem <= 1
    <3>1. AtRest(r) /\ r.buf = <<>>
      BY <1>9, <2>3, <2>5
    <3>2. k = NoJob
      BY <1>21, <3>1 DEF JobAfter
    <3> QED
      BY <1>2, <1>9, <1>11, <2>3, <2>4, <3>1, <3>2, NoJobTyped DEF Transfer
  <2>6. CASE d.trem > 1
    <3>1. /\ r.tlba = d.tlba + 1 /\ r.trem = d.trem - 1 /\ r.pos = 0
          /\ r.pend = TRUE /\ Len(r.buf) = SectorWords
      BY <1>9, <2>3, <2>6
    <3>2. r.buf # <<>>
      BY <1>2, <3>1
    <3>3. k = m
      BY <1>21, <3>2 DEF JobAfter
    <3>4. m.n = j.n + (SectorWords - d.pos)
      BY <1>6, <1>7, <2>1
    <3>5. InStep(r, m)
      BY <1>3, <1>7, <2>3, <2>6, <3>1, <3>4, NewSector
    <3>6. m.op = "write" /\ r.kind = "ata" /\ r.pos < SectorWords
      BY <1>2, <1>3, <1>7, <1>9, <2>3, <3>1
    <3>7. Underway(r, m)
      BY <3>1, <3>5, <3>6 DEF Underway
    <3> QED
      BY <1>2, <1>7, <1>9, <1>11, <2>3, <2>4, <3>3, <3>7 DEF Transfer
  <2>7. d.trem <= 1 \/ d.trem > 1
    BY DEF Disk
  <2> QED
    BY <2>5, <2>6, <2>7
<1> QED
  BY <1>10, <1>11

--------------------------------------------------------------------------------
(***************************************************************************)
(* The invariant holds when the machine is set up.                         *)
(***************************************************************************)
LEMMA LoadedRests ==
  ASSUME NEW d \in Disk, NEW img \in Image
  PROVE  /\ Loaded(d, img) \in Disk /\ AtRest(Loaded(d, img)) /\ Loaded(d, img).buf = <<>>
         /\ Loaded(d, img).kind = "ata" /\ Loaded(d, img).image = img
         /\ Loaded(d, img).dirty = FALSE
<1> DEFINE e == [d EXCEPT !.kind = "ata", !.image = img, !.dirty = FALSE, !.visible = FALSE]
<1>1. e \in Disk /\ e.kind = "ata" /\ e.image = img /\ e.dirty = FALSE
  BY DEF Disk
<1>2. Loaded(d, img) = ResetTaskfile(e)
  BY DEF Loaded
<1> HIDE DEF e
<1> QED
  BY <1>1, <1>2, ResetRests

\* A card that is ejected leaves nothing behind.
LEMMA EmptyRests ==
  ASSUME NEW d \in Disk, ~Present(d) => AtRest(d)
  PROVE  /\ Ejected(d) \in Disk /\ AtRest(Ejected(d)) /\ Ejected(d).kind = "none"
         /\ Ejected(d).buf = <<>>
<1> DEFINE e == [d EXCEPT !.kind = "none", !.image = Blank, !.dirty = FALSE]
<1>1. e \in Disk /\ e.kind = "none"
  BY BlankTyped DEF Disk
<1>2. Ejected(d) = IF ~Present(d) THEN d ELSE ResetTaskfile(e)
  BY DEF Ejected
<1> HIDE DEF e
<1>3. CASE ~Present(d)
  BY <1>2, <1>3 DEF Present, AtRest
<1>4. CASE Present(d)
  BY <1>1, <1>2, <1>4, ResetRests
<1> QED
  BY <1>3, <1>4

\* A network card has no sectors.
LEMMA IoCardRests ==
  ASSUME NEW d \in Disk
  PROVE  IoCardIn(d) \in Disk /\ AtRest(IoCardIn(d)) /\ IoCardIn(d).buf = <<>> /\ IoCardIn(d).kind = "io"
<1> DEFINE e == [d EXCEPT !.kind = "io", !.image = Blank, !.dirty = FALSE, !.visible = FALSE]
<1>1. e \in Disk /\ e.kind = "io"
  BY BlankTyped DEF Disk
<1>2. IoCardIn(d) = ResetTaskfile(e)
  BY DEF IoCardIn
<1> HIDE DEF e
<1> QED
  BY <1>1, <1>2, ResetRests

\* Whether the card is in the socket at start or is to be inserted later.
LEMMA SlotInvInit == CfInit => SlotInv
<1> SUFFICES ASSUME CfInit PROVE SlotInv
  OBVIOUS
<1>1. /\ plan \in [eject : Nat, insert : Nat, net : Nat]
      /\ file = Blank /\ media = Blank /\ now = 0 /\ done = {} /\ job = NoJob
  BY SlotAssumption DEF SlotAssumption, CfInit
<1>2. PICK visible \in BOOLEAN :
        disk = IF Deferred(plan) THEN ResetTaskfile(NoDisk)
               ELSE BootVisible(Loaded(NoDisk, file), visible)
  BY DEF CfInit
<1>3. file \in Image /\ media \in Image /\ job \in Job /\ NoDisk \in Disk /\ NoDisk.kind = "none"
  BY <1>1, BlankTyped, NoJobTyped, NoDiskRests
<1>4. CASE Deferred(plan)
  <2>1. disk \in Disk /\ AtRest(disk) /\ disk.kind = "none"
    BY <1>2, <1>3, <1>4, ResetRests
  <2> QED
    BY <1>1, <1>3, <2>1 DEF SlotInv, SlotTypeOK, Transfer, Kept, InsertAwaits
<1>5. CASE ~Deferred(plan)
  <2> DEFINE l == Loaded(NoDisk, file)
             e == [l EXCEPT !.visible = visible /\ l.kind = "ata"]
  <2>1. l \in Disk /\ l.kind = "ata" /\ l.image = file /\ l.dirty = FALSE
    BY <1>3, LoadedRests
  <2> HIDE DEF l
  <2>2. e \in Disk /\ e.kind = "ata" /\ e.image = file /\ e.dirty = FALSE
    BY <2>1 DEF Disk
  <2>3. disk = ResetTaskfile(e)
    BY <1>2, <1>5 DEF BootVisible, l
  <2> HIDE DEF e
  <2>4. disk \in Disk /\ AtRest(disk) /\ disk.kind = "ata" /\ disk.image = file /\ disk.dirty = FALSE
    BY <2>2, <2>3, ResetRests
  <2>5. plan.insert > 0 => plan.eject > 0
    BY <1>1, <1>5 DEF Deferred
  <2> QED
    BY <1>1, <1>3, <2>4, <2>5 DEF SlotInv, SlotTypeOK, Transfer, Kept, InsertAwaits
<1> QED
  BY <1>4, <1>5

--------------------------------------------------------------------------------
(***************************************************************************)
(* Every step keeps it.  A step that moves nothing between the image, the  *)
(* file and the guest's view of the card needs only its transfer.          *)
(***************************************************************************)
LEMMA QuietStep ==
  ASSUME SlotInv, Same(disk, disk'), job' \in Job, Transfer(disk', job'),
         UNCHANGED <<file, plan, now, done, media>>
  PROVE  SlotInv'
<1>1. SlotTypeOK'
  BY DEF SlotInv, SlotTypeOK, Same
<1>2. Kept(disk, file, media)' /\ InsertAwaits(disk, plan, done)'
  BY DEF SlotInv, Same, Kept, InsertAwaits
<1> QED
  BY <1>1, <1>2 DEF SlotInv

\* A disk with the same transfer keeps the job.
LEMMA BecomesGood ==
  ASSUME NEW d \in Disk, NEW e, NEW j \in Job, Transfer(d, j), Same(d, e),
         AtRest(e) \/ (/\ e.buf = d.buf /\ e.pos = d.pos /\ e.pend = d.pend /\ e.status = d.status
                       /\ e.tlba = d.tlba /\ e.trem = d.trem)
  PROVE  JobAfter(e, j) \in Job /\ Transfer(e, JobAfter(e, j))
<1>1. CASE AtRest(e)
  BY <1>1, NoJobTyped DEF AtRest, JobAfter, Transfer
<1>2. CASE ~AtRest(e) /\ (/\ e.buf = d.buf /\ e.pos = d.pos /\ e.pend = d.pend /\ e.status = d.status
                          /\ e.tlba = d.tlba /\ e.trem = d.trem)
  <2>1. ~AtRest(d)
    BY <1>2 DEF AtRest
  <2>2. Underway(d, j)
    BY <2>1 DEF Transfer
  <2>3. e.buf # <<>>
    BY <1>2, <2>2, DiskAssumption DEF DiskAssumption, Underway
  <2>4. Underway(e, j)
    BY <1>2, <2>2 DEF Underway, InStep, Same
  <2> QED
    BY <2>3, <2>4 DEF JobAfter, Transfer
<1> QED
  BY <1>1, <1>2

\* The guest writes the taskfile in the middle of a transfer, or between two.
LEMMA TaskfileKeeps == SlotInv /\ WriteTaskfile => SlotInv'
<1> SUFFICES ASSUME SlotInv, WriteTaskfile PROVE SlotInv'
  OBVIOUS
<1>1. disk \in Disk /\ job \in Job /\ Transfer(disk, job)
  BY DEF SlotInv, SlotTypeOK
<1>2. UNCHANGED <<file, plan, now, done, media>>
  BY DEF WriteTaskfile, Guest
<1>3. /\ Same(disk, disk') /\ disk'.buf = disk.buf /\ disk'.pos = disk.pos
      /\ disk'.pend = disk.pend /\ disk'.status = disk.status
      /\ disk'.tlba = disk.tlba /\ disk'.trem = disk.trem
      /\ job' = JobAfter(disk', job)
  <2>1. CASE \E l \in 0..Sectors : Becomes([disk EXCEPT !.lba = l])
    BY <1>1, <2>1, DiskAssumption DEF DiskAssumption, Becomes, Disk, Same, JobAfter
  <2>2. CASE \E c \in 0..CountMod - 1 : Becomes([disk EXCEPT !.count = c])
    BY <1>1, <2>2, DiskAssumption, SMTT(60) DEF DiskAssumption, Becomes, Disk, Same, JobAfter
  <2>3. CASE \E mode \in BOOLEAN : Becomes([disk EXCEPT !.lbamode = mode])
    BY <1>1, <2>3 DEF Becomes, Disk, Same, JobAfter
  <2> QED
    BY <2>1, <2>2, <2>3 DEF WriteTaskfile
<1>4. job' \in Job /\ Transfer(disk', job')
  BY <1>1, <1>3, BecomesGood
<1> QED
  BY <1>2, <1>3, <1>4, QuietStep

\* The guest writes the command register.
LEMMA CommandKeeps == SlotInv /\ WriteCommand => SlotInv'
<1> SUFFICES ASSUME SlotInv, WriteCommand PROVE SlotInv'
  OBVIOUS
<1>1. disk \in Disk /\ job \in Job /\ Transfer(disk, job)
  BY DEF SlotInv, SlotTypeOK
<1>2. UNCHANGED <<file, plan, now, done, media>> /\ disk.kind = "ata"
  BY DEF WriteCommand, Guest
<1>3. PICK cmd \in Commands :
        /\ disk' = Command(disk, cmd)
        /\ job' = IF Command(disk, cmd).buf = <<>> THEN NoJob
                  ELSE IF cmd = "none" THEN job
                  ELSE [op |-> cmd, lba |-> disk.lba, cnt |-> Asked(disk), n |-> 0]
  BY DEF WriteCommand
<1>4. Same(disk, disk') /\ job' \in Job /\ Transfer(disk', job')
  BY <1>1, <1>2, <1>3, CommandGood
<1> QED
  BY <1>2, <1>4, QuietStep

\* The guest reads the data register.
LEMMA ReadKeeps == SlotInv /\ ReadData => SlotInv'
<1> SUFFICES ASSUME SlotInv, ReadData PROVE SlotInv'
  OBVIOUS
<1>1. disk \in Disk /\ job \in Job /\ Transfer(disk, job)
  BY DEF SlotInv, SlotTypeOK
<1>2. UNCHANGED <<file, plan, now, done, media>> /\ Readable(disk)
  BY DEF ReadData, Guest
<1>3. PICK n \in 1..SectorWords : Moved(DataRead(disk, n), n)
  BY DEF ReadData
<1>4. /\ disk' = DataRead(disk, n)
      /\ job' = JobAfter(DataRead(disk, n), MovedBy(job, Taken(disk, n) - disk.pos))
  <2>1. job \in Job /\ job.n \in Nat /\ disk.pos \in Nat
    BY <1>1 DEF Job, Disk
  <2>2. Taken(disk, n) \in Int
    BY <1>1 DEF Taken, Disk
  <2>3. [job EXCEPT !.n = @ + Taken(disk, n) - disk.pos] = MovedBy(job, Taken(disk, n) - disk.pos)
    BY <2>1, <2>2 DEF MovedBy, Job
  <2> QED
    BY <1>3, <2>3 DEF Moved, JobAfter
<1>5. Same(disk, disk') /\ job' \in Job /\ Transfer(disk', job')
  BY <1>1, <1>2, <1>4, ReadGood
<1> QED
  BY <1>2, <1>5, QuietStep

\* The guest writes the device control register.
LEMMA ControlKeeps == SlotInv /\ WriteControl => SlotInv'
<1> SUFFICES ASSUME SlotInv, WriteControl PROVE SlotInv'
  OBVIOUS
<1>1. disk \in Disk /\ job \in Job /\ Transfer(disk, job)
  BY DEF SlotInv, SlotTypeOK
<1>2. UNCHANGED <<file, plan, now, done, media>>
  BY DEF WriteControl, Guest
<1>3. /\ disk' \in {ResetTaskfile(disk), disk} /\ job' = JobAfter(disk', job)
  BY DEF WriteControl, Control, Becomes, JobAfter
<1>4. Same(disk, disk') /\ job' \in Job /\ Transfer(disk', job')
  <2>1. CASE disk' = ResetTaskfile(disk)
    <3>1. Same(disk, disk') /\ AtRest(disk')
      BY <1>1, <2>1, ResetRests DEF Same
    <3> QED
      BY <1>1, <1>3, <3>1, BecomesGood
  <2>2. CASE disk' = disk
    BY <1>1, <1>3, <2>2, BecomesGood DEF Same
  <2> QED
    BY <1>3, <2>1, <2>2
<1> QED
  BY <1>2, <1>4, QuietStep

\* The guest writes the data register.
LEMMA WriteKeeps == SlotInv /\ WriteData => SlotInv'
<1> SUFFICES ASSUME SlotInv, WriteData PROVE SlotInv'
  OBVIOUS
<1>1. /\ disk \in Disk /\ job \in Job /\ Transfer(disk, job) /\ file \in Image /\ media \in Image
      /\ Kept(disk, file, media) /\ InsertAwaits(disk, plan, done)
  BY DEF SlotInv, SlotTypeOK
<1>2. UNCHANGED <<file, plan, now, done>> /\ Writable(disk) /\ disk.kind = "ata"
  BY DEF WriteData, Guest
<1> DEFINE first(n) == job.n + Taken(disk, n) - disk.pos - SectorWords
           words(n) == [i \in 1..n |-> job.n + i]
<1>3. PICK n \in 1..SectorWords :
        /\ Moved(DataWrite(disk, words(n)), n)
        /\ media' = IF disk.pos + n < SectorWords THEN media
                    ELSE [w \in Words |->
                            IF w - job.lba * SectorWords \in first(n) .. first(n) + SectorWords - 1
                            THEN w - job.lba * SectorWords + 1 ELSE media[w]]
  BY DEF WriteData
<1>4. /\ disk' = DataWrite(disk, words(n))
      /\ job' = JobAfter(DataWrite(disk, words(n)), MovedBy(job, Taken(disk, n) - disk.pos))
  <2>1. job \in Job /\ job.n \in Nat /\ disk.pos \in Nat
    BY <1>1 DEF Job, Disk
  <2>2. Taken(disk, n) \in Int
    BY <1>1 DEF Taken, Disk
  <2>3. [job EXCEPT !.n = @ + Taken(disk, n) - disk.pos] = MovedBy(job, Taken(disk, n) - disk.pos)
    BY <2>1, <2>2 DEF MovedBy, Job
  <2> QED
    BY <1>3, <2>3 DEF Moved, JobAfter
<1>5. /\ disk' \in Disk /\ disk'.kind = "ata" /\ job' \in Job /\ Transfer(disk', job')
      /\ disk.pos + n < SectorWords => disk'.image = disk.image /\ disk'.dirty = disk.dirty
      /\ ~(disk.pos + n < SectorWords) =>
           disk'.image = Written(disk.image, job.lba, job.n - disk.pos) /\ disk'.dirty = TRUE
  BY <1>1, <1>2, <1>4, WriteGood
<1>6. media = disk.image /\ (~disk.dirty => disk.image = file)
  BY <1>1, <1>2 DEF Kept
<1>7. CASE disk.pos + n < SectorWords
  <2>1. Kept(disk, file, media)' /\ media' \in Image
    BY <1>1, <1>2, <1>3, <1>5, <1>6, <1>7 DEF Kept
  <2> QED
    BY <1>1, <1>2, <1>5, <2>1 DEF SlotInv, SlotTypeOK, InsertAwaits
<1>8. CASE ~(disk.pos + n < SectorWords)
  <2>1. first(n) = job.n - disk.pos
    <3>1. disk.buf # <<>>
      BY <1>2 DEF Writable
    <3>2. /\ Len(disk.buf) = SectorWords /\ disk.pos \in Nat /\ job.n \in Nat /\ SectorWords \in Nat \ {0}
      BY <1>1, <3>1, UnderwayWhenOpen
    <3>3. Taken(disk, n) = SectorWords
      BY <1>8, <3>2 DEF Taken
    <3> DEFINE p == disk.pos x == job.n
    <3> HIDE DEF p, x
    <3>4. p \in Nat /\ x \in Nat
      BY <3>2 DEF p, x
    <3>5. x + SectorWords - p - SectorWords = x - p
      BY <3>2, <3>4
    <3> QED
      BY <3>3, <3>5 DEF p, x
  <2> HIDE DEF first
  <2>2. media' = Written(disk.image, job.lba, job.n - disk.pos)
    BY <1>3, <1>6, <1>8, <2>1 DEF Written, SectorAt
  <2>3. media' = disk'.image /\ disk'.dirty = TRUE
    BY <1>5, <1>8, <2>2
  <2>4. media' \in Image
    BY <1>5, <2>3 DEF Disk
  <2>5. Kept(disk, file, media)'
    BY <1>5, <2>3 DEF Kept
  <2> QED
    BY <1>1, <1>2, <1>5, <2>4, <2>5 DEF SlotInv, SlotTypeOK, InsertAwaits
<1> QED
  BY <1>7, <1>8

\* What a save leaves in the file is an image.
LEMMA SavedTyped ==
  ASSUME NEW d \in Disk, NEW f \in Image, NEW works
  PROVE  WriteAtomic(d, f, works) \in Image
  BY DEF WriteAtomic, Disk

\* be300_destroy saves the card, or its save fails.
LEMMA DestroyKeeps == SlotInv /\ Destroy => SlotInv'
<1> SUFFICES ASSUME SlotInv, Destroy PROVE SlotInv'
  OBVIOUS
<1>1. /\ disk \in Disk /\ file \in Image /\ media \in Image /\ Kept(disk, file, media)
  BY DEF SlotInv, SlotTypeOK
<1>2. disk' = NoDisk /\ job' = NoJob /\ UNCHANGED <<plan, now, done>>
  BY DEF Destroy
<1>3. PICK works \in BOOLEAN :
        /\ file' = WriteAtomic(disk, file, works)
        /\ media' = IF MustSave(disk) /\ ~works THEN file ELSE media
  BY DEF Destroy
<1>4. file' \in Image
  BY <1>1, <1>3, SavedTyped
<1>5. media' = file'
  BY <1>1, <1>3 DEF Kept, WriteAtomic, MustSave
<1>6. Kept(disk, file, media)' /\ InsertAwaits(disk, plan, done)'
  BY <1>2, <1>5, NoDiskRests DEF Kept, InsertAwaits
<1>7. SlotTypeOK'
  BY <1>2, <1>4, <1>5, NoDiskRests, NoJobTyped DEF SlotInv, SlotTypeOK
<1> QED
  BY <1>2, <1>6, <1>7, NoDiskRests DEF SlotInv, Transfer

\* The card windows hold nothing of the card.
LEMMA WindowsKeep == SlotInv /\ (WindowsOn \/ UNCHANGED cfVars) => SlotInv'
<1> SUFFICES ASSUME SlotInv, WindowsOn \/ UNCHANGED cfVars PROVE SlotInv'
  OBVIOUS
<1>1. UNCHANGED <<disk, file, plan, now, done, job, media>>
  BY DEF WindowsOn, cfVars
<1> QED
  BY <1>1 DEF SlotInv, SlotTypeOK, Transfer, AtRest, Underway, InStep, Kept, InsertAwaits

\* be300_cf_hotplug: any of the three events, one after the other.
LEMMA LoopKeeps == SlotInv /\ Loop => SlotInv'
<1> SUFFICES ASSUME SlotInv, Loop PROVE SlotInv'
  OBVIOUS
<1>1. /\ disk \in Disk /\ job \in Job /\ Transfer(disk, job) /\ file \in Image /\ media \in Image
      /\ Kept(disk, file, media) /\ InsertAwaits(disk, plan, done)
      /\ plan \in [eject : Nat, insert : Nat, net : Nat] /\ done \subseteq {"eject", "insert", "net"}
      /\ now \in Nat
  BY DEF SlotInv, SlotTypeOK
<1>2. plan' = plan
  BY DEF Loop
<1>3. PICK t \in now..MaxTime, works \in BOOLEAN :
        /\ now' = t /\ Becomes(HotPlugged(t, works).disk) /\ file' = HotPlugged(t, works).file
        /\ done' = HotPlugged(t, works).done
        /\ media' = IF HotPlugged(t, works).lost THEN HotPlugged(t, works).file ELSE media
  BY DEF Loop
<1>4. now' \in Nat
  BY <1>1, <1>3, SlotAssumption DEF SlotAssumption
<1> DEFINE e  == Due("eject", t, done)
           d1 == IF e THEN Ejected(disk) ELSE disk
           f1 == IF e THEN WriteAtomic(disk, file, works) ELSE file
           n1 == IF e THEN done \cup {"eject"} ELSE done
           i  == Due("insert", t, n1) /\ (plan.eject = 0 \/ "eject" \in n1)
           d2 == IF i THEN Loaded(d1, f1) ELSE d1
           n2 == IF i THEN n1 \cup {"insert"} ELSE n1
           x  == Due("net", t, n2) /\ ~Present(d2)
           m1 == IF e /\ MustSave(disk) /\ ~works THEN f1 ELSE media
<1>5. /\ disk' = (IF x THEN IoCardIn(d2) ELSE d2) /\ job' = JobAfter(disk', job)
      /\ file' = f1 /\ done' = (IF x THEN n2 \cup {"net"} ELSE n2) /\ media' = m1
  BY <1>3 DEF HotPlugged, Becomes, JobAfter
<1>6. /\ (e => /\ plan.eject > 0 /\ "eject" \notin done) 
      /\ (i => plan.insert > 0 /\ "insert" \notin n1 /\ (plan.eject = 0 \/ "eject" \in n1))
      /\ (x => ~Present(d2))
  BY DEF Due
<1>7. done' \subseteq {"eject", "insert", "net"}
  BY <1>1, <1>5
\* The ejection, with what the file and the guest's view of the card become.
<1>8. /\ d1 \in Disk /\ f1 \in Image /\ m1 \in Image /\ Kept(d1, f1, m1)
      /\ e => AtRest(d1) /\ d1.kind = "none"
      /\ ~e => d1 = disk
      /\ n1 = IF e THEN done \cup {"eject"} ELSE done
  <2>1. CASE e
    <3>1. d1 = Ejected(disk) /\ f1 = WriteAtomic(disk, file, works)
          /\ m1 = IF MustSave(disk) /\ ~works THEN f1 ELSE media
      BY <2>1
    <3>2. ~Present(disk) => AtRest(disk)
      BY <1>1 DEF Present, Transfer, Underway
    <3>3. d1 \in Disk /\ AtRest(d1) /\ d1.kind = "none"
      BY <1>1, <3>1, <3>2, EmptyRests
    <3>4. f1 \in Image
      BY <1>1, <3>1, SavedTyped
    <3>5. m1 = f1
      BY <1>1, <3>1 DEF Kept, WriteAtomic, MustSave
    <3> QED
      BY <2>1, <3>3, <3>4, <3>5 DEF Kept
  <2>2. CASE ~e
    <3>1. d1 = disk /\ f1 = file /\ m1 = media /\ n1 = done
      BY <2>2
    <3> QED
      BY <1>1, <2>2, <3>1
  <2> QED
    BY <2>1, <2>2
<1> HIDE DEF e, d1, f1, m1
\* The insertion finds an empty socket, or a network card in it.
<1>9. i => d1.kind # "ata"
  <2> SUFFICES ASSUME i, d1.kind = "ata" PROVE FALSE
    OBVIOUS
  <2>1. ~e /\ d1 = disk /\ n1 = done
    BY <1>8
  <2>2. plan.insert > 0 /\ "insert" \notin done /\ (plan.eject = 0 \/ "eject" \in done)
    BY <1>6, <2>1
  <2>3. plan.eject > 0 /\ "eject" \notin done
    BY <1>1, <2>1, <2>2 DEF InsertAwaits
  <2> QED
    BY <1>1, <2>2, <2>3
<1>10. /\ d2 \in Disk /\ Kept(d2, f1, m1)
       /\ i => AtRest(d2) /\ d2.kind = "ata"
       /\ ~i => d2 = d1
       /\ n2 = IF i THEN n1 \cup {"insert"} ELSE n1
  <2>1. CASE i
    <3>1. d2 = Loaded(d1, f1)
      BY <2>1
    <3> HIDE DEF d2
    <3>2. /\ d2 \in Disk /\ AtRest(d2) /\ d2.kind = "ata" /\ d2.image = f1 /\ d2.dirty = FALSE
      BY <1>8, <3>1, LoadedRests
    <3>3. m1 = f1
      BY <1>8, <1>9, <2>1 DEF Kept
    <3> QED
      BY <2>1, <3>2, <3>3 DEF Kept
  <2>2. CASE ~i
    <3>1. d2 = d1 /\ n2 = n1
      BY <2>2
    <3> QED
      BY <1>8, <2>2, <3>1
  <2> QED
    BY <2>1, <2>2
<1> HIDE DEF i, d2, n1, n2
<1>11. /\ disk' \in Disk /\ Kept(disk', f1, m1)
       /\ x => AtRest(disk') /\ disk'.kind = "io"
       /\ ~x => disk' = d2 /\ done' = n2
  <2>1. CASE x
    <3>1. disk' = IoCardIn(d2) /\ d2.kind = "none"
      BY <1>5, <1>6, <2>1 DEF Present
    <3>2. disk' \in Disk /\ AtRest(disk') /\ disk'.kind = "io"
      BY <1>10, <3>1, IoCardRests
    <3>3. m1 = f1
      BY <1>10, <3>1 DEF Kept
    <3> QED
      BY <2>1, <3>2, <3>3 DEF Kept
  <2>2. CASE ~x
    <3>1. disk' = d2 /\ done' = n2
      BY <1>5, <2>2
    <3> QED
      BY <1>10, <2>2, <3>1
  <2> QED
    BY <2>1, <2>2
<1> HIDE DEF x
<1>12. Kept(disk', file', media')
  BY <1>5, <1>11
<1>13. file' \in Image /\ media' \in Image
  BY <1>5, <1>8
<1>14. job' \in Job /\ Transfer(disk', job')
  <2>1. CASE AtRest(disk')
    BY <1>5, <2>1, NoJobTyped DEF AtRest, JobAfter, Transfer
  <2>2. CASE ~AtRest(disk')
    <3>1. disk' = disk
      BY <1>8, <1>10, <1>11, <2>2
    <3>2. Same(disk, disk) /\ JobAfter(disk, job) \in Job /\ Transfer(disk, JobAfter(disk, job))
      BY <1>1, BecomesGood DEF Same
    <3> QED
      BY <1>5, <3>1, <3>2
  <2> QED
    BY <2>1, <2>2
<1>15. InsertAwaits(disk', plan, done')
  <2> SUFFICES ASSUME disk'.kind = "ata", plan.insert > 0, "insert" \notin done'
               PROVE  plan.eject > 0 /\ "eject" \notin done'
    BY DEF InsertAwaits
  <2>1. disk' = d2 /\ done' = n2
    BY <1>11
  <2>2. ~i /\ d2 = d1 /\ n2 = n1
    BY <1>10, <2>1
  <2>3. ~e /\ d1 = disk /\ n1 = done
    BY <1>8, <2>1, <2>2
  <2> QED
    BY <1>1, <2>1, <2>2, <2>3 DEF InsertAwaits
<1> QED
  BY <1>1, <1>2, <1>4, <1>7, <1>11, <1>12, <1>13, <1>14, <1>15 DEF SlotInv, SlotTypeOK

--------------------------------------------------------------------------------
\* Every step of the guest and of the machine keeps the invariant.
LEMMA SlotInvNext == SlotInv /\ [CfNext]_cfVars => SlotInv'
  BY TaskfileKeeps, CommandKeeps, ReadKeeps, WriteKeeps, ControlKeeps, WindowsKeep, LoopKeeps,
     DestroyKeeps DEF CfNext

\* A transfer in step with its job moves the sectors asked for in order.
LEMMA InOrderFromInv == SlotInv => TransferInOrder
<1> SUFFICES ASSUME SlotInv PROVE TransferInOrder
  OBVIOUS
<1>1. /\ disk \in Disk /\ job \in Job /\ Transfer(disk, job)
  BY DEF SlotInv, SlotTypeOK
<1>2. CASE AtRest(disk) /\ job = NoJob
  BY <1>2, NoJobTyped DEF AtRest, TransferInOrder
<1>3. CASE Underway(disk, job)
  <2>1. disk.buf # <<>>
    BY <1>3, DiskAssumption DEF DiskAssumption, Underway
  <2>2. /\ disk.pos \in Nat /\ disk.tlba \in Nat /\ disk.trem \in Nat /\ job.n \in Nat
        /\ SectorAt(disk.tlba) \in Nat /\ SectorAt(job.lba) \in Nat /\ disk.pos < SectorWords
    BY <1>1, <2>1, UnderwayWhenOpen
  <2>3. ASSUME job.op \in {"read", "write"}
        PROVE  /\ InStep(disk, job) /\ disk.trem \in 1..Sectors - disk.tlba
    BY <1>3, <2>2, <2>3, DiskAssumption DEF DiskAssumption, Underway, InStep
  <2>4. ASSUME job.op = "read", NEW i \in disk.pos + 1 .. SectorWords
        PROVE  disk.buf[i] = disk.image[Address + i - 1 - disk.pos]
    <3>1. disk.buf = Sector(disk.image, disk.tlba) /\ SectorAt(disk.tlba) + disk.pos = SectorAt(job.lba) + job.n
      BY <1>3, <2>3, <2>4 DEF Underway, InStep
    <3>2. Address = SectorAt(disk.tlba) + disk.pos
      BY <3>1 DEF Address, SectorAt
    <3> DEFINE a == SectorAt(disk.tlba) p == disk.pos
    <3>3. a \in Nat /\ p \in Nat /\ i \in p + 1 .. SectorWords /\ SectorWords \in Nat
      BY <2>2, <2>4, DiskAssumption DEF DiskAssumption
    <3> HIDE DEF a, p
    <3>4. (a + p) + i - 1 - p = a + i - 1 /\ i \in 1..SectorWords
      BY <3>3
    <3>5. Address + i - 1 - disk.pos = SectorAt(disk.tlba) + i - 1
      BY <3>2, <3>4 DEF a, p
    <3>6. Sector(disk.image, disk.tlba)[i] = disk.image[SectorAt(disk.tlba) + i - 1]
      BY <3>4 DEF Sector, SectorAt
    <3> QED
      BY <3>1, <3>5, <3>6
  <2> QED
    BY <2>1, <2>3, <2>4 DEF TransferInOrder, Address, InStep, SectorAt
<1> QED
  BY <1>1, <1>2, <1>3 DEF Transfer

(***************************************************************************)
(* For every size of card, sector and count register, every schedule of    *)
(* ejections and insertions and every access of the guest: a transfer      *)
(* moves the sectors it was asked for in order (cf_data_read,              *)
(* cf_commit_write), and what was committed is on the card or in its file  *)
(* (cf_save_image, cf_eject, be300_cf_hotplug, be300_destroy).             *)
(***************************************************************************)
THEOREM CardKeepsData == CfSpec => [](TransferInOrder /\ CommittedIsKept)
<1>1. SlotInv => TransferInOrder /\ CommittedIsKept
  BY InOrderFromInv DEF SlotInv, Kept, CommittedIsKept
<1> QED
  BY <1>1, SlotInvInit, SlotInvNext, PTL DEF CfSpec

(***************************************************************************)
(* For every schedule of the data port's accesses, the card's other        *)
(* registers and the machine's loop: the open READ delivers the sectors it *)
(* asked for in order and the open WRITE puts its words there in order     *)
(* (cf_data_read, cf_commit_write).                                        *)
(***************************************************************************)
THEOREM TransfersInOrder == CfSpec => []TransferInOrder
<1> QED
  BY InOrderFromInv, SlotInvInit, SlotInvNext, PTL DEF CfSpec

--------------------------------------------------------------------------------

Fields == {"oob", "cells", "dirty", "alloc", "state", "page", "col", "pbuf", "plen", "stat",
           "ready", "xphase", "xbyte", "xcmd", "xaddr", "xcnt", "xdata", "xmode", "status2",
           "xbuf", "sact", "spage", "scol", "scur", "slim", "sbase", "burst", "stall", "bmode",
           "baddr", "dio", "echo", "cyc", "xlen", "xcur", "rbuf", "rbase", "rpos", "rlim"}
Chip(n) == DOMAIN n = Fields

\* What only an erase or a program changes.
Held(n, m) == /\ Chip(m)
              /\ m.oob = n.oob /\ m.cells = n.cells /\ m.dirty = n.dirty /\ m.alloc = n.alloc

Confirms == {"PAGEPROG", "ERASE2"}
Confirming(n, a) ==
    \/ a[2] = "XferAck" /\ n.xphase = 3 /\ n.xbyte \in Confirms
    \/ a[2] = "Dio" /\ a[1] # "R" /\ n.dio = "cle" /\ a[3] \in Confirms
    \/ a[2] = "Command" /\ a[3] \in Confirms

\* Opening a command sets the chip's state and touches no cell.
LEMMA OpenedKeeps ==
    ASSUME NEW n, Chip(n), NEW cmd \in DOMAIN Opens
    PROVE  Held(n, Opened(n, cmd)) /\ Opened(n, cmd).state = Opens[cmd]
<1> DEFINE o == [n EXCEPT !.state = Opens[cmd],
                   !.col = IF cmd \in {"READ0", "SEQIN"} THEN 0 ELSE IF cmd = "READ1" THEN 1 ELSE @]
<1>1. Held(n, o) /\ o.state = Opens[cmd]
  BY DEF Held, Chip, Fields
<1> HIDE DEF o
<1>2. Opened(n, cmd) = IF cmd = "SEQIN" THEN [o EXCEPT !.pbuf = ErasedPage, !.plen = 0] ELSE o
  BY DEF Opened, o
<1> QED
  BY <1>1, <1>2 DEF Held, Chip, Fields

\* A command from the transfer engine that confirms nothing touches no cell.
LEMMA XferCommandKeeps ==
    ASSUME NEW n, Chip(n), NEW cmd, cmd \notin Confirms
    PROVE  Held(n, XferCommand(n, cmd))
<1> DEFINE t == [n EXCEPT !.xcmd = cmd]
           clear == [t EXCEPT !.xdata = <<>>]
           fresh == [clear EXCEPT !.xcnt = 0, !.xaddr = NoAddr]
           none == <<>>
<1>1. Held(n, t)
  BY DEF Held, Chip, Fields
<1>2. Held(n, clear)
  <2> HIDE DEF t, none
  <2>1. Held(n, [t EXCEPT !.xdata = none])
    BY <1>1 DEF Held, Chip, Fields
  <2> QED BY <2>1 DEF none
<1>3. Held(n, fresh)
  <2> HIDE DEF clear
  <2> QED BY <1>2 DEF Held, Chip, Fields
<1> HIDE DEF t, clear, fresh
<1>4. CASE cmd = "STATUS"
  <2> DEFINE u == Opened(t, cmd)
             b == u.stat
  <2>1. Held(n, u)
    BY <1>1, <1>4, OpenedKeeps DEF Held, Opens
  <2>2. XferCommand(n, cmd) = [u EXCEPT !.ready = TRUE, !.xdata = <<b>>]
    BY <1>4 DEF XferCommand, t
  <2> HIDE DEF u
  <2> QED
    BY <2>1, <2>2 DEF Held, Chip, Fields
<1>5. CASE cmd \in (DOMAIN Opens) \ {"STATUS"}
  <2> DEFINE u == Opened(fresh, cmd)
  <2>1. Held(n, u)
    BY <1>3, <1>5, OpenedKeeps DEF Held
  <2>2. XferCommand(n, cmd) = u \/ XferCommand(n, cmd) = [u EXCEPT !.ready = TRUE]
    BY <1>5 DEF XferCommand, t, clear, fresh, Opens
  <2> HIDE DEF u
  <2> QED
    BY <2>1, <2>2 DEF Held, Chip, Fields
<1>6. CASE cmd \notin DOMAIN Opens
  <2>1. \/ XferCommand(n, cmd) = [clear EXCEPT !.state = "idle", !.ready = TRUE, !.stat = Good]
        \/ XferCommand(n, cmd) = [clear EXCEPT !.ready = TRUE]
    BY <1>6 DEF XferCommand, t, clear, Opens, Confirms
  <2> QED
    BY <1>2, <2>1, ZenonT(120) DEF Held, Chip, Fields
<1> QED
  BY <1>4, <1>5, <1>6

\* Nor does the acknowledge, unless a confirming command waits in the engine.
LEMMA XferAckKeeps ==
    ASSUME NEW n, Chip(n), ~(n.xphase = 3 /\ n.xbyte \in Confirms)
    PROVE  Held(n, XferAck(n))
<1>1. CASE n.xphase = 3
  BY <1>1, XferCommandKeeps DEF XferAck
<1>2. CASE n.xphase = 6
  <2> DEFINE r == [n EXCEPT !.ready = TRUE]
             one == <<n.stat>>
             two == <<Maker, Maker>>
  <2>1. Held(n, r)
    BY DEF Held, Chip, Fields
  <2>2. XferAck(n) = IF n.xcmd = "READID" THEN [r EXCEPT !.xdata = two]
              ELSE IF n.xcmd = "STATUS" THEN [r EXCEPT !.xdata = one]
              ELSE IF n.xcmd \in Addressed
                   THEN [r EXCEPT !.page = n.xaddr[2], !.col = n.xaddr[1]]
              ELSE IF n.xcmd = "ERASE1" THEN [r EXCEPT !.page = EraseStart(n)] ELSE r
    BY <1>2 DEF XferAck
  <2> HIDE DEF r, one, two
  <2> QED
    BY <2>1, <2>2 DEF Held, Chip, Fields
<1>3. CASE n.xphase \notin {3, 6}
  BY <1>3 DEF XferAck, Held
<1> QED
  BY <1>1, <1>2, <1>3

\* Taking an address from the engine's latch.
LEMMA LatchKeeps ==
    ASSUME NEW n, Chip(n) PROVE Held(n, LatchAddr(n))
BY DEF LatchAddr, Held, Chip, Fields

\* An address byte of the transfer engine.
LEMMA XferAddrKeeps ==
    ASSUME NEW n, Chip(n), NEW v PROVE Held(n, XferAddr(n, v))
<1> DEFINE m == [n EXCEPT !.xcnt = IF @ < 3 THEN @ + 1 ELSE 3,
           !.xaddr = IF n.xcnt < 3 THEN [@ EXCEPT ![n.xcnt + 1] = v]
                     ELSE [i \in 1..3 |-> IF i = 3 THEN v ELSE @[i + 1]]]
<1>1. Held(n, m)
  BY DEF Held, Chip, Fields
<1>2. XferAddr(n, v) = IF n.xphase # 6 THEN [n EXCEPT !.xbyte = v] ELSE LatchAddr(m)
  BY DEF XferAddr
<1> HIDE DEF m
<1> QED
  BY <1>1, <1>2, LatchKeeps DEF Held, Chip, Fields

\* Opening the stream for reading.
LEMMA StreamAtKeeps ==
    ASSUME NEW n, Chip(n), NEW limit PROVE Held(n, StreamAt(n, limit))
BY DEF StreamAt, Held, Chip, Fields

\* Opening the window that a stream fills.
LEMMA WindowKeeps ==
    ASSUME NEW n, Chip(n), NEW base, NEW limit PROVE Held(n, WriteWindow(n, base, limit))
BY DEF WriteWindow, Held, Chip, Fields

\* The transfer engine's mode register.
LEMMA ModeKeeps ==
    ASSUME NEW n, Chip(n), NEW mode PROVE Held(n, XferMode(n, mode))
<1> DEFINE m == [n EXCEPT !.xmode = mode, !.ready = TRUE, !.burst = @ \/ mode = 1]
           w == WriteWindow(m, 0, 0)
           none == <<{}, {}>>
<1>1. Held(n, m)
  BY DEF Held, Chip, Fields
<1> HIDE DEF m
<1>2. CASE mode \in {0, 1}
  <2>1. XferMode(n, mode) = [w EXCEPT !.xbuf = none, !.status2 = FALSE]
    BY <1>2 DEF XferMode, m
  <2>2. Held(n, w)
    BY <1>1, WindowKeeps DEF Held
  <2> HIDE DEF w, none
  <2> QED
    BY <2>1, <2>2 DEF Held, Chip, Fields
<1>3. CASE mode = 4
  <2> DEFINE o == IF ~m.sact /\ m.xcnt >= 3 THEN StreamAt(m, m.slim) ELSE m
             buf == [i \in 1..2 |-> StreamCell(o, o.scur + i - 1)]
             lim == PageCells - o.scol
  <2>1. Held(n, o)
    BY <1>1, StreamAtKeeps DEF Held
  <2>2. XferMode(n, mode) = ResultMode(m)
    BY <1>3 DEF XferMode, m
  <2>3. ResultMode(m) = IF ~o.sact THEN [o EXCEPT !.xbuf = none]
                        ELSE [o EXCEPT !.slim = lim, !.xbuf = buf]
    BY DEF ResultMode
  <2> HIDE DEF o, buf, lim, none
  <2> QED
    BY <2>1, <2>2, <2>3 DEF Held, Chip, Fields
<1>4. CASE mode = 5
  <2>1. PICK limit : XferMode(n, mode) = StreamAt(m, limit)
    BY <1>4 DEF XferMode, m
  <2> QED
    BY <1>1, <2>1, StreamAtKeeps DEF Held
<1>5. CASE mode = 6
  <2>1. XferMode(n, mode) = WriteWindow(m, BurstCells, 1)
    BY <1>5 DEF XferMode, m
  <2> QED
    BY <1>1, <2>1, WindowKeeps DEF Held
<1>6. CASE mode = 7
  <2>1. XferMode(n, mode) = WriteWindow(LatchAddr(m), 0, BurstCells)
    BY <1>6 DEF XferMode, m
  <2> QED
    BY <1>1, <2>1, WindowKeeps, LatchKeeps DEF Held
<1>7. CASE mode \notin {0, 1, 4, 5, 6, 7}
  BY <1>1, <1>7 DEF XferMode, m
<1> QED
  BY <1>2, <1>3, <1>4, <1>5, <1>6, <1>7

\* The data registers of the transfer engine and of its DMA.
LEMMA StreamKeeps ==
    ASSUME NEW n, Chip(n), NEW v
    PROVE  /\ Held(n, StreamRead(n)) /\ Held(n, StreamWrite(n, v)) /\ Held(n, DmaRead(n, v))
           /\ Held(n, XferData(n)) /\ Held(n, XferEcc(n, v)) /\ Held(n, DmaStateWritten(n))
<1>1. Held(n, StreamRead(n))
  BY DEF StreamRead, Held, Chip, Fields
<1>2. Held(n, StreamWrite(n, v))
  <2> DEFINE i == n.sbase + n.scur
             b == [n.pbuf EXCEPT ![i] = v]
             l == IF i + 1 > n.plen THEN i + 1 ELSE n.plen
  <2>1. StreamWrite(n, v) = n \/ StreamWrite(n, v) = [n EXCEPT !.pbuf = b, !.plen = l, !.scur = @ + 1]
    BY DEF StreamWrite
  <2> HIDE DEF i, b, l
  <2> QED
    BY <2>1, ZenonT(60) DEF Held, Chip, Fields
<1>3. Held(n, DmaRead(n, v)) /\ Held(n, DmaStateWritten(n))
  BY DEF DmaRead, DmaStateWritten, Held, Chip, Fields
<1>4. Held(n, XferData(n))
  <2> DEFINE t == IF n.xdata = <<>> THEN n.xdata ELSE Tail(n.xdata)
  <2>1. XferData(n) = [n EXCEPT !.xdata = t]
    BY DEF XferData
  <2> HIDE DEF t
  <2> QED
    BY <2>1 DEF Held, Chip, Fields
<1>5. Held(n, XferEcc(n, v))
  <2> DEFINE t == n.oob /\ n.spage \in Pages /\ v # Parity(n, n.spage)
  <2>1. XferEcc(n, v) = n \/ XferEcc(n, v) = [n EXCEPT !.ready = TRUE, !.status2 = t]
    BY DEF XferEcc
  <2> HIDE DEF t
  <2> QED
    BY <2>1, ZenonT(60) DEF Held, Chip, Fields
<1> QED
  BY <1>1, <1>2, <1>3, <1>4, <1>5

\* The registers of the boot-time reader.
LEMMA BootKeeps ==
    ASSUME NEW n, Chip(n), NEW v
    PROVE  /\ Held(n, BootReset(n)) /\ Held(n, BootCmd(n, v))
           /\ Held(n, BootAddr(n, v)) /\ Held(n, BootMode(n, v))
<1> DEFINE none == <<>>
<1>1. Held(n, BootReset(n))
  <2>1. BootReset(n) = [n EXCEPT !.bmode = 0, !.baddr = none, !.sact = FALSE, !.slim = 0]
    BY DEF BootReset
  <2> HIDE DEF none
  <2> QED
    BY <2>1 DEF Held, Chip, Fields
<1>2. Held(n, BootCmd(n, v))
  <2>1. BootCmd(n, v) = IF v \in {3, 6} THEN [n EXCEPT !.baddr = none]
                        ELSE IF v = 0 THEN BootReset(n) ELSE n
    BY DEF BootCmd
  <2> HIDE DEF none
  <2> QED
    BY <1>1, <2>1 DEF Held, Chip, Fields
<1>3. Held(n, BootAddr(n, v))
  <2> DEFINE b == IF Len(n.baddr) < 3 THEN Append(n.baddr, v) ELSE Append(Tail(n.baddr), v)
  <2>1. BootAddr(n, v) = [n EXCEPT !.baddr = b]
    BY DEF BootAddr
  <2> HIDE DEF b
  <2> QED
    BY <2>1 DEF Held, Chip, Fields
<1>4. Held(n, BootMode(n, v))
  BY DEF BootMode, Held, Chip, Fields
<1> QED
  BY <1>1, <1>2, <1>3, <1>4

\* Setting up the transfer that a boot-time address asks for.
LEMMA SetupKeeps ==
    ASSUME NEW n, Chip(n) PROVE Held(n, SetupTransfer(n))
<1> DEFINE l == CASE n.state = "data" -> IF n.col < DataCells THEN DataCells - n.col ELSE 0
                  [] n.state = "oob"  -> PageCells - DataCells
                  [] n.state = "id"   -> 2
                  [] OTHER            -> 0
<1>1. SetupTransfer(n) = [n EXCEPT !.xcur = 0, !.xlen = l]
  BY DEF SetupTransfer
<1> HIDE DEF l
<1> QED
  BY <1>1 DEF Held, Chip, Fields

\* A command at the legacy port that confirms nothing.
LEMMA LegacyCommandKeeps ==
    ASSUME NEW n, Chip(n), NEW cmd, cmd \notin Confirms PROVE Held(n, LegacyCommand(n, cmd))
<1> DEFINE t == [n EXCEPT !.cyc = 0, !.xcur = 0, !.ready = FALSE]
<1>1. Held(n, t)
  BY DEF Held, Chip, Fields
<1>2. CASE cmd \in DOMAIN Opens
  <2> DEFINE u == Opened(t, cmd)
             v == SetupTransfer(u)
  <2>1. Held(n, u)
    BY <1>1, <1>2, OpenedKeeps DEF Held
  <2>2. Held(n, v)
    <3> HIDE DEF u
    <3> QED BY <2>1, SetupKeeps DEF Held
  <2>3. \/ LegacyCommand(n, cmd) = [v EXCEPT !.ready = TRUE]
        \/ LegacyCommand(n, cmd) = [u EXCEPT !.ready = TRUE]
        \/ LegacyCommand(n, cmd) = u
    BY <1>2 DEF LegacyCommand, Opens
  <2> HIDE DEF u, v
  <2> QED
    BY <2>1, <2>2, <2>3 DEF Held, Chip, Fields
<1>3. CASE cmd \notin DOMAIN Opens
  <2>1. LegacyCommand(n, cmd) = [t EXCEPT !.state = "idle", !.ready = TRUE]
    BY <1>3 DEF LegacyCommand, Opens, Confirms
  <2> HIDE DEF t
  <2> QED
    BY <1>1, <2>1 DEF Held, Chip, Fields
<1> QED
  BY <1>2, <1>3

\* An address cycle at the legacy port.
LEMMA LegacyAddressKeeps ==
    ASSUME NEW n, Chip(n), NEW v PROVE Held(n, LegacyAddress(n, v))
<1> DEFINE a == [n EXCEPT !.cyc = @ + 1,
                !.col  = IF n.cyc = 0 /\ n.state = "data" THEN (IF @ >= 1 THEN 1 ELSE 0) + v ELSE @,
                !.page = IF n.cyc = 1 THEN v ELSE @]
           u == SetupTransfer(a)
<1>1. Held(n, a)
  BY DEF Held, Chip, Fields
<1>2. LegacyAddress(n, v) = IF ReadIsSetUp(a) THEN [u EXCEPT !.ready = TRUE] ELSE a
  BY DEF LegacyAddress
<1>3. Held(n, u)
  <2> HIDE DEF a
  <2> QED BY <1>1, SetupKeeps DEF Held
<1> HIDE DEF a, u
<1> QED
  BY <1>1, <1>2, <1>3 DEF Held, Chip, Fields

\* A byte appended to the program buffer changes the buffer alone.
LEMMA AppendKeeps ==
    ASSUME NEW n, Chip(n), NEW v PROVE Held(n, ProgramAppend(n, v))
<1> DEFINE b == [n.pbuf EXCEPT ![n.plen] = v]
<1>1. ProgramAppend(n, v) = n \/ ProgramAppend(n, v) = [n EXCEPT !.pbuf = b, !.plen = @ + 1]
  BY DEF ProgramAppend
<1> HIDE DEF b
<1> QED
  BY <1>1, ZenonT(60) DEF Held, Chip, Fields

\* The direct I/O register, unless its command line carries a confirming byte.
LEMMA DioKeeps ==
    ASSUME NEW n, Chip(n), NEW v, ~(n.dio = "cle" /\ v \in Confirms)
    PROVE  Held(n, DioWrite(n, v)) /\ Held(n, DioRead(n))
<1>1. ASSUME NEW m, Held(n, m), NEW e PROVE Held(n, [m EXCEPT !.echo = e])
  BY <1>1 DEF Held, Chip, Fields
<1>2. CASE n.dio = "cle"
  <2> DEFINE m == LegacyCommand(n, v)
             e == v # "READ0"
  <2>1. DioWrite(n, v) = [m EXCEPT !.echo = e]
    BY <1>2 DEF DioWrite, DioCommand
  <2>2. Held(n, m)
    BY <1>2, LegacyCommandKeeps
  <2> HIDE DEF m, e
  <2> QED
    BY <1>1, <2>1, <2>2 DEF DioRead, Held, Chip, Fields
<1>3. CASE n.dio = "ale"
  <2> DEFINE m == LegacyAddress(n, v)
             e == v # 0 /\ ~ReadIsSetUp(m)
  <2>1. DioWrite(n, v) = [m EXCEPT !.echo = e]
    BY <1>3 DEF DioWrite, DioAddress
  <2>2. Held(n, m)
    BY LegacyAddressKeeps
  <2> HIDE DEF m, e
  <2> QED
    BY <1>1, <2>1, <2>2 DEF DioRead, Held, Chip, Fields
<1>4. CASE n.dio \notin {"cle", "ale"}
  <2> DEFINE m == IF n.state = "program" THEN ProgramAppend(n, v) ELSE n
             e == v # {}
  <2>1. DioWrite(n, v) = [m EXCEPT !.echo = e]
    BY <1>4 DEF DioWrite, DioData
  <2>2. Held(n, m)
    BY AppendKeeps DEF Held
  <2> HIDE DEF m, e
  <2> QED
    BY <1>1, <2>1, <2>2 DEF DioRead, Held, Chip, Fields
<1> QED
  BY <1>2, <1>3, <1>4

\* The restore window.
LEMMA RestoreKeeps ==
    ASSUME NEW n, Chip(n), NEW v
    PROVE  Held(n, RestoreMode(n, v)) /\ Held(n, RestoreRead(n)) /\ Held(n, RestoreWrite(n, v))
<1>1. Held(n, RestoreMode(n, v))
  <2> DEFINE m == [n EXCEPT !.rpos = 0]
             b2 == [c \in DOMAIN m.rbuf |-> Cell(n, 0, c)]
             w(b, l) == [m EXCEPT !.rbase = b, !.rlim = l]
  <2>1. Held(n, m)
    BY DEF Held, Chip, Fields
  <2>2. \/ RestoreMode(n, v) = [m EXCEPT !.rbuf = b2, !.rbase = 0, !.rlim = BurstCells]
        \/ RestoreMode(n, v) = w(BurstCells, 1)
        \/ RestoreMode(n, v) = w(DataCells, PageCells - DataCells)
        \/ RestoreMode(n, v) = w(0, DataCells)
        \/ RestoreMode(n, v) = m
    BY DEF RestoreMode
  <2>3. \A b, l : Held(n, w(b, l))
    <3> HIDE DEF m
    <3> QED BY <2>1 DEF Held, Chip, Fields
  <2>4. Held(n, [m EXCEPT !.rbuf = b2, !.rbase = 0, !.rlim = BurstCells])
    <3> HIDE DEF m, b2
    <3> QED BY <2>1 DEF Held, Chip, Fields
  <2> HIDE DEF m, b2, w
  <2> QED
    BY <2>1, <2>2, <2>3, <2>4
<1>2. Held(n, RestoreRead(n))
  BY DEF RestoreRead, Held, Chip, Fields
<1>3. Held(n, RestoreWrite(n, v))
  <2> DEFINE b == [n.rbuf EXCEPT ![n.rbase + n.rpos] = v]
             m == [n EXCEPT !.rbuf = b, !.rpos = @ + 1]
  <2>1. RestoreWrite(n, v) = n \/ RestoreWrite(n, v) = m
    BY DEF RestoreWrite
  <2>2. Held(n, m)
    <3> HIDE DEF b
    <3> QED BY DEF Held, Chip, Fields
  <2> HIDE DEF m
  <2> QED
    BY <2>1, <2>2 DEF Held
<1> QED
  BY <1>1, <1>2, <1>3

\* Of all accesses only a confirming one changes what the chip stores.
LEMMA AccessKeeps ==
    ASSUME NEW n, Chip(n), NEW a, ~Confirming(n, a) PROVE Held(n, Access(n, a))
<1> DEFINE v == a[3]
           Others == {"XferCmd", "XferAddr", "XferAck", "XferKick", "XferMode", "XferEcc", "Stream",
                      "BootCtrl", "BootCmd", "BootAddr", "BootMode", "DioCtrl", "Dio", "Command",
                      "Address", "Data", "DmaState", "Dma", "RestoreMode", "Window"}
<1>0. Held(n, n)
  BY DEF Held
<1>1. CASE a[2] \in {"XferCmd", "XferAddr", "XferAck", "XferKick", "XferMode", "XferEcc"}
  <2>1. Held(n, XferCmd(n, v)) /\ Held(n, [n EXCEPT !.ready = FALSE])
    BY DEF XferCmd, Held, Chip, Fields
  <2>2. /\ Held(n, XferData(n)) /\ Held(n, XferAddr(n, v)) /\ Held(n, XferMode(n, v))
        /\ Held(n, XferEcc(n, v))
    BY XferAddrKeeps, ModeKeeps, StreamKeeps
  <2>3. a[2] = "XferAck" => Held(n, XferAck(n))
    BY XferAckKeeps DEF Confirming
  <2> QED
    BY <1>1, <2>1, <2>2, <2>3 DEF Access
<1>2. CASE a[2] \in {"Stream", "DmaState", "Dma", "BootCtrl", "BootCmd", "BootAddr", "BootMode"}
  <2>1. /\ Held(n, StreamRead(n)) /\ Held(n, StreamWrite(n, v)) /\ Held(n, DmaRead(n, v))
        /\ Held(n, DmaStateWritten(n))
    BY StreamKeeps
  <2>2. /\ Held(n, BootReset(n)) /\ Held(n, BootCmd(n, v))
        /\ Held(n, BootAddr(n, v)) /\ Held(n, BootMode(n, v))
    BY BootKeeps
  <2> QED
    BY <1>0, <1>2, <2>1, <2>2 DEF Access
<1>3. CASE a[2] \in {"DioCtrl", "Command", "Address", "Data", "RestoreMode", "Window"}
  <2>1. Held(n, [n EXCEPT !.dio = v])
    BY DEF Held, Chip, Fields
  <2>2. a[2] = "Command" => Held(n, LegacyCommand(n, v))
    BY LegacyCommandKeeps DEF Confirming
  <2>3. Held(n, LegacyAddress(n, v)) /\ Held(n, ProgramAppend(n, v))
    BY LegacyAddressKeeps, AppendKeeps
  <2>4. Held(n, RestoreMode(n, v)) /\ Held(n, RestoreRead(n)) /\ Held(n, RestoreWrite(n, v))
    BY RestoreKeeps
  <2> QED
    BY <1>0, <1>3, <2>1, <2>2, <2>3, <2>4 DEF Access
<1>4. CASE a[2] = "Dio"
  <2>1. Held(n, DioRead(n))
    BY DEF DioRead, Held, Chip, Fields
  <2>2. a[1] # "R" => Held(n, DioWrite(n, v))
    BY <1>4, DioKeeps DEF Confirming
  <2> QED
    BY <1>4, <2>1, <2>2 DEF Access
<1>5. CASE a[2] \notin Others
  BY <1>0, <1>5 DEF Access
<1> QED
  BY <1>1, <1>2, <1>3, <1>4, <1>5

--------------------------------------------------------------------------------
(* What a confirming access does.                                          *)

Padded(data) == [c \in 0..PageCells - 1 |-> IF c < Len(data) THEN data[c + 1] ELSE Bits]
DataType(data) == Len(data) \in 0..PageCells /\ data \in [1..Len(data) -> SUBSET Bits]

\* The buffer holds the words of data.
Buffered(n, data, k) == /\ n.plen = k /\ DOMAIN n.pbuf = 0..PageCells - 1
                        /\ \A c \in 0..k - 1 : n.pbuf[c] = data[c + 1]

\* The chip m after the confirming access of n has cells, and knows of the change.
Carries(n, m, cells, refused) ==
    /\ Chip(m) /\ m.oob = n.oob /\ m.cells = IF refused THEN n.cells ELSE cells
    /\ m.cells \in Flash
    /\ m.dirty \in BOOLEAN
    /\ m.dirty \/ (m.cells = n.cells /\ m.dirty = n.dirty)
    /\ m.stat = IF refused THEN Refused ELSE Good

\* A program leaves typed cells, and one of no byte leaves every cell as it
\* was.
LEMMA ProgramTyped ==
    ASSUME NEW cells \in Flash, NEW p \in Pages, NEW words, NEW len \in Nat, NEW oob
    PROVE  /\ ProgramPage(cells, p, words, len, oob) \in Flash
           /\ len = 0 => ProgramPage(cells, p, words, len, oob) = cells
<1> DEFINE old == cells[p]
           new == [c \in DOMAIN old |-> IF c < len /\ (oob \/ c < DataCells)
                                        THEN old[c] \cap words[c] ELSE old[c]]
           res == [cells EXCEPT ![p] = new]
<1>1. old \in [0..PageCells - 1 -> SUBSET Bits]
  BY DEF Flash
<1>2. new \in [0..PageCells - 1 -> SUBSET Bits]
  <2> HIDE DEF old
  <2> QED BY <1>1
<1>3. len = 0 => new = old
  <2> HIDE DEF old
  <2>1. \A c \in 0..PageCells - 1 : ~(c < 0)
    BY DEF PageCells
  <2> QED BY <1>1, <2>1
<1>4. ProgramPage(cells, p, words, len, oob) = res
  BY DEF ProgramPage
<1> HIDE DEF new
<1>5. res \in Flash /\ (new = old => res = cells)
  BY <1>1, <1>2 DEF Flash
<1> QED
  BY <1>3, <1>4, <1>5

\* What a program does depends only on the bytes it was given.
LEMMA ProgramSame ==
    ASSUME NEW cells \in Flash, NEW p \in Pages, NEW len \in Nat, NEW oob, NEW v, NEW w,
           \A c \in 0..len - 1 : v[c] = w[c]
    PROVE  ProgramPage(cells, p, v, len, oob) = ProgramPage(cells, p, w, len, oob)
<1> DEFINE old == cells[p]
           new(words) == [c \in DOMAIN old |-> IF c < len /\ (oob \/ c < DataCells)
                                               THEN old[c] \cap words[c] ELSE old[c]]
<1>1. DOMAIN old = 0..PageCells - 1
  BY DEF Flash
<1>2. \A c \in DOMAIN old : c < len => v[c] = w[c]
  BY <1>1 DEF PageCells
<1> HIDE DEF old
<1>3. new(v) = new(w)
  BY <1>2
<1>4. \A words : ProgramPage(cells, p, words, len, oob) = [cells EXCEPT ![p] = new(words)]
  BY DEF ProgramPage, old
<1> HIDE DEF new
<1> QED
  BY <1>3, <1>4

\* An erase leaves typed cells.
LEMMA EraseTyped ==
    ASSUME NEW cells \in Flash, NEW b PROVE ErasePages(cells, b) \in Flash
<1>1. ErasedPage \in [0..PageCells - 1 -> SUBSET Bits]
  BY DEF ErasedPage
<1> QED
  BY <1>1 DEF ErasePages, Flash

\* A confirmed program changes the page as the given bytes say, unless the
\* block is bad (nand_commit_program).
LEMMA ProgramConfirmed ==
    ASSUME NEW n, Chip(n), n.cells \in Flash, NEW p \in Pages, n.page = p, n.state = "program",
           n.dirty \in BOOLEAN, n.oob \in BOOLEAN,
           NEW data, DataType(data), Buffered(n, data, Len(data)),
           NEW refused \in BOOLEAN, refused = (n.oob /\ Bad(n.cells, Block(p)))
    PROVE  Carries(n, Confirmed(n, "PAGEPROG"),
                   ProgramPage(n.cells, p, Padded(data), Len(data), n.oob), refused)
<1> DEFINE g == [n EXCEPT !.stat = Good]
           c == CommitProgram(g)
           m == Confirmed(n, "PAGEPROG")
           cells == ProgramPage(n.cells, p, Padded(data), Len(data), n.oob)
<1>0. Len(data) \in Nat
  BY DEF DataType, PageCells
<1>1. /\ Chip(g) /\ g.stat = Good /\ g.cells = n.cells /\ g.page = p /\ g.oob = n.oob
      /\ g.dirty = n.dirty /\ g.pbuf = n.pbuf /\ g.plen = Len(data)
  BY DEF Chip, Fields, Buffered
<1>2. m = [c EXCEPT !.state = "idle", !.ready = TRUE]
  BY DEF Confirmed
<1> HIDE DEF g
<1>3. Usable(g, p) <=> ~refused
  BY <1>1 DEF Usable
<1>4. ProgramPage(n.cells, p, n.pbuf, Len(data), n.oob) = cells
  <2>1. \A k \in 0..Len(data) - 1 : n.pbuf[k] = Padded(data)[k]
    BY DEF Buffered, Padded, DataType, PageCells
  <2> HIDE DEF cells
  <2> QED BY <1>0, <2>1, ProgramSame DEF cells
<1>5. CASE refused
  <2>1. c = [g EXCEPT !.stat = Refused]
    BY <1>1, <1>3, <1>5 DEF CommitProgram
  <2>2. /\ Chip(c) /\ c.cells = n.cells /\ c.oob = n.oob /\ c.dirty = n.dirty /\ c.stat = Refused
    BY <1>1, <2>1 DEF Chip, Fields
  <2> HIDE DEF c, m
  <2>3. /\ Chip(m) /\ m.cells = n.cells /\ m.oob = n.oob /\ m.dirty = n.dirty /\ m.stat = Refused
    BY <1>2, <2>2 DEF Chip, Fields
  <2> HIDE DEF cells
  <2>9. Carries(n, m, cells, refused)
    BY <1>5, <2>3 DEF Carries
  <2> QED
    BY <2>9 DEF m, cells
<1>6. CASE ~refused
  <2> DEFINE al == [g.alloc EXCEPT ![Block(p)] = @ \/ g.plen > 0]
             di == g.dirty \/ g.plen > 0
  <2>0. c = [g EXCEPT !.cells = ProgramPage(@, g.page, g.pbuf, g.plen, g.oob),
                      !.dirty = @ \/ g.plen > 0, !.alloc[Block(g.page)] = @ \/ g.plen > 0]
    BY <1>1, <1>3, <1>6 DEF CommitProgram
  <2>1. c = [g EXCEPT !.cells = cells, !.dirty = di, !.alloc = al]
    <3>1. ProgramPage(g.cells, g.page, g.pbuf, g.plen, g.oob) = cells
      BY <1>1, <1>4
    <3> HIDE DEF cells
    <3> QED
      BY <1>1, <2>0, <3>1
  <2> HIDE DEF al, cells, di
  <2>2. Chip(c) /\ c.cells = cells /\ c.oob = n.oob /\ c.dirty = di /\ c.stat = Good
    BY <1>1, <2>1 DEF Chip, Fields
  <2> HIDE DEF c, m
  <2>3. Chip(m) /\ m.cells = cells /\ m.oob = n.oob /\ m.dirty = di /\ m.stat = Good
    BY <1>2, <2>2 DEF Chip, Fields
  <2>4. cells \in Flash /\ (Len(data) = 0 => cells = n.cells)
    BY <1>0, ProgramTyped DEF cells
  <2>5. di = (n.dirty \/ Len(data) > 0) /\ (Len(data) > 0 \/ Len(data) = 0) /\ di \in BOOLEAN
    BY <1>0, <1>1 DEF di
  <2>9. Carries(n, m, cells, refused)
    BY <1>6, <2>3, <2>4, <2>5 DEF Carries
  <2> QED
    BY <2>9 DEF m, cells
<1> QED
  BY <1>5, <1>6

\* A confirmed erase clears the block of the page, unless the block is bad
\* (nand_commit_erase).
LEMMA EraseConfirmed ==
    ASSUME NEW n, Chip(n), n.cells \in Flash, NEW p \in Pages, n.page = p, n.state = "erase",
           n.dirty \in BOOLEAN, NEW refused \in BOOLEAN, refused = (n.oob /\ Bad(n.cells, Block(p)))
    PROVE  Carries(n, Confirmed(n, "ERASE2"), ErasePages(n.cells, Block(p)), refused)
<1> DEFINE g == [n EXCEPT !.stat = Good]
           c == CommitErase(g)
           m == Confirmed(n, "ERASE2")
           cells == ErasePages(n.cells, Block(p))
<1>1. /\ Chip(g) /\ g.stat = Good /\ g.cells = n.cells /\ g.page = p /\ g.oob = n.oob
      /\ g.dirty = n.dirty
  BY DEF Chip, Fields
<1>2. m = [c EXCEPT !.state = "idle", !.ready = TRUE]
  BY DEF Confirmed
<1> HIDE DEF g
<1>3. Usable(g, p) <=> ~refused
  BY <1>1 DEF Usable
<1>5. CASE refused
  <2>1. c = [g EXCEPT !.stat = Refused]
    BY <1>1, <1>3, <1>5 DEF CommitErase
  <2>2. /\ Chip(c) /\ c.cells = n.cells /\ c.oob = n.oob /\ c.dirty = n.dirty /\ c.stat = Refused
    BY <1>1, <2>1 DEF Chip, Fields
  <2> HIDE DEF c, m
  <2>3. /\ Chip(m) /\ m.cells = n.cells /\ m.oob = n.oob /\ m.dirty = n.dirty /\ m.stat = Refused
    BY <1>2, <2>2 DEF Chip, Fields
  <2> HIDE DEF cells
  <2>9. Carries(n, m, cells, refused)
    BY <1>5, <2>3 DEF Carries
  <2> QED
    BY <2>9 DEF m, cells
<1>6. CASE ~refused
  <2> DEFINE al == [g.alloc EXCEPT ![Block(p)] = FALSE]
  <2>0. c = [g EXCEPT !.cells = ErasePages(@, Block(g.page)), !.dirty = TRUE,
                      !.alloc[Block(g.page)] = FALSE]
    BY <1>1, <1>3, <1>6 DEF CommitErase
  <2>1. c = [g EXCEPT !.cells = cells, !.dirty = TRUE, !.alloc = al]
    BY <1>1, <2>0
  <2>4. cells \in Flash
    BY EraseTyped
  <2> HIDE DEF al, cells
  <2>2. Chip(c) /\ c.cells = cells /\ c.oob = n.oob /\ c.dirty = TRUE /\ c.stat = Good
    BY <1>1, <2>1 DEF Chip, Fields
  <2> HIDE DEF c, m
  <2>3. Chip(m) /\ m.cells = cells /\ m.oob = n.oob /\ m.dirty = TRUE /\ m.stat = Good
    BY <1>2, <2>2 DEF Chip, Fields
  <2>9. Carries(n, m, cells, refused)
    BY <1>6, <2>3, <2>4 DEF Carries
  <2> QED
    BY <2>9 DEF m, cells
<1> QED
  BY <1>5, <1>6

--------------------------------------------------------------------------------
(* The accesses by name.                                                   *)

\* What each register of the chip does with what is read or written there.
LEMMA AccessIs ==
    /\ \A n, v : Access(n, W("XferCmd", v)) = XferCmd(n, v)
    /\ \A n, v : Access(n, W("XferAddr", v)) = XferAddr(n, v)
    /\ \A n : Access(n, R("XferAddr")) = XferData(n)
    /\ \A n, v : Access(n, W("XferAck", v)) = XferAck(n)
    /\ \A n, v : Access(n, W("XferKick", v)) = [n EXCEPT !.ready = FALSE]
    /\ \A n, v : Access(n, W("XferMode", v)) = XferMode(n, v)
    /\ \A n, v : Access(n, W("XferEcc", v)) = XferEcc(n, v)
    /\ \A n, v : Access(n, W("Stream", v)) = StreamWrite(n, v)
    /\ \A n : Access(n, R("Stream")) = StreamRead(n)
    /\ \A n, v : Access(n, W("BootCtrl", v)) = (IF v = 0 THEN BootReset(n) ELSE n)
    /\ \A n, v : Access(n, W("BootCmd", v)) = BootCmd(n, v)
    /\ \A n, v : Access(n, W("BootAddr", v)) = BootAddr(n, v)
    /\ \A n, v : Access(n, W("BootMode", v)) = BootMode(n, v)
    /\ \A n, v : Access(n, W("DioCtrl", v)) = [n EXCEPT !.dio = v]
    /\ \A n, v : Access(n, W("Dio", v)) = DioWrite(n, v)
    /\ \A n : Access(n, R("Dio")) = DioRead(n)
    /\ \A n, v : Access(n, W("Command", v)) = LegacyCommand(n, v)
    /\ \A n, v : Access(n, W("Address", v)) = LegacyAddress(n, v)
    /\ \A n, v : Access(n, W("Data", v)) = IF n.state = "program" THEN ProgramAppend(n, v) ELSE n
    /\ \A n, v : Access(n, W("DmaState", v)) = DmaStateWritten(n)
    /\ \A n, v : Access(n, <<"R", "Dma", v>>) = DmaRead(n, v)
    /\ \A n, v : Access(n, W("RestoreMode", v)) = RestoreMode(n, v)
    /\ \A n : Access(n, R("Window")) = RestoreRead(n)
    /\ \A n : Access(n, R("Status")) = n
    /\ \A n : Access(n, R("Result")) = n
    /\ \A n : Access(n, R("Clean")) = n
BY DEF Access, W, R

--------------------------------------------------------------------------------
(* The chip along a script: f[i] is the chip after the first i accesses.   *)

Run(t, f, k) == /\ \A i \in 0..k : Chip(f[i])
                /\ \A i \in 0..k - 1 : f[i + 1] = Access(f[i], t[i + 1])
Shifted(f, o, k) == [i \in 0..k - o |-> f[o + i]]

\* Length and concatenation under names the provers leave alone.
Size(t) == Len(t)
Cat(s, t) == s \o t
Listed(t) == t \in Seq({t[i] : i \in DOMAIN t})

\* No access of t confirms anything, whatever the chip it starts from.
QuietTo(t, m) == \A f : \A k \in 0..m - 1 : Run(t, f, k) => ~Confirming(f[k], t[k + 1])
Silent(t) == QuietTo(t, Size(t))

\* A function on 1..len is a sequence.
LEMMA ListedIs ==
    ASSUME NEW len \in Nat, NEW t, t = [i \in 1..len |-> t[i]]
    PROVE  Listed(t) /\ Size(t) = len /\ DOMAIN t = 1..len
<1> DEFINE S == {t[i] : i \in DOMAIN t}
<1>1. DOMAIN t = 1..len
  OBVIOUS
<1>2. t \in [1..len -> S]
  BY <1>1
<1> HIDE DEF S
<1>3. t \in Seq(S) /\ Len(t) = len
  BY <1>2
<1> QED
  BY <1>1, <1>3 DEF Listed, S, Size

\* Two sequences one after the other.
LEMMA Joined ==
    ASSUME NEW s, NEW t, Listed(s), Listed(t)
    PROVE  /\ Listed(Cat(s, t)) /\ Size(s) \in Nat /\ Size(t) \in Nat
           /\ Size(Cat(s, t)) = Size(s) + Size(t)
           /\ \A i \in 1..Size(s) : Cat(s, t)[i] = s[i]
           /\ \A j \in 1..Size(t) : Cat(s, t)[Size(s) + j] = t[j]
<1> DEFINE A == {s[i] : i \in DOMAIN s}
           B == {t[i] : i \in DOMAIN t}
           S == A \cup B
           u == Cat(s, t)
<1>1. s \in Seq(A) /\ t \in Seq(B)
  BY DEF Listed
<1> HIDE DEF A, B
<1>2. s \in Seq(S) /\ t \in Seq(S)
  BY <1>1
<1> HIDE DEF S
<1>3. /\ u \in Seq(S) /\ Size(u) = Size(s) + Size(t) /\ Size(s) \in Nat /\ Size(t) \in Nat
      /\ \A i \in 1..Size(s) + Size(t) : u[i] = IF i <= Size(s) THEN s[i] ELSE t[i - Size(s)]
  BY <1>2, ConcatProperties DEF Size, Cat
<1> HIDE DEF u
<1>4. u = [i \in 1..Size(u) |-> u[i]] /\ Size(u) \in Nat
  BY <1>3 DEF Size
<1>5. Listed(u)
  BY <1>4, ListedIs
<1>6. \A i \in 1..Size(s) : u[i] = s[i]
  BY <1>3
<1>7. \A j \in 1..Size(t) : u[Size(s) + j] = t[j]
  BY <1>3
<1> QED
  BY <1>3, <1>5, <1>6, <1>7 DEF u

\* The same, the lengths known.
LEMMA JoinedBy ==
    ASSUME NEW s, NEW t, Listed(s), Listed(t), NEW k, NEW l, Size(s) = k, Size(t) = l
    PROVE  /\ Listed(Cat(s, t)) /\ k \in Nat /\ l \in Nat /\ Size(Cat(s, t)) = k + l
           /\ \A i \in 1..k : Cat(s, t)[i] = s[i]
           /\ \A j \in 1..l : Cat(s, t)[k + j] = t[j]
<1>1. /\ Listed(Cat(s, t)) /\ Size(s) \in Nat /\ Size(t) \in Nat
      /\ Size(Cat(s, t)) = Size(s) + Size(t)
      /\ \A i \in 1..Size(s) : Cat(s, t)[i] = s[i]
      /\ \A j \in 1..Size(t) : Cat(s, t)[Size(s) + j] = t[j]
  BY Joined
<1> DEFINE u == Cat(s, t)
           ls == Size(s)
           lt == Size(t)
<1>2. ls = k /\ lt = l
  OBVIOUS
<1> HIDE DEF u, ls, lt
<1>3. /\ Listed(u) /\ ls \in Nat /\ lt \in Nat /\ Size(u) = ls + lt
      /\ \A i \in 1..ls : u[i] = s[i]
      /\ \A j \in 1..lt : u[ls + j] = t[j]
  BY <1>1 DEF u, ls, lt
<1>4. /\ Listed(u) /\ k \in Nat /\ l \in Nat /\ Size(u) = k + l
      /\ \A i \in 1..k : u[i] = s[i]
      /\ \A j \in 1..l : u[k + j] = t[j]
  BY <1>2, <1>3
<1> QED
  BY <1>4 DEF u

\* A run of Cat(s, t) is one of s and then one of t.
LEMMA RunSplit ==
    ASSUME NEW s, NEW t, Listed(s), Listed(t), NEW f, NEW k \in 0..Size(s) + Size(t),
           Run(Cat(s, t), f, k)
    PROVE  /\ k <= Size(s) => Run(s, f, k)
           /\ k >= Size(s) => /\ Run(s, f, Size(s)) /\ k - Size(s) \in 0..Size(t)
                             /\ Run(t, Shifted(f, Size(s), k), k - Size(s))
                             /\ Shifted(f, Size(s), k)[k - Size(s)] = f[k]
                             /\ Shifted(f, Size(s), k)[0] = f[Size(s)]
<1> DEFINE u == Cat(s, t)
           m == Size(s)
           g == Shifted(f, m, k)
<1>1. /\ m \in Nat /\ Size(t) \in Nat
      /\ (\A i \in 1..m : u[i] = s[i]) /\ (\A j \in 1..Size(t) : u[m + j] = t[j])
  BY Joined
<1>2. /\ \A i \in 0..k : Chip(f[i])
      /\ \A i \in 0..k - 1 : f[i + 1] = Access(f[i], u[i + 1])
  BY DEF Run
<1>3. k \in Nat
  BY <1>1
<1> HIDE DEF u, m
<1>4. ASSUME NEW j \in 0..k, j <= m PROVE Run(s, f, j)
  <2>1. \A i \in 0..j - 1 : i \in 0..k - 1 /\ i + 1 \in 1..m
    BY <1>1, <1>3, <1>4
  <2>2. \A i \in 0..j : i \in 0..k
    BY <1>1, <1>3, <1>4
  <2> QED
    BY <1>1, <1>2, <2>1, <2>2 DEF Run
<1>5. CASE k >= m
  <2>1. m \in 0..k /\ k - m \in 0..Size(t)
    BY <1>1, <1>3, <1>5 DEF m
  <2>2. \A i \in 0..k - m : g[i] = f[m + i] /\ m + i \in 0..k
    BY <1>1, <1>3, <2>1 DEF Shifted
  <2>3. \A i \in 0..k - m - 1 : /\ i \in 0..k - m /\ i + 1 \in 0..k - m /\ m + i \in 0..k - 1
                                /\ i + 1 \in 1..Size(t) /\ m + (i + 1) = (m + i) + 1
    BY <1>1, <1>3, <2>1
  <2>4. \A i \in 0..k - m - 1 : g[i + 1] = Access(g[i], t[i + 1])
    <3> SUFFICES ASSUME NEW i \in 0..k - m - 1 PROVE g[i + 1] = Access(g[i], t[i + 1])
      OBVIOUS
    <3>1. g[i] = f[m + i] /\ g[i + 1] = f[(m + i) + 1]
      BY <2>2, <2>3
    <3>2. f[(m + i) + 1] = Access(f[m + i], u[(m + i) + 1])
      BY <1>2, <2>3
    <3>3. u[(m + i) + 1] = t[i + 1]
      BY <1>1, <2>3
    <3> QED
      BY <3>1, <3>2, <3>3
  <2>5. Run(t, g, k - m)
    <3> HIDE DEF g
    <3> QED BY <1>2, <2>2, <2>4 DEF Run
  <2>6. g[k - m] = f[k] /\ g[0] = f[m]
    <3>1. k - m \in 0..k - m /\ 0 \in 0..k - m /\ m + (k - m) = k /\ m + 0 = m
      BY <1>1, <1>3, <2>1
    <3> HIDE DEF g
    <3> QED BY <2>2, <3>1
  <2>7. Run(s, f, m)
    BY <1>4, <2>1, <1>1
  <2> QED
    BY <1>4, <1>5, <1>1, <1>3, <2>1, <2>5, <2>6, <2>7 DEF m
<1>6. CASE k <= m
  BY <1>4, <1>5, <1>6, <1>1, <1>3 DEF m
<1> QED
  BY <1>1, <1>3, <1>5, <1>6 DEF m

\* A quiet sequence before one that is quiet for the first l accesses.
LEMMA QuietThen ==
    ASSUME NEW s, NEW t, Listed(s), Listed(t), NEW l \in 0..Size(t), Silent(s), QuietTo(t, l)
    PROVE  QuietTo(Cat(s, t), Size(s) + l)
<1> DEFINE u == Cat(s, t)
           m == Size(s)
<1>1. /\ m \in Nat /\ Size(t) \in Nat /\ Listed(u) /\ Size(u) = m + Size(t)
      /\ (\A i \in 1..m : u[i] = s[i]) /\ (\A j \in 1..Size(t) : u[m + j] = t[j])
  BY Joined
<1>2. ASSUME NEW f, NEW k \in 0..m + l - 1, Run(u, f, k) PROVE ~Confirming(f[k], u[k + 1])
  <2>0. k \in 0..m + Size(t) /\ k \in Nat
    BY <1>1
  <2>1. CASE k < m
    <3>1. Run(s, f, k)
      BY <1>2, <2>0, <2>1, RunSplit, <1>1
    <3>2. k \in 0..m - 1 /\ k + 1 \in 1..m
      BY <1>1, <2>0, <2>1
    <3> QED
      BY <1>1, <3>1, <3>2 DEF Silent, QuietTo
  <2>2. CASE k >= m
    <3> DEFINE g == Shifted(f, m, k)
    <3>1. Run(t, g, k - m) /\ g[k - m] = f[k]
      BY <1>2, <2>0, <2>2, RunSplit, <1>1
    <3>2. k - m \in 0..l - 1 /\ (k - m) + 1 \in 1..Size(t) /\ m + ((k - m) + 1) = k + 1
      BY <1>1, <2>0, <2>2
    <3> HIDE DEF g, m, u
    <3>3. u[k + 1] = t[(k - m) + 1]
      BY <1>1, <3>2
    <3>4. ~Confirming(g[k - m], t[(k - m) + 1])
      BY <3>1, <3>2 DEF QuietTo
    <3> QED
      BY <3>1, <3>3, <3>4
  <2> QED
    BY <1>1, <2>0, <2>1, <2>2
<1> QED
  BY <1>1, <1>2 DEF QuietTo

\* One quiet sequence after another is quiet.
LEMMA QuietJoined ==
    ASSUME NEW s, NEW t, Listed(s), Listed(t), Silent(s), Silent(t)
    PROVE  Listed(Cat(s, t)) /\ Silent(Cat(s, t))
<1>1. Listed(Cat(s, t)) /\ Size(Cat(s, t)) = Size(s) + Size(t) /\ Size(t) \in 0..Size(t)
  BY Joined
<1>2. QuietTo(Cat(s, t), Size(s) + Size(t))
  BY <1>1, QuietThen DEF Silent
<1> QED
  BY <1>1, <1>2 DEF Silent

--------------------------------------------------------------------------------
(* The pieces of the scripts, listed.                                      *)

\* The accesses that a command, and an address at the port, are made of.
LEMMA PiecesListed ==
    /\ \A c : /\ Listed(XCommand(c)) /\ Size(XCommand(c)) = 3
              /\ XCommand(c)[1] = W("XferCmd", 3) /\ XCommand(c)[2] = W("XferAddr", c)
              /\ XCommand(c)[3] = W("XferAck", 0)
    /\ \A a, c : /\ Listed(DioLine(a, c)) /\ Size(DioLine(a, c)) = 2
                 /\ DioLine(a, c)[1] = W("DioCtrl", a) /\ DioLine(a, c)[2] = W("Dio", c)
    /\ \A a, b, d : LET t == PortRow(<<a, b, d>>) IN
                    /\ Listed(t) /\ Size(t) = 3 /\ t[1] = W("Address", a)
                    /\ t[2] = W("Address", b) /\ t[3] = W("Address", d)
<1>1. ASSUME NEW c
      PROVE  /\ Listed(XCommand(c)) /\ Size(XCommand(c)) = 3
             /\ XCommand(c)[1] = W("XferCmd", 3) /\ XCommand(c)[2] = W("XferAddr", c)
             /\ XCommand(c)[3] = W("XferAck", 0)
  <2>1. XCommand(c) = [i \in 1..3 |-> XCommand(c)[i]]
    BY DEF XCommand
  <2>2. Listed(XCommand(c)) /\ Size(XCommand(c)) = 3
    BY <2>1, ListedIs
  <2> QED BY <2>2 DEF XCommand
<1>2. ASSUME NEW a, NEW c
      PROVE  /\ Listed(DioLine(a, c)) /\ Size(DioLine(a, c)) = 2
             /\ DioLine(a, c)[1] = W("DioCtrl", a) /\ DioLine(a, c)[2] = W("Dio", c)
  <2>1. DioLine(a, c) = [i \in 1..2 |-> DioLine(a, c)[i]]
    BY DEF DioLine
  <2>2. Listed(DioLine(a, c)) /\ Size(DioLine(a, c)) = 2
    BY <2>1, ListedIs
  <2> QED BY <2>2 DEF DioLine
<1>3. ASSUME NEW a, NEW b, NEW d
      PROVE  LET t == PortRow(<<a, b, d>>) IN
             /\ Listed(t) /\ Size(t) = 3 /\ t[1] = W("Address", a)
             /\ t[2] = W("Address", b) /\ t[3] = W("Address", d)
  <2>1. PortRow(<<a, b, d>>) = [i \in 1..3 |-> W("Address", <<a, b, d>>[i])]
    BY DEF PortRow
  <2>2. PortRow(<<a, b, d>>) = [i \in 1..3 |-> PortRow(<<a, b, d>>)[i]]
    BY <2>1
  <2>3. Listed(PortRow(<<a, b, d>>)) /\ Size(PortRow(<<a, b, d>>)) = 3
    BY <2>2, ListedIs
  <2> QED BY <2>1, <2>3
<1> QED
  BY <1>1, <1>2, <1>3

\* One access on its own.
LEMMA OneListed ==
    ASSUME NEW e PROVE Listed(<<e>>) /\ Size(<<e>>) = 1 /\ <<e>>[1] = e
<1>1. <<e>> = [i \in 1..1 |-> <<e>>[i]]
  OBVIOUS
<1> QED
  BY <1>1, ListedIs

\* One access after a sequence.
LEMMA Followed ==
    ASSUME NEW t, Listed(t), NEW e
    PROVE  /\ Listed(Cat(t, <<e>>)) /\ Size(Cat(t, <<e>>)) = Size(t) + 1 /\ Size(t) \in Nat
           /\ \A i \in 1..Size(t) : Cat(t, <<e>>)[i] = t[i]
           /\ Cat(t, <<e>>)[Size(t) + 1] = e
<1> DEFINE u == <<e>>
<1>1. Listed(u) /\ Size(u) = 1 /\ u[1] = e
  BY OneListed
<1> HIDE DEF u
<1>2. /\ Listed(Cat(t, u)) /\ Size(Cat(t, u)) = Size(t) + 1 /\ Size(t) \in Nat
      /\ \A i \in 1..Size(t) : Cat(t, u)[i] = t[i]
      /\ \A j \in 1..1 : Cat(t, u)[Size(t) + j] = u[j]
  BY <1>1, JoinedBy
<1> QED
  BY <1>1, <1>2 DEF u

\* The row cycles of the transfer engine and of the direct I/O port.
LEMMA RowOfThree ==
    ASSUME NEW a, NEW b, NEW d
    PROVE  LET t == XRow(<<a, b, d>>) IN
           /\ Listed(t) /\ Size(t) = 5 /\ t[1] = W("XferCmd", 6) /\ t[2] = W("XferAddr", a)
           /\ t[3] = W("XferAddr", b) /\ t[4] = W("XferAddr", d) /\ t[5] = W("XferAck", 0)
<1> DEFINE x == [i \in DOMAIN <<a, b, d>> |-> W("XferAddr", <<a, b, d>>[i])]
           h == <<W("XferCmd", 6)>>
           e == W("XferAck", 0)
           u == Cat(h, x)
           v == Cat(u, <<e>>)
<1>1. /\ x = [i \in 1..3 |-> x[i]]
      /\ x[1] = W("XferAddr", a) /\ x[2] = W("XferAddr", b) /\ x[3] = W("XferAddr", d)
  OBVIOUS
<1>2. XRow(<<a, b, d>>) = v
  BY DEF XRow, Cat
<1>3. Listed(h) /\ Size(h) = 1 /\ h[1] = W("XferCmd", 6)
  BY OneListed
<1> HIDE DEF x, h, e
<1>4. Listed(x) /\ Size(x) = 3
  BY <1>1, ListedIs
<1>5. /\ Listed(u) /\ Size(u) = 1 + 3 /\ \A i \in 1..1 : u[i] = h[i]
      /\ \A j \in 1..3 : u[1 + j] = x[j]
  BY <1>3, <1>4, JoinedBy
<1> HIDE DEF u
<1>6. Size(u) = 4 /\ u[1] = h[1] /\ u[2] = x[1] /\ u[3] = x[2] /\ u[4] = x[3]
  BY <1>5
<1>8. Listed(v) /\ Size(v) = 5 /\ v[5] = e /\ \A i \in 1..4 : v[i] = u[i]
  BY <1>5, <1>6, Followed
<1> HIDE DEF v
<1>9. v[1] = u[1] /\ v[2] = u[2] /\ v[3] = u[3] /\ v[4] = u[4]
  BY <1>8
<1> QED
  BY <1>1, <1>2, <1>3, <1>6, <1>8, <1>9 DEF e

\* A block's address through the transfer engine.
LEMMA RowOfTwo ==
    ASSUME NEW a, NEW b
    PROVE  LET t == XRow(<<a, b>>) IN
           /\ Listed(t) /\ Size(t) = 4 /\ t[1] = W("XferCmd", 6) /\ t[2] = W("XferAddr", a)
           /\ t[3] = W("XferAddr", b) /\ t[4] = W("XferAck", 0)
<1> DEFINE x == [i \in DOMAIN <<a, b>> |-> W("XferAddr", <<a, b>>[i])]
           h == <<W("XferCmd", 6)>>
           e == W("XferAck", 0)
           u == Cat(h, x)
           v == Cat(u, <<e>>)
<1>1. /\ x = [i \in 1..2 |-> x[i]]
      /\ x[1] = W("XferAddr", a) /\ x[2] = W("XferAddr", b)
  OBVIOUS
<1>2. XRow(<<a, b>>) = v
  BY DEF XRow, Cat
<1>3. Listed(h) /\ Size(h) = 1 /\ h[1] = W("XferCmd", 6)
  BY OneListed
<1> HIDE DEF x, h, e
<1>4. Listed(x) /\ Size(x) = 2
  BY <1>1, ListedIs
<1>5. /\ Listed(u) /\ Size(u) = 1 + 2 /\ \A i \in 1..1 : u[i] = h[i]
      /\ \A j \in 1..2 : u[1 + j] = x[j]
  BY <1>3, <1>4, JoinedBy
<1> HIDE DEF u
<1>6. Size(u) = 3 /\ u[1] = h[1] /\ u[2] = x[1] /\ u[3] = x[2]
  BY <1>5
<1>8. Listed(v) /\ Size(v) = 4 /\ v[4] = e /\ \A i \in 1..3 : v[i] = u[i]
  BY <1>5, <1>6, Followed
<1> HIDE DEF v
<1>9. v[1] = u[1] /\ v[2] = u[2] /\ v[3] = u[3]
  BY <1>8
<1> QED
  BY <1>1, <1>2, <1>3, <1>6, <1>8, <1>9 DEF e

\* A page's address through the direct I/O register.
LEMMA DioRowOfThree ==
    ASSUME NEW a, NEW b, NEW d
    PROVE  LET t == DioRow(<<a, b, d>>) IN
           /\ Listed(t) /\ Size(t) = 4 /\ t[1] = W("DioCtrl", "ale") /\ t[2] = W("Dio", a)
           /\ t[3] = W("Dio", b) /\ t[4] = W("Dio", d)
<1> DEFINE x == [i \in DOMAIN <<a, b, d>> |-> W("Dio", <<a, b, d>>[i])]
           h == <<W("DioCtrl", "ale")>>
           u == Cat(h, x)
<1>1. /\ x = [i \in 1..3 |-> x[i]]
      /\ x[1] = W("Dio", a) /\ x[2] = W("Dio", b) /\ x[3] = W("Dio", d)
  OBVIOUS
<1>2. DioRow(<<a, b, d>>) = u
  BY DEF DioRow, Cat
<1>3. Listed(h) /\ Size(h) = 1 /\ h[1] = W("DioCtrl", "ale")
  BY OneListed
<1> HIDE DEF x, h
<1>4. Listed(x) /\ Size(x) = 3
  BY <1>1, ListedIs
<1>5. /\ Listed(u) /\ Size(u) = 1 + 3 /\ \A i \in 1..1 : u[i] = h[i]
      /\ \A j \in 1..3 : u[1 + j] = x[j]
  BY <1>3, <1>4, JoinedBy
<1> HIDE DEF u
<1>6. Size(u) = 4 /\ u[1] = h[1] /\ u[2] = x[1] /\ u[3] = x[2] /\ u[4] = x[3]
  BY <1>5
<1> QED
  BY <1>1, <1>2, <1>3, <1>5, <1>6

\* The accesses that send an address, route by route.
LEMMA RowsListed ==
    /\ \A a, b, d : LET t == XRow(<<a, b, d>>) IN
           /\ Listed(t) /\ Size(t) = 5 /\ t[1] = W("XferCmd", 6) /\ t[2] = W("XferAddr", a)
           /\ t[3] = W("XferAddr", b) /\ t[4] = W("XferAddr", d) /\ t[5] = W("XferAck", 0)
    /\ \A a, b : LET t == XRow(<<a, b>>) IN
           /\ Listed(t) /\ Size(t) = 4 /\ t[1] = W("XferCmd", 6) /\ t[2] = W("XferAddr", a)
           /\ t[3] = W("XferAddr", b) /\ t[4] = W("XferAck", 0)
    /\ \A a, b, d : LET t == DioRow(<<a, b, d>>) IN
           /\ Listed(t) /\ Size(t) = 4 /\ t[1] = W("DioCtrl", "ale") /\ t[2] = W("Dio", a)
           /\ t[3] = W("Dio", b) /\ t[4] = W("Dio", d)
<1>1. ASSUME NEW a, NEW b, NEW d
      PROVE  LET t == XRow(<<a, b, d>>) IN
             /\ Listed(t) /\ Size(t) = 5 /\ t[1] = W("XferCmd", 6) /\ t[2] = W("XferAddr", a)
             /\ t[3] = W("XferAddr", b) /\ t[4] = W("XferAddr", d) /\ t[5] = W("XferAck", 0)
  BY RowOfThree
<1>2. ASSUME NEW a, NEW b
      PROVE  LET t == XRow(<<a, b>>) IN
             /\ Listed(t) /\ Size(t) = 4 /\ t[1] = W("XferCmd", 6) /\ t[2] = W("XferAddr", a)
             /\ t[3] = W("XferAddr", b) /\ t[4] = W("XferAck", 0)
  BY RowOfTwo
<1>3. ASSUME NEW a, NEW b, NEW d
      PROVE  LET t == DioRow(<<a, b, d>>) IN
             /\ Listed(t) /\ Size(t) = 4 /\ t[1] = W("DioCtrl", "ale") /\ t[2] = W("Dio", a)
             /\ t[3] = W("Dio", b) /\ t[4] = W("Dio", d)
  BY DioRowOfThree
<1> QED
  BY <1>1, <1>2, <1>3

--------------------------------------------------------------------------------
(* What the pieces do to the chip.                                         *)

\* The accesses that can confirm.
Registers == {"XferAck", "Dio", "Command"}

\* A sequence without such a write is quiet.
LEMMA PlainQuiet ==
    ASSUME NEW t, Size(t) \in Nat, \A i \in 1..Size(t) : t[i][2] \notin Registers \/ t[i] = R("Dio")
    PROVE  Silent(t)
<1>1. ASSUME NEW f, NEW k \in 0..Size(t) - 1 PROVE ~Confirming(f[k], t[k + 1])
  <2>1. k + 1 \in 1..Size(t)
    OBVIOUS
  <2> QED
    BY <2>1 DEF Confirming, Registers, R
<1> QED
  BY <1>1 DEF Silent, QuietTo

\* The first two accesses of a command leave it in the byte register.
LEMMA CommandRun ==
    ASSUME NEW c, NEW f, NEW k \in {2, 3}, Run(XCommand(c), f, k)
    PROVE  /\ f[2] = [f[0] EXCEPT !.xphase = 3, !.xcnt = 0, !.xbyte = c]
           /\ Chip(f[0]) /\ Chip(f[2]) /\ f[2].xphase = 3 /\ f[2].xbyte = c
           /\ k = 3 => f[3] = XferCommand(f[2], c) /\ Chip(f[3])
<1> DEFINE t == XCommand(c)
           n == f[0]
           o == [n EXCEPT !.xphase = 3, !.xcnt = 0]
<1>1. t[1] = W("XferCmd", 3) /\ t[2] = W("XferAddr", c) /\ t[3] = W("XferAck", 0)
  BY PiecesListed
<1> HIDE DEF t
<1>2. /\ Chip(f[0]) /\ Chip(f[1]) /\ Chip(f[2]) /\ f[1] = Access(f[0], t[1]) /\ f[2] = Access(f[1], t[2])
      /\ k = 3 => f[3] = Access(f[2], t[3]) /\ Chip(f[3])
  <2>1. 0 \in 0..k /\ 1 \in 0..k /\ 2 \in 0..k /\ (k = 3 => 3 \in 0..k)
    OBVIOUS
  <2>2. 0 \in 0..k - 1 /\ 1 \in 0..k - 1 /\ (k = 3 => 2 \in 0..k - 1)
    OBVIOUS
  <2>3. 0 + 1 = 1 /\ 1 + 1 = 2 /\ 2 + 1 = 3
    OBVIOUS
  <2>4. \A i \in 0..k - 1 : f[i + 1] = Access(f[i], t[i + 1])
    BY DEF Run, t
  <2>5. \A i \in 0..k : Chip(f[i])
    BY DEF Run
  <2>6. f[0 + 1] = Access(f[0], t[0 + 1]) /\ f[1 + 1] = Access(f[1], t[1 + 1])
        /\ (k = 3 => f[2 + 1] = Access(f[2], t[2 + 1]))
    BY <2>2, <2>4
  <2> QED
    BY <2>1, <2>3, <2>5, <2>6
<1>3. f[1] = XferCmd(f[0], 3) /\ f[2] = XferAddr(f[1], c) /\ (k = 3 => f[3] = XferAck(f[2]))
  <2>1. Access(f[0], W("XferCmd", 3)) = XferCmd(f[0], 3)
    BY AccessIs
  <2>2. Access(f[1], W("XferAddr", c)) = XferAddr(f[1], c)
    BY AccessIs
  <2>3. Access(f[2], W("XferAck", 0)) = XferAck(f[2])
    BY AccessIs
  <2> QED
    BY <1>1, <1>2, <2>1, <2>2, <2>3
<1>4. f[1] = o
  BY <1>3 DEF XferCmd
<1>5. Chip(o) /\ o.xphase = 3
  BY <1>2 DEF Chip, Fields
<1> HIDE DEF o
<1>6. f[2] = [o EXCEPT !.xbyte = c]
  BY <1>3, <1>4, <1>5 DEF XferAddr
<1>7. Chip(f[2]) /\ f[2].xphase = 3 /\ f[2].xbyte = c
  BY <1>5, <1>6 DEF Chip, Fields
<1>8. f[2] = [n EXCEPT !.xphase = 3, !.xcnt = 0, !.xbyte = c]
  BY <1>6 DEF o
<1>9. k = 3 => f[3] = XferCommand(f[2], c)
  BY <1>3, <1>7 DEF XferAck
<1> QED
  BY <1>2, <1>7, <1>8, <1>9

\* Sending a command that does not confirm confirms nothing.
LEMMA CommandQuiet ==
    ASSUME NEW c, c \notin Confirms PROVE Silent(XCommand(c))
<1> DEFINE t == XCommand(c)
<1>1. /\ Size(t) = 3 /\ t[1] = W("XferCmd", 3) /\ t[2] = W("XferAddr", c) /\ t[3] = W("XferAck", 0)
  BY PiecesListed
<1>2. ASSUME NEW f, NEW k \in 0..Size(t) - 1, Run(t, f, k) PROVE ~Confirming(f[k], t[k + 1])
  <2> HIDE DEF t
  <2>1. k \in {0, 1, 2}
    BY <1>1
  <2>2. CASE k = 0
    <3>1. t[k + 1] = W("XferCmd", 3)
      BY <1>1, <2>2
    <3> QED BY <3>1 DEF Confirming, W
  <2>3. CASE k = 1
    <3>1. t[k + 1] = W("XferAddr", c)
      BY <1>1, <2>3
    <3> QED BY <3>1 DEF Confirming, W
  <2>4. CASE k = 2
    <3>1. t[k + 1] = W("XferAck", 0)
      BY <1>1, <2>4
    <3>2. f[k].xbyte = c
      BY <1>2, <2>4, CommandRun DEF t
    <3> QED BY <3>1, <3>2 DEF Confirming, W
  <2> QED BY <2>1, <2>2, <2>3, <2>4
<1> QED
  BY <1>2 DEF Silent, QuietTo

\* The first step of a run, and what is left of it.
LEMMA RunStep ==
    ASSUME NEW t, NEW f, NEW k \in Nat, Run(t, f, k), NEW i \in Nat, NEW j, j = i + 1, i < k
    PROVE  Chip(f[i]) /\ Chip(f[j]) /\ f[j] = Access(f[i], t[j])
BY DEF Run

\* An address byte in phase 6.
LEMMA AddressByteAt ==
    ASSUME NEW n, Chip(n), n.xphase = 6, DOMAIN n.xaddr = 1..3, NEW i \in 0..2, n.xcnt = i, NEW v
    PROVE  LET m == XferAddr(n, v) IN
           /\ Chip(m) /\ m.xphase = 6 /\ m.xcnt = i + 1 /\ m.xcmd = n.xcmd
           /\ m.xaddr = [n.xaddr EXCEPT ![i + 1] = v] /\ DOMAIN m.xaddr = 1..3
           /\ m.state = n.state /\ m.pbuf = n.pbuf /\ m.plen = n.plen
           /\ n.xcmd = "SEQIN" /\ i = 2 => m.page = m.xaddr[2]
           /\ n.xcmd = "ERASE1" /\ i >= 1 => m.page = Block(m.xaddr[1]) * BlockPages
<1> DEFINE a == [n.xaddr EXCEPT ![i + 1] = v]
           j == i + 1
           o == [n EXCEPT !.xcnt = j, !.xaddr = a]
           m == XferAddr(n, v)
<1>1. [n EXCEPT !.xcnt = IF @ < 3 THEN @ + 1 ELSE 3,
           !.xaddr = IF n.xcnt < 3 THEN [@ EXCEPT ![n.xcnt + 1] = v]
                     ELSE [q \in 1..3 |-> IF q = 3 THEN v ELSE @[q + 1]]] = o
  <2>1. (IF n.xcnt < 3 THEN n.xcnt + 1 ELSE 3) = j
    OBVIOUS
  <2>2. (IF n.xcnt < 3 THEN [n.xaddr EXCEPT ![n.xcnt + 1] = v]
                     ELSE [q \in 1..3 |-> IF q = 3 THEN v ELSE n.xaddr[q + 1]]) = a
    OBVIOUS
  <2> HIDE DEF a, j
  <2> QED BY <2>1, <2>2
<1>2. m = LatchAddr(o)
  BY <1>1 DEF XferAddr
<1>3. DOMAIN a = 1..3 /\ j \in 1..3
  OBVIOUS
<1> HIDE DEF a, j
<1>4. /\ Chip(o) /\ o.xphase = 6 /\ o.xcnt = j /\ o.xcmd = n.xcmd /\ o.xaddr = a
      /\ o.state = n.state /\ o.pbuf = n.pbuf /\ o.plen = n.plen
  BY DEF Chip, Fields
<1> HIDE DEF o, m
<1>5. PICK p, q : m = o \/ m = [o EXCEPT !.page = p, !.col = q] \/ m = [o EXCEPT !.page = p]
  BY <1>2 DEF LatchAddr
<1>6. /\ Chip(m) /\ m.xphase = 6 /\ m.xcnt = j /\ m.xcmd = n.xcmd /\ m.xaddr = a
      /\ m.state = n.state /\ m.pbuf = n.pbuf /\ m.plen = n.plen
  <2>1. CASE m = o
    BY <1>4, <2>1
  <2>2. CASE m = [o EXCEPT !.page = p, !.col = q]
    BY <1>4, <2>2, SMTT(60) DEF Chip, Fields
  <2>3. CASE m = [o EXCEPT !.page = p]
    BY <1>4, <2>3, SMTT(60) DEF Chip, Fields
  <2> QED BY <1>5, <2>1, <2>2, <2>3
<1>7. n.xcmd = "SEQIN" /\ i = 2 => m.page = a[2]
  <2>1. n.xcmd = "SEQIN" /\ i = 2 => m = [o EXCEPT !.page = a[2], !.col = a[1]]
    BY <1>2, <1>4 DEF LatchAddr, Addressed, j
  <2> QED
    BY <1>4, <2>1, ZenonT(60) DEF Chip, Fields
<1>8. n.xcmd = "ERASE1" /\ i >= 1 => m.page = Block(a[1]) * BlockPages
  <2>1. n.xcmd = "ERASE1" /\ i >= 1 => m = [o EXCEPT !.page = EraseStart(o)]
    BY <1>2, <1>4, SMTT(60) DEF LatchAddr, Addressed, j
  <2>2. i >= 1 => EraseRow(o) = a[1]
    BY <1>4 DEF EraseRow, j
  <2>3. i >= 1 => EraseStart(o) = Block(a[1]) * BlockPages
    BY <2>2 DEF EraseStart
  <2> QED
    BY <1>4, <2>1, <2>3 DEF Chip, Fields
<1> QED
  BY <1>3, <1>6, <1>7, <1>8 DEF a, j, m

\* m is n with one address byte more.
Latched(n, m, v) ==
    /\ Chip(m) /\ m.xphase = n.xphase /\ m.xcnt = n.xcnt + 1 /\ m.xcmd = n.xcmd
    /\ m.xaddr = [n.xaddr EXCEPT ![n.xcnt + 1] = v] /\ DOMAIN m.xaddr = 1..3
    /\ m.state = n.state /\ m.pbuf = n.pbuf /\ m.plen = n.plen
    /\ n.xcmd = "SEQIN" /\ n.xcnt = 2 => m.page = m.xaddr[2]
    /\ n.xcmd = "ERASE1" /\ n.xcnt >= 1 => m.page = Block(m.xaddr[1]) * BlockPages

\* An address byte of the engine is kept in the next place of its latch.
LEMMA AddressByte ==
    ASSUME NEW n, Chip(n), n.xphase = 6, DOMAIN n.xaddr = 1..3, n.xcnt \in 0..2, NEW v
    PROVE  Latched(n, XferAddr(n, v), v)
<1> DEFINE i == n.xcnt
           m == XferAddr(n, v)
<1> HIDE DEF i
<1>1. i \in 0..2 /\ n.xcnt = i
  BY DEF i
<1>2. /\ Chip(m) /\ m.xphase = 6 /\ m.xcnt = i + 1 /\ m.xcmd = n.xcmd
      /\ m.xaddr = [n.xaddr EXCEPT ![i + 1] = v] /\ DOMAIN m.xaddr = 1..3
      /\ m.state = n.state /\ m.pbuf = n.pbuf /\ m.plen = n.plen
      /\ n.xcmd = "SEQIN" /\ i = 2 => m.page = m.xaddr[2]
      /\ n.xcmd = "ERASE1" /\ i >= 1 => m.page = Block(m.xaddr[1]) * BlockPages
  BY <1>1, AddressByteAt
<1> HIDE DEF m
<1>3. Latched(n, m, v)
  BY <1>1, <1>2 DEF Latched
<1> QED
  BY <1>3 DEF m

\* An address byte leaves the phase.
LEMMA AddressPhase ==
    ASSUME NEW n, Chip(n), NEW v PROVE XferAddr(n, v).xphase = n.xphase
<1> DEFINE c == IF n.xcnt < 3 THEN n.xcnt + 1 ELSE 3
           a == IF n.xcnt < 3 THEN [n.xaddr EXCEPT ![n.xcnt + 1] = v]
                     ELSE [q \in 1..3 |-> IF q = 3 THEN v ELSE n.xaddr[q + 1]]
           o == [n EXCEPT !.xcnt = c, !.xaddr = a]
           m == XferAddr(n, v)
<1>1. m = [n EXCEPT !.xbyte = v] \/ m = LatchAddr(o)
  BY DEF XferAddr
<1> HIDE DEF c, a
<1>2. Chip(o) /\ o.xphase = n.xphase
  BY DEF Chip, Fields
<1> HIDE DEF o
<1>3. \/ LatchAddr(o) = o \/ \E p, q : LatchAddr(o) = [o EXCEPT !.page = p, !.col = q]
      \/ \E p : LatchAddr(o) = [o EXCEPT !.page = p]
  BY DEF LatchAddr
<1>4. LatchAddr(o).xphase = n.xphase
  BY <1>2, <1>3 DEF Chip, Fields
<1> HIDE DEF m
<1> QED
  BY <1>1, <1>4 DEF Chip, Fields, m

\* An address through the transfer engine confirms nothing.
LEMMA RowsQuiet ==
    ASSUME NEW a, NEW b, NEW d PROVE Silent(XRow(<<a, b, d>>)) /\ Silent(XRow(<<a, b>>))
<1> DEFINE s == XRow(<<a, b, d>>)
           t == XRow(<<a, b>>)
<1>1. /\ Size(s) = 5 /\ s[1] = W("XferCmd", 6) /\ s[2] = W("XferAddr", a) /\ s[3] = W("XferAddr", b)
      /\ s[4] = W("XferAddr", d) /\ s[5] = W("XferAck", 0)
      /\ Size(t) = 4 /\ t[1] = W("XferCmd", 6) /\ t[2] = W("XferAddr", a) /\ t[3] = W("XferAddr", b)
      /\ t[4] = W("XferAck", 0)
  BY RowsListed
<1> HIDE DEF s, t
<1>2. ASSUME NEW n, Chip(n) PROVE XferCmd(n, 6).xphase = 6
  BY <1>2 DEF XferCmd, Chip, Fields
<1>3. ASSUME NEW r, NEW f, NEW k \in {3, 4}, Run(r, f, k), r[1] = W("XferCmd", 6),
             \A i \in 2..k : \E v : r[i] = W("XferAddr", v)
      PROVE  f[k].xphase = 6
  <2>0. k \in Nat /\ 0 < k /\ 1 < k /\ 2 < k /\ (k = 4 => 3 < k)
    OBVIOUS
  <2>1. f[1] = XferCmd(f[0], 6) /\ Chip(f[0]) /\ Chip(f[1])
    <3>1. f[1] = Access(f[0], r[1]) /\ Chip(f[0]) /\ Chip(f[1])
      BY <1>3, <2>0, RunStep
    <3> QED BY <1>3, <3>1, AccessIs
  <2>2. ASSUME NEW i \in {1, 2, 3}, NEW j, j = i + 1, i < k, f[i].xphase = 6 PROVE f[j].xphase = 6
    <3>1. f[j] = Access(f[i], r[j]) /\ Chip(f[i])
      BY <1>3, <2>0, <2>2, RunStep
    <3>2. j \in 2..k
      BY <2>2
    <3>3. PICK v : r[j] = W("XferAddr", v)
      BY <1>3, <3>2
    <3>4. f[j] = XferAddr(f[i], v)
      BY <3>1, <3>3, AccessIs
    <3> QED BY <2>2, <3>1, <3>4, AddressPhase
  <2>3. f[1].xphase = 6
    BY <1>2, <2>1
  <2>4. f[2].xphase = 6
    BY <2>0, <2>2, <2>3
  <2>5. f[3].xphase = 6
    BY <2>0, <2>2, <2>4
  <2>6. k = 4 => f[4].xphase = 6
    BY <2>0, <2>2, <2>5
  <2> QED
    BY <2>5, <2>6
<1>4. ASSUME NEW f, NEW k \in 0..Size(s) - 1, Run(s, f, k) PROVE ~Confirming(f[k], s[k + 1])
  <2>1. CASE k \in 0..3
    <3>1. \E v : s[k + 1] = W("XferCmd", v) \/ s[k + 1] = W("XferAddr", v)
      <4>1. k = 0 \/ k = 1 \/ k = 2 \/ k = 3
        BY <2>1
      <4> QED BY <1>1, <4>1
    <3> QED BY <3>1 DEF Confirming, W
  <2>2. CASE k = 4
    <3>1. \A i \in 2..4 : \E v : s[i] = W("XferAddr", v)
      <4>1. \A i \in 2..4 : i = 2 \/ i = 3 \/ i = 4
        OBVIOUS
      <4> QED BY <1>1, <4>1
    <3>2. f[k].xphase = 6
      BY <1>1, <1>3, <1>4, <2>2, <3>1
    <3> QED BY <1>1, <2>2, <3>2 DEF Confirming, W
  <2> QED BY <1>1, <2>1, <2>2
<1>5. ASSUME NEW f, NEW k \in 0..Size(t) - 1, Run(t, f, k) PROVE ~Confirming(f[k], t[k + 1])
  <2>1. CASE k \in 0..2
    <3>1. \E v : t[k + 1] = W("XferCmd", v) \/ t[k + 1] = W("XferAddr", v)
      <4>1. k = 0 \/ k = 1 \/ k = 2
        BY <2>1
      <4> QED BY <1>1, <4>1
    <3> QED BY <3>1 DEF Confirming, W
  <2>2. CASE k = 3
    <3>1. \A i \in 2..3 : \E v : t[i] = W("XferAddr", v)
      <4>1. \A i \in 2..3 : i = 2 \/ i = 3
        OBVIOUS
      <4> QED BY <1>1, <4>1
    <3>2. f[k].xphase = 6
      BY <1>1, <1>3, <1>5, <2>2, <3>1
    <3> QED BY <1>1, <2>2, <3>2 DEF Confirming, W
  <2> QED BY <1>1, <2>1, <2>2
<1> QED
  BY <1>4, <1>5 DEF Silent, QuietTo, s, t

\* A set of naturals with 0 and with every successor is all of them.
LEMMA NatByStep ==
    ASSUME NEW S \in SUBSET Nat, 0 \in S, \A m \in S : m + 1 \in S
    PROVE  S = Nat
<1> DEFINE T == Nat \ S
           Less == {ss \in Nat \X Nat : ss[1] < ss[2]}
<1> SUFFICES ASSUME T # {} PROVE FALSE
  OBVIOUS
<1>1. Less = OpToRel(<, Nat)
  BY DEF OpToRel
<1>2. IsWellFoundedOn(Less, Nat)
  BY <1>1, NatLessThanWellFounded
<1>3. T \subseteq Nat
  OBVIOUS
<1>4. \E x \in T : \A y \in T : ~(<<y, x>> \in Less)
  <2> HIDE DEF T, Less
  <2> QED BY <1>2, <1>3, WFMin
<1>5. PICK x \in T : \A y \in T : ~(<<y, x>> \in Less)
  BY <1>4
<1>6. x \in Nat /\ x # 0 /\ x - 1 \in Nat
  OBVIOUS
<1>7. <<x - 1, x>> \in Less
  BY <1>6
<1>8. x - 1 \in S
  BY <1>5, <1>6, <1>7
<1> QED
  BY <1>6, <1>8

\* What holds at b, and at the next number wherever it holds below k, holds up
\* to k.
LEMMA UpTo ==
    ASSUME NEW k \in Nat, NEW b \in Nat, NEW S, b \in S, \A i \in b..k - 1 : i \in S => i + 1 \in S
    PROVE  \A i \in b..k : i \in S
<1> DEFINE T == {i \in Nat : b + i <= k => b + i \in S}
<1>1. 0 \in T
  OBVIOUS
<1>2. ASSUME NEW i \in T PROVE i + 1 \in T
  <2>1. i \in Nat /\ (b + i <= k => b + i \in S)
    OBVIOUS
  <2>2. CASE b + (i + 1) <= k
    <3>1. b + i \in b..k - 1 /\ b + i <= k
      BY <2>1, <2>2
    <3>2. (b + i) + 1 \in S
      BY <2>1, <3>1
    <3>3. (b + i) + 1 = b + (i + 1)
      BY <2>1
    <3> QED BY <2>1, <3>2, <3>3
  <2> QED
    BY <2>1, <2>2
<1>3. T = Nat
  BY <1>1, <1>2, NatByStep
<1>4. ASSUME NEW i \in b..k PROVE i \in S
  <2>1. i - b \in Nat /\ b + (i - b) = i /\ i <= k
    OBVIOUS
  <2>2. i - b \in T
    BY <1>3, <2>1
  <2> HIDE DEF T
  <2>3. b + (i - b) <= k => b + (i - b) \in S
    BY <2>2 DEF T
  <2> QED BY <2>1, <2>3
<1> QED
  BY <1>4

--------------------------------------------------------------------------------
(* The pieces of the direct I/O port.                                      *)

DioPiece(t, l) ==
    /\ Size(t) \in Nat /\ t[1] = W("DioCtrl", l)
    /\ \A i \in 2..Size(t) : (\E v : t[i] = W("Dio", v)) \/ t[i] = R("Dio")

\* Address and data cycles stay on their line.
LEMMA DioStays ==
    ASSUME NEW n, Chip(n), NEW v, n.dio \in {"ale", "data"}
    PROVE  DioWrite(n, v).dio = n.dio /\ DioRead(n).dio = n.dio
<1>1. ASSUME NEW m, Chip(m), NEW e PROVE [m EXCEPT !.echo = e].dio = m.dio
  BY <1>1 DEF Chip, Fields
<1>2. DioRead(n).dio = n.dio
  BY DEF DioRead, Chip, Fields
<1>3. CASE n.dio = "ale"
  <2> DEFINE c == n.cyc + 1
             col == IF n.cyc = 0 /\ n.state = "data" THEN (IF n.col >= 1 THEN 1 ELSE 0) + v ELSE n.col
             p == IF n.cyc = 1 THEN v ELSE n.page
             a == [n EXCEPT !.cyc = c, !.col = col, !.page = p]
             u == SetupTransfer(a)
             m == LegacyAddress(n, v)
             e == v # 0 /\ ~ReadIsSetUp(m)
  <2>1. Chip(a) /\ a.dio = n.dio
    <3> HIDE DEF c, col, p
    <3> QED BY DEF Chip, Fields
  <2>2. m = IF ReadIsSetUp(a) THEN [u EXCEPT !.ready = TRUE] ELSE a
    BY DEF LegacyAddress
  <2> HIDE DEF a
  <2>3. \E l : u = [a EXCEPT !.xcur = 0, !.xlen = l]
    BY DEF SetupTransfer
  <2> HIDE DEF u
  <2>4. Chip(u) /\ u.dio = n.dio
    BY <2>1, <2>3 DEF Chip, Fields
  <2> HIDE DEF m
  <2>5. Chip(m) /\ m.dio = n.dio
    BY <2>1, <2>2, <2>4 DEF Chip, Fields
  <2>6. DioWrite(n, v) = [m EXCEPT !.echo = e]
    BY <1>3 DEF DioWrite, DioAddress, m
  <2> HIDE DEF e
  <2> QED BY <1>1, <1>2, <2>5, <2>6
<1>4. CASE n.dio = "data"
  <2> DEFINE m == IF n.state = "program" THEN ProgramAppend(n, v) ELSE n
             e == v # {}
             b == [n.pbuf EXCEPT ![n.plen] = v]
             l == n.plen + 1
  <2>1. DioWrite(n, v) = [m EXCEPT !.echo = e]
    BY <1>4 DEF DioWrite, DioData
  <2>2. m = n \/ m = [n EXCEPT !.pbuf = b, !.plen = l]
    BY DEF ProgramAppend
  <2> HIDE DEF m, e, b, l
  <2>3. Chip(m) /\ m.dio = n.dio
    BY <2>2 DEF Chip, Fields
  <2> QED BY <1>1, <1>2, <2>1, <2>3
<1> QED
  BY <1>3, <1>4

\* The line that a piece selects at the direct I/O control stays selected.
LEMMA DioAlong ==
    ASSUME NEW t, NEW l \in {"ale", "data"}, DioPiece(t, l), NEW f, NEW k \in 1..Size(t), Run(t, f, k)
    PROVE  \A i \in 1..k : f[i].dio = l
<1> DEFINE S == {i \in 1..k : f[i].dio = l}
<1>0. k \in Nat /\ 0 < k /\ 0 + 1 = 1 /\ 1 \in 1..k
  BY DEF DioPiece
<1>1. f[1].dio = l
  <2>1. f[1] = Access(f[0], t[1]) /\ Chip(f[0])
    BY <1>0, RunStep
  <2>2. f[1] = [f[0] EXCEPT !.dio = l]
    BY <2>1, AccessIs DEF DioPiece
  <2> QED BY <2>1, <2>2 DEF Chip, Fields
<1>2. ASSUME NEW i \in 1..k - 1, i \in S PROVE i + 1 \in S
  <2>1. i \in Nat /\ i < k /\ i + 1 \in 1..k /\ i + 1 \in 2..Size(t)
    BY <1>0 DEF DioPiece
  <2>2. f[i + 1] = Access(f[i], t[i + 1]) /\ Chip(f[i]) /\ f[i].dio = l
    BY <1>0, <1>2, <2>1, RunStep
  <2>3. f[i + 1] = DioRead(f[i]) \/ \E v : f[i + 1] = DioWrite(f[i], v)
    <3>1. (\E v : t[i + 1] = W("Dio", v)) \/ t[i + 1] = R("Dio")
      BY <2>1 DEF DioPiece
    <3>2. CASE t[i + 1] = R("Dio")
      BY <2>2, <3>2, AccessIs
    <3>3. CASE \E v : t[i + 1] = W("Dio", v)
      <4>1. PICK v : t[i + 1] = W("Dio", v)
        BY <3>3
      <4>2. f[i + 1] = DioWrite(f[i], v)
        BY <2>2, <4>1, AccessIs
      <4> QED BY <4>2
    <3> QED BY <3>1, <3>2, <3>3
  <2>4. f[i + 1].dio = l
    BY <2>2, <2>3, DioStays
  <2> QED BY <2>1, <2>4
<1>3. 1 \in S
  BY <1>0, <1>1
<1>4. \A i \in 1..k : i \in S
  <2> HIDE DEF S
  <2> QED BY <1>0, <1>2, <1>3, UpTo
<1> QED
  BY <1>4

\* Bytes on the address or the data line confirm nothing.
LEMMA DioQuiet ==
    ASSUME NEW t, NEW l \in {"ale", "data"}, DioPiece(t, l) PROVE Silent(t)
<1>1. ASSUME NEW f, NEW k \in 0..Size(t) - 1, Run(t, f, k) PROVE ~Confirming(f[k], t[k + 1])
  <2>0. Size(t) \in Nat
    BY DEF DioPiece
  <2>1. CASE k = 0
    BY <2>1 DEF DioPiece, Confirming, W
  <2>2. CASE k # 0
    <3>1. k \in 1..k /\ k \in 1..Size(t) /\ k + 1 \in 2..Size(t)
      BY <2>0, <2>2
    <3>2. f[k].dio = l
      BY <1>1, <3>1, DioAlong
    <3>3. t[k + 1][2] = "Dio"
      BY <3>1 DEF DioPiece, W, R
    <3> QED BY <3>2, <3>3 DEF Confirming
  <2> QED BY <2>1, <2>2
<1> QED
  BY <1>1 DEF Silent, QuietTo

\* A command byte that confirms nothing, on the two legacy ports.
LEMMA LegacyQuiet ==
    ASSUME NEW c, c \notin Confirms PROVE Silent(DioLine("cle", c)) /\ Silent(<<W("Command", c)>>)
<1> DEFINE s == DioLine("cle", c)
           t == <<W("Command", c)>>
<1>1. /\ Size(s) = 2 /\ s[1] = W("DioCtrl", "cle") /\ s[2] = W("Dio", c)
      /\ Size(t) = 1 /\ t[1] = W("Command", c)
  BY PiecesListed, OneListed
<1> HIDE DEF s, t
<1>2. ASSUME NEW n, NEW k \in {0, 1} PROVE ~Confirming(n, s[k + 1])
  BY <1>1 DEF Confirming, W
<1>3. ASSUME NEW n, NEW k \in {0} PROVE ~Confirming(n, t[k + 1])
  BY <1>1 DEF Confirming, W
<1> QED
  BY <1>1, <1>2, <1>3 DEF Silent, QuietTo, s, t

--------------------------------------------------------------------------------
(* Programming: what each piece leaves for the next one.                   *)

ProgramReady(n, p, data, k) == Chip(n) /\ n.state = "program" /\ n.page = p /\ Buffered(n, data, k)

\* The command that opens a program empties the buffer.
LEMMA SeqinOpens ==
    ASSUME NEW n, Chip(n), NEW data
    PROVE  LET o == Opened(n, "SEQIN") IN
           /\ Chip(o) /\ o.state = "program" /\ Buffered(o, data, 0) /\ o.cyc = n.cyc /\ o.dio = n.dio
           /\ o.xcmd = n.xcmd /\ o.xaddr = n.xaddr
<1> DEFINE q == [n EXCEPT !.state = "program", !.col = 0]
           e == ErasedPage
           o == [q EXCEPT !.pbuf = e, !.plen = 0]
<1>1. Opened(n, "SEQIN") = o
  BY DEF Opened, Opens
<1>2. /\ Chip(q) /\ q.state = "program" /\ q.cyc = n.cyc /\ q.dio = n.dio
      /\ q.xcmd = n.xcmd /\ q.xaddr = n.xaddr
  BY DEF Chip, Fields
<1>3. DOMAIN e = 0..PageCells - 1
  BY DEF ErasedPage
<1> HIDE DEF q, e
<1>4. /\ Chip(o) /\ o.state = "program" /\ o.cyc = n.cyc /\ o.dio = n.dio
      /\ o.xcmd = n.xcmd /\ o.xaddr = n.xaddr /\ o.pbuf = e /\ o.plen = 0
  BY <1>2 DEF Chip, Fields
<1> HIDE DEF o
<1>5. Buffered(o, data, 0)
  BY <1>3, <1>4 DEF Buffered
<1> QED
  BY <1>1, <1>4, <1>5

\* The program command opens an empty buffer.
LEMMA XferSeqin ==
    ASSUME NEW f, Run(XCommand("SEQIN"), f, 3), NEW data
    PROVE  /\ Chip(f[3]) /\ f[3].state = "program" /\ Buffered(f[3], data, 0)
           /\ f[3].xcmd = "SEQIN" /\ DOMAIN f[3].xaddr = 1..3
<1> DEFINE n == f[2]
           c == "SEQIN"
           none == <<>>
           a == NoAddr
           t == [n EXCEPT !.xcmd = c]
           fresh == [[t EXCEPT !.xdata = none] EXCEPT !.xcnt = 0, !.xaddr = a]
<1>1. f[3] = XferCommand(n, c) /\ Chip(n)
  BY CommandRun
<1>2. XferCommand(n, c) = Opened(fresh, c)
  BY DEF XferCommand, Opens
<1>3. DOMAIN a = 1..3
  BY DEF NoAddr
<1> HIDE DEF none, a, c, n
<1>4. Chip(fresh) /\ fresh.xcmd = c /\ fresh.xaddr = a
  BY <1>1 DEF Chip, Fields
<1> HIDE DEF fresh
<1>5. LET o == Opened(fresh, "SEQIN") IN
           /\ Chip(o) /\ o.state = "program" /\ Buffered(o, data, 0) /\ o.xcmd = fresh.xcmd
           /\ o.xaddr = fresh.xaddr
  BY <1>4, SeqinOpens
<1> QED
  BY <1>1, <1>2, <1>3, <1>4, <1>5 DEF c

\* The page that three address bytes through the engine select.
LEMMA XferRow ==
    ASSUME NEW p, NEW f, Run(XRow(<<0, p, 0>>), f, 5), f[0].xcmd = "SEQIN", DOMAIN f[0].xaddr = 1..3
    PROVE  /\ Chip(f[5]) /\ f[5].page = p /\ f[5].state = f[0].state /\ f[5].pbuf = f[0].pbuf
           /\ f[5].plen = f[0].plen /\ f[5].xcmd = "SEQIN" /\ f[5].xcnt = 3 /\ f[5].xaddr[2] = p
<1> DEFINE t == XRow(<<0, p, 0>>)
<1>1. /\ t[1] = W("XferCmd", 6) /\ t[2] = W("XferAddr", 0) /\ t[3] = W("XferAddr", p)
      /\ t[4] = W("XferAddr", 0) /\ t[5] = W("XferAck", 0)
  BY RowsListed
<1> HIDE DEF t
<1>2. /\ Chip(f[0]) /\ Chip(f[1]) /\ Chip(f[2]) /\ Chip(f[3]) /\ Chip(f[4]) /\ Chip(f[5])
      /\ f[1] = Access(f[0], t[1]) /\ f[2] = Access(f[1], t[2]) /\ f[3] = Access(f[2], t[3])
      /\ f[4] = Access(f[3], t[4]) /\ f[5] = Access(f[4], t[5])
  <2>1. 0 + 1 = 1 /\ 1 + 1 = 2 /\ 2 + 1 = 3 /\ 3 + 1 = 4 /\ 4 + 1 = 5
    OBVIOUS
  <2>2. Run(t, f, 5)
    BY DEF t
  <2> QED
    BY <2>1, <2>2, RunStep
<1>3. /\ f[1] = XferCmd(f[0], 6) /\ f[2] = XferAddr(f[1], 0) /\ f[3] = XferAddr(f[2], p)
      /\ f[4] = XferAddr(f[3], 0) /\ f[5] = XferAck(f[4])
  BY <1>1, <1>2, AccessIs
<1>4. /\ f[1].xphase = 6 /\ f[1].xcnt = 0 /\ f[1].xcmd = "SEQIN" /\ DOMAIN f[1].xaddr = 1..3
      /\ f[1].state = f[0].state /\ f[1].pbuf = f[0].pbuf /\ f[1].plen = f[0].plen
  BY <1>2, <1>3 DEF XferCmd, Chip, Fields
<1>5. Latched(f[1], f[2], 0)
  BY <1>2, <1>3, <1>4, AddressByte
<1>6. /\ f[2].xphase = 6 /\ f[2].xcnt = 1 /\ f[2].xcmd = "SEQIN" /\ DOMAIN f[2].xaddr = 1..3
      /\ f[2].state = f[0].state /\ f[2].pbuf = f[0].pbuf /\ f[2].plen = f[0].plen
  BY <1>4, <1>5 DEF Latched
<1>7. Latched(f[2], f[3], p)
  BY <1>2, <1>3, <1>6, AddressByte
<1>8. /\ f[3].xphase = 6 /\ f[3].xcnt = 2 /\ f[3].xcmd = "SEQIN" /\ DOMAIN f[3].xaddr = 1..3
      /\ f[3].state = f[0].state /\ f[3].pbuf = f[0].pbuf /\ f[3].plen = f[0].plen
      /\ f[3].xaddr[2] = p
  BY <1>6, <1>7 DEF Latched
<1>9. Latched(f[3], f[4], 0)
  BY <1>2, <1>3, <1>8, AddressByte
<1>10. /\ f[4].xphase = 6 /\ f[4].xcnt = 3 /\ f[4].xcmd = "SEQIN"
       /\ f[4].state = f[0].state /\ f[4].pbuf = f[0].pbuf /\ f[4].plen = f[0].plen
       /\ f[4].xaddr[2] = p
  BY <1>8, <1>9 DEF Latched
<1> DEFINE n == f[4]
           r == [n EXCEPT !.ready = TRUE]
           x1 == n.xaddr[1]
           x2 == n.xaddr[2]
<1>11. f[5] = [r EXCEPT !.page = x2, !.col = x1]
  BY <1>3, <1>10 DEF XferAck, Addressed
<1>12. Chip(n) /\ x2 = p
  BY <1>2, <1>10
<1> HIDE DEF n, x1, x2
<1>13. /\ f[5].page = x2 /\ f[5].state = n.state /\ f[5].pbuf = n.pbuf /\ f[5].plen = n.plen
       /\ f[5].xcmd = n.xcmd /\ f[5].xcnt = n.xcnt /\ f[5].xaddr = n.xaddr
  BY <1>11, <1>12 DEF Chip, Fields
<1> QED
  BY <1>2, <1>10, <1>12, <1>13 DEF n

Holds(pbuf, data, k) == DOMAIN pbuf = 0..PageCells - 1 /\ \A c \in 0..k - 1 : pbuf[c] = data[c + 1]

\* One more word of the data in the buffer.
LEMMA Grown ==
    ASSUME NEW pbuf, NEW data, NEW k \in Nat, k < PageCells, Holds(pbuf, data, k),
           NEW v, v = data[k + 1]
    PROVE  Holds([pbuf EXCEPT ![k] = v], data, k + 1)
<1> DEFINE b == [pbuf EXCEPT ![k] = v]
<1>1. k \in 0..PageCells - 1
  BY DEF PageCells
<1>2. DOMAIN b = 0..PageCells - 1 /\ b[k] = v /\ \A c \in 0..PageCells - 1 : c # k => b[c] = pbuf[c]
  BY <1>1 DEF Holds
<1> HIDE DEF b
<1>3. ASSUME NEW c \in 0..(k + 1) - 1 PROVE b[c] = data[c + 1]
  <2>1. CASE c = k
    BY <1>2, <2>1
  <2>2. CASE c # k
    <3>1. c \in 0..k - 1 /\ c \in 0..PageCells - 1
      BY <1>1, <2>2 DEF PageCells
    <3> QED BY <1>2, <2>2, <3>1 DEF Holds
  <2> QED BY <2>1, <2>2
<1> QED
  BY <1>2, <1>3 DEF b, Holds

\* A stream into the buffer from b on, i words on.
StreamWords(n, p, data, b, i, limit) ==
    /\ ProgramReady(n, p, data, b + i)
    /\ n.xmode \in {6, 7} /\ n.sbase = b /\ n.slim = limit /\ n.scur = i

\* One byte streamed through the engine's window is the buffer's next.
LEMMA StreamWord ==
    ASSUME NEW n, NEW p, NEW data, NEW b \in Nat, NEW i \in Nat, NEW limit \in Nat \ {0}, i < limit,
           b + i < PageCells, StreamWords(n, p, data, b, i, limit), NEW v, v = data[b + i + 1]
    PROVE  StreamWords(StreamWrite(n, v), p, data, b, i + 1, limit)
<1> DEFINE k == b + i
           m == StreamWrite(n, v)
           l == k + 1
           c == i + 1
           nb == [n.pbuf EXCEPT ![k] = v]
           o == [n EXCEPT !.pbuf = nb, !.plen = l, !.scur = c]
<1>1. /\ Chip(n) /\ n.state = "program" /\ n.page = p /\ n.plen = k /\ DOMAIN n.pbuf = 0..PageCells - 1
      /\ \A j \in 0..k - 1 : n.pbuf[j] = data[j + 1]
      /\ n.xmode \in {6, 7} /\ n.sbase = b /\ n.slim = limit /\ n.scur = i
  BY DEF StreamWords, ProgramReady, Buffered
<1>2. n.xmode \in {6, 7} /\ n.slim # 0 /\ n.scur < n.slim /\ n.sbase + n.scur = k
  BY <1>1
<1>3. m = [n EXCEPT !.pbuf = nb, !.plen = IF k + 1 > n.plen THEN k + 1 ELSE n.plen, !.scur = i + 1]
  BY <1>1, <1>2 DEF StreamWrite
<1>4. (IF k + 1 > n.plen THEN k + 1 ELSE n.plen) = l
  BY <1>1
<1>5. m = o
  BY <1>3, <1>4
<1>6. Holds(nb, data, k + 1)
  <2>1. k \in Nat /\ k < PageCells
    OBVIOUS
  <2> HIDE DEF k
  <2>2. v = data[k + 1]
    BY DEF k
  <2>3. Holds(n.pbuf, data, k)
    BY <1>1 DEF Holds
  <2> QED BY <2>1, <2>2, <2>3, Grown
<1>7. l = b + c /\ l - 1 = (k + 1) - 1
  OBVIOUS
<1> HIDE DEF nb, l, c, m
<1>8. /\ Chip(o) /\ o.state = n.state /\ o.page = n.page /\ o.pbuf = nb /\ o.plen = l
      /\ o.xmode = n.xmode /\ o.sbase = n.sbase /\ o.slim = n.slim /\ o.scur = c
  BY <1>1 DEF Chip, Fields
<1> HIDE DEF o
<1>9. Buffered(o, data, l)
  BY <1>6, <1>8 DEF Buffered, Holds, l
<1>10. StreamWords(o, p, data, b, c, limit)
  BY <1>1, <1>7, <1>8, <1>9 DEF StreamWords, ProgramReady
<1> QED
  BY <1>5, <1>10 DEF c, m

\* So a run of streamed bytes extends the buffer by them, in their order.
LEMMA StreamChunk ==
    ASSUME NEW t, NEW f, NEW c \in Nat, Run(t, f, c), NEW p, NEW data, NEW b \in Nat,
           NEW limit \in Nat \ {0}, c <= limit, b + c <= PageCells,
           \A i \in 1..c : t[i] = W("Stream", data[b + i]),
           StreamWords(f[0], p, data, b, 0, limit)
    PROVE  StreamWords(f[c], p, data, b, c, limit)
<1> DEFINE S == {i \in 0..c : StreamWords(f[i], p, data, b, i, limit)}
<1>1. 0 \in S
  OBVIOUS
<1>2. ASSUME NEW i \in 0..c - 1, i \in S PROVE i + 1 \in S
  <2>1. i \in Nat /\ i < c /\ i + 1 \in 0..c /\ i + 1 \in 1..c /\ i < limit /\ b + i < PageCells
    BY DEF PageCells
  <2>2. f[i + 1] = Access(f[i], t[i + 1])
    BY <2>1, RunStep
  <2>3. t[i + 1] = W("Stream", data[b + (i + 1)]) /\ b + (i + 1) = b + i + 1
    BY <2>1
  <2>4. f[i + 1] = StreamWrite(f[i], data[b + i + 1])
    BY <2>2, <2>3, AccessIs
  <2>5. StreamWords(f[i], p, data, b, i, limit)
    BY <1>2
  <2>6. StreamWords(f[i + 1], p, data, b, i + 1, limit)
    BY <2>1, <2>4, <2>5, StreamWord
  <2> QED BY <2>1, <2>6
<1>3. \A i \in 0..c : i \in S
  <2> HIDE DEF S
  <2> QED BY <1>1, <1>2, UpTo
<1>4. c \in S
  BY <1>3
<1> QED
  BY <1>4

\* One more word by the program buffer's own pointer.
LEMMA AppendWord ==
    ASSUME NEW n, NEW p, NEW data, NEW i \in Nat, i < PageCells, ProgramReady(n, p, data, i),
           NEW v, v = data[i + 1]
    PROVE  LET m == ProgramAppend(n, v) IN ProgramReady(m, p, data, i + 1) /\ m.dio = n.dio
<1> DEFINE m == ProgramAppend(n, v)
           l == i + 1
           nb == [n.pbuf EXCEPT ![i] = v]
           o == [n EXCEPT !.pbuf = nb, !.plen = l]
<1>1. /\ Chip(n) /\ n.state = "program" /\ n.page = p /\ n.plen = i /\ DOMAIN n.pbuf = 0..PageCells - 1
      /\ \A j \in 0..i - 1 : n.pbuf[j] = data[j + 1]
  BY DEF ProgramReady, Buffered
<1>2. m = o
  BY <1>1 DEF ProgramAppend, PageCells
<1>3. Holds(nb, data, i + 1)
  <2>1. Holds(n.pbuf, data, i)
    BY <1>1 DEF Holds
  <2> QED BY <2>1, Grown
<1> HIDE DEF nb, l, m
<1>4. Chip(o) /\ o.state = n.state /\ o.page = n.page /\ o.pbuf = nb /\ o.plen = l /\ o.dio = n.dio
  BY <1>1 DEF Chip, Fields
<1> HIDE DEF o
<1>5. ProgramReady(o, p, data, l)
  BY <1>1, <1>3, <1>4 DEF ProgramReady, Buffered, Holds, l
<1> QED
  BY <1>2, <1>4, <1>5 DEF l, m

\* And a run of bytes written to the legacy data port.
LEMMA PortChunk ==
    ASSUME NEW t, NEW f, NEW c \in Nat, c <= PageCells, Run(t, f, c), NEW p, NEW data,
           \A i \in 1..c : t[i] = W("Data", data[i]),
           ProgramReady(f[0], p, data, 0)
    PROVE  ProgramReady(f[c], p, data, c)
<1> DEFINE S == {i \in 0..c : ProgramReady(f[i], p, data, i)}
<1>1. 0 \in S
  OBVIOUS
<1>2. ASSUME NEW i \in 0..c - 1, i \in S PROVE i + 1 \in S
  <2>1. i \in Nat /\ i < c /\ i + 1 \in 0..c /\ i + 1 \in 1..c /\ i < PageCells
    BY DEF PageCells
  <2>2. f[i + 1] = Access(f[i], t[i + 1]) /\ ProgramReady(f[i], p, data, i)
    BY <1>2, <2>1, RunStep
  <2>3. t[i + 1] = W("Data", data[i + 1])
    BY <2>1
  <2>4. f[i + 1] = ProgramAppend(f[i], data[i + 1])
    BY <2>2, <2>3, AccessIs DEF ProgramReady
  <2>5. ProgramReady(f[i + 1], p, data, i + 1)
    BY <2>1, <2>2, <2>4, AppendWord
  <2> QED BY <2>1, <2>5
<1>3. \A i \in 0..c : i \in S
  <2> HIDE DEF S
  <2> QED BY <1>1, <1>2, UpTo
<1>4. c \in S
  BY <1>3
<1> QED
  BY <1>4

\* A word on the direct I/O port's data line.
LEMMA DioWord ==
    ASSUME NEW n, NEW p, NEW data, NEW i \in Nat, i < PageCells, ProgramReady(n, p, data, i),
           n.dio = "data", NEW v, v = data[i + 1]
    PROVE  ProgramReady(DioWrite(n, v), p, data, i + 1)
<1> DEFINE m == ProgramAppend(n, v)
           e == v # {}
           o == [m EXCEPT !.echo = e]
<1>1. ProgramReady(m, p, data, i + 1)
  BY AppendWord
<1>2. DioWrite(n, v) = o
  BY DEF DioWrite, DioData, ProgramReady
<1> HIDE DEF m, e
<1>3. Chip(m)
  BY <1>1 DEF ProgramReady
<1>4. Chip(o) /\ o.state = m.state /\ o.page = m.page /\ o.pbuf = m.pbuf /\ o.plen = m.plen
  BY <1>3 DEF Chip, Fields
<1> HIDE DEF o
<1>5. ProgramReady(o, p, data, i + 1)
  BY <1>1, <1>4 DEF ProgramReady, Buffered
<1> QED
  BY <1>2, <1>5

\* And a run of bytes on the data line of the direct I/O register.
LEMMA DioChunk ==
    ASSUME NEW t, NEW f, NEW c \in Nat, c <= PageCells, Size(t) = c + 1, Run(t, f, c + 1),
           NEW p, NEW data, t[1] = W("DioCtrl", "data"),
           \A i \in 1..c : t[i + 1] = W("Dio", data[i]),
           ProgramReady(f[0], p, data, 0)
    PROVE  ProgramReady(f[c + 1], p, data, c)
<1> DEFINE S == {i \in 0..c : ProgramReady(f[i + 1], p, data, i)}
<1>0. DioPiece(t, "data")
  <2>1. \A i \in 2..c + 1 : i - 1 \in 1..c /\ (i - 1) + 1 = i
    OBVIOUS
  <2>2. \A i \in 2..c + 1 : t[i] = W("Dio", data[i - 1])
    BY <2>1
  <2> QED BY <2>2 DEF DioPiece
<1>1. 0 \in S
  <2>1. 0 < c + 1 /\ 0 + 1 = 1 /\ c + 1 \in Nat /\ 0 \in 0..c
    OBVIOUS
  <2>2. f[1] = Access(f[0], t[1]) /\ Chip(f[0]) /\ Chip(f[1])
    BY <2>1, RunStep
  <2> DEFINE l == "data"
             o == [f[0] EXCEPT !.dio = l]
  <2>3. f[1] = o
    BY <2>2, AccessIs
  <2> HIDE DEF l
  <2>4. o.state = f[0].state /\ o.page = f[0].page /\ o.pbuf = f[0].pbuf /\ o.plen = f[0].plen
    BY <2>2 DEF Chip, Fields
  <2> HIDE DEF o
  <2>5. ProgramReady(f[1], p, data, 0)
    BY <2>2, <2>3, <2>4 DEF ProgramReady, Buffered
  <2> QED BY <2>1, <2>5
<1>2. ASSUME NEW i \in 0..c - 1, i \in S PROVE i + 1 \in S
  <2>1. /\ i \in Nat /\ i + 1 \in Nat /\ i + 1 < c + 1 /\ i + 1 \in 0..c /\ i + 1 \in 1..c /\ i < PageCells
        /\ c + 1 \in 1..Size(t) /\ i + 1 \in 1..c + 1 /\ c + 1 \in Nat
    BY DEF PageCells
  <2>2. f[(i + 1) + 1] = Access(f[i + 1], t[(i + 1) + 1]) /\ ProgramReady(f[i + 1], p, data, i)
    BY <1>2, <2>1, RunStep
  <2>3. t[(i + 1) + 1] = W("Dio", data[i + 1])
    BY <2>1
  <2>4. f[(i + 1) + 1] = DioWrite(f[i + 1], data[i + 1])
    BY <2>2, <2>3, AccessIs
  <2>5. f[i + 1].dio = "data"
    BY <1>0, <2>1, DioAlong
  <2>6. ProgramReady(f[(i + 1) + 1], p, data, i + 1)
    BY <2>1, <2>2, <2>4, <2>5, DioWord
  <2> QED BY <2>1, <2>6
<1>3. \A i \in 0..c : i \in S
  <2> HIDE DEF S
  <2> QED BY <1>1, <1>2, UpTo
<1>4. c \in S
  BY <1>3
<1> QED
  BY <1>4

\* The modes that open the two halves of the write window.
LEMMA WriteModes ==
    ASSUME NEW n, NEW p, NEW data, NEW k, ProgramReady(n, p, data, k)
    PROVE  /\ n.xcmd = "SEQIN" /\ n.xcnt = 3 /\ n.xaddr[2] = p /\ k = 0
                => StreamWords(XferMode(n, 7), p, data, 0, 0, BurstCells)
           /\ ProgramReady(XferMode(n, 6), p, data, k)
           /\ k = BurstCells => StreamWords(XferMode(n, 6), p, data, BurstCells, 0, 1)
<1>0. ASSUME NEW mode \in {6, 7}
      PROVE  LET b == n.burst \/ mode = 1
                 m == [n EXCEPT !.xmode = mode, !.ready = TRUE, !.burst = b]
             IN /\ Chip(m) /\ m.state = n.state /\ m.page = n.page /\ m.pbuf = n.pbuf /\ m.plen = n.plen
                /\ m.xcmd = n.xcmd /\ m.xcnt = n.xcnt /\ m.xaddr = n.xaddr /\ m.xmode = mode
  <2> DEFINE b == n.burst \/ mode = 1
             m == [n EXCEPT !.xmode = mode, !.ready = TRUE, !.burst = b]
  <2>1. Chip(n)
    BY DEF ProgramReady
  <2> HIDE DEF b
  <2>2. /\ Chip(m) /\ m.state = n.state /\ m.page = n.page /\ m.pbuf = n.pbuf /\ m.plen = n.plen
        /\ m.xcmd = n.xcmd /\ m.xcnt = n.xcnt /\ m.xaddr = n.xaddr /\ m.xmode = mode
    BY <2>1 DEF Chip, Fields
  <2> QED BY <2>2 DEF b
<1>1. ASSUME NEW m, Chip(m), NEW base, NEW limit
      PROVE  LET w == WriteWindow(m, base, limit) IN
             /\ Chip(w) /\ w.state = m.state /\ w.page = m.page /\ w.pbuf = m.pbuf /\ w.plen = m.plen
             /\ w.xmode = m.xmode /\ w.sbase = base /\ w.scur = 0 /\ w.slim = limit
  BY <1>1 DEF WriteWindow, Chip, Fields
<1>2. /\ ProgramReady(XferMode(n, 6), p, data, k)
      /\ k = BurstCells => StreamWords(XferMode(n, 6), p, data, BurstCells, 0, 1)
  <2> DEFINE b == n.burst \/ 6 = 1
             m == [n EXCEPT !.xmode = 6, !.ready = TRUE, !.burst = b]
             w == WriteWindow(m, BurstCells, 1)
  <2>1. XferMode(n, 6) = w
    BY DEF XferMode
  <2>2. /\ Chip(m) /\ m.state = n.state /\ m.page = n.page /\ m.pbuf = n.pbuf /\ m.plen = n.plen
        /\ m.xmode = 6
    BY <1>0
  <2> HIDE DEF m
  <2>3. /\ Chip(w) /\ w.state = m.state /\ w.page = m.page /\ w.pbuf = m.pbuf /\ w.plen = m.plen
        /\ w.xmode = m.xmode /\ w.sbase = BurstCells /\ w.scur = 0 /\ w.slim = 1
    BY <1>1, <2>2
  <2> HIDE DEF w
  <2>4. ProgramReady(w, p, data, k)
    BY <2>2, <2>3 DEF ProgramReady, Buffered
  <2>5. k = BurstCells => k = BurstCells + 0
    BY DEF BurstCells, PageCells
  <2> HIDE DEF b
  <2>6. k = BurstCells => StreamWords(w, p, data, BurstCells, 0, 1)
    BY <2>2, <2>3, <2>4, <2>5 DEF StreamWords
  <2> QED BY <2>1, <2>4, <2>6
<1>3. ASSUME n.xcmd = "SEQIN", n.xcnt = 3, n.xaddr[2] = p, k = 0
      PROVE  StreamWords(XferMode(n, 7), p, data, 0, 0, BurstCells)
  <2> DEFINE b == n.burst \/ 7 = 1
             m == [n EXCEPT !.xmode = 7, !.ready = TRUE, !.burst = b]
             x1 == m.xaddr[1]
             x2 == m.xaddr[2]
             o == [m EXCEPT !.page = x2, !.col = x1]
             w == WriteWindow(o, 0, BurstCells)
  <2>1. XferMode(n, 7) = WriteWindow(LatchAddr(m), 0, BurstCells)
    BY DEF XferMode
  <2>2. /\ Chip(m) /\ m.state = n.state /\ m.page = n.page /\ m.pbuf = n.pbuf /\ m.plen = n.plen
        /\ m.xcmd = n.xcmd /\ m.xcnt = n.xcnt /\ m.xaddr = n.xaddr /\ m.xmode = 7
    BY <1>0
  <2> HIDE DEF m
  <2>3. LatchAddr(m) = o /\ x2 = p
    BY <1>3, <2>2 DEF LatchAddr, Addressed
  <2> HIDE DEF x1, x2
  <2>4. /\ Chip(o) /\ o.state = m.state /\ o.page = x2 /\ o.pbuf = m.pbuf /\ o.plen = m.plen
        /\ o.xmode = m.xmode
    BY <2>2 DEF Chip, Fields
  <2> HIDE DEF o
  <2>5. /\ Chip(w) /\ w.state = o.state /\ w.page = o.page /\ w.pbuf = o.pbuf /\ w.plen = o.plen
        /\ w.xmode = o.xmode /\ w.sbase = 0 /\ w.scur = 0 /\ w.slim = BurstCells
    BY <1>1, <2>4
  <2> HIDE DEF w
  <2>6. ProgramReady(w, p, data, 0)
    BY <1>3, <2>2, <2>3, <2>4, <2>5 DEF ProgramReady, Buffered
  <2>7. 0 + 0 = 0
    OBVIOUS
  <2>8. StreamWords(w, p, data, 0, 0, BurstCells)
    BY <2>2, <2>4, <2>5, <2>6, <2>7 DEF StreamWords
  <2> QED BY <2>1, <2>3, <2>8 DEF w
<1> QED
  BY <1>2, <1>3

--------------------------------------------------------------------------------
(* Programming: the data, by each route.                                   *)

FrontSize(data) == IF Len(data) < BurstCells THEN Len(data) ELSE BurstCells
Bytes(to, data, o, c) == [i \in 1..c |-> W(to, data[o + i])]

\* The accesses that write a stretch of the data.
LEMMA WordsListed ==
    ASSUME NEW to, NEW data, NEW o \in Nat, NEW c \in Nat
    PROVE  /\ Listed(Bytes(to, data, o, c)) /\ Size(Bytes(to, data, o, c)) = c
           /\ \A i \in 1..c : Bytes(to, data, o, c)[i] = W(to, data[o + i])
<1> DEFINE t == Bytes(to, data, o, c)
<1>1. t = [i \in 1..c |-> t[i]]
  BY DEF Bytes
<1>2. \A i \in 1..c : t[i] = W(to, data[o + i])
  BY DEF Bytes
<1> HIDE DEF t
<1>3. Listed(t) /\ Size(t) = c
  BY <1>1, ListedIs
<1> QED
  BY <1>2, <1>3 DEF t

\* The sizes of the two parts in which the engine takes the data.
LEMMA DataSizes ==
    ASSUME NEW data, DataType(data)
    PROVE  /\ Len(data) \in 0..4 /\ FrontSize(data) \in 0..3 /\ Len(data) - FrontSize(data) \in 0..1
           /\ FrontSize(data) <= Len(data)
           /\ Len(data) - FrontSize(data) = 1 => FrontSize(data) = BurstCells
           /\ data \in Seq(SUBSET Bits) /\ DOMAIN data = 1..Len(data)
<1>1. Len(data) \in 0..4
  BY DEF DataType, PageCells
<1>2. data \in Seq(SUBSET Bits) /\ DOMAIN data = 1..Len(data)
  BY <1>1 DEF DataType
<1> DEFINE L == Len(data)
           F == FrontSize(data)
<1>3. F = IF L < 3 THEN L ELSE 3
  BY DEF FrontSize, BurstCells, PageCells
<1>4. BurstCells = 3
  BY DEF BurstCells, PageCells
<1>5. L \in 0..4
  BY <1>1
<1> HIDE DEF L, F
<1>6. F \in 0..3 /\ L - F \in 0..1 /\ F <= L /\ (L - F = 1 => F = BurstCells)
  BY <1>3, <1>4, <1>5
<1> QED
  BY <1>2, <1>5, <1>6 DEF L, F

\* The places of a subsequence.
LEMMA Sliced ==
    ASSUME NEW S, NEW s \in Seq(S), NEW m \in Int, NEW n \in Int, 1 <= m, n <= Len(s), NEW c \in Nat,
           c = IF m <= n THEN n - m + 1 ELSE 0
    PROVE  DOMAIN SubSeq(s, m, n) = 1..c /\ \A i \in 1..c : SubSeq(s, m, n)[i] = s[m + i - 1]
<1> DEFINE t == SubSeq(s, m, n)
           l == Len(s)
<1>1. l \in Nat /\ \A i \in 1..l : s[i] \in S
  OBVIOUS
<1>2. \A i \in m..n : i \in 1..l
  <2>1. n <= l
    OBVIOUS
  <2> HIDE DEF l
  <2> QED BY <1>1, <2>1
<1>3. \A i \in m..n : s[i] \in S
  <2> HIDE DEF l
  <2> QED BY <1>1, <1>2
<1>4. /\ t \in Seq(S) /\ Len(t) = IF m <= n THEN n - m + 1 ELSE 0
      /\ \A i \in 1..n - m + 1 : t[i] = s[m + i - 1]
  BY <1>3, SubSeqProperties
<1> HIDE DEF t
<1>5. DOMAIN t = 1..c
  BY <1>4
<1>6. \A i \in 1..c : i \in 1..n - m + 1
  OBVIOUS
<1> QED
  BY <1>4, <1>5, <1>6 DEF t

\* How the data is sent, route by route.
LEMMA SentData ==
    ASSUME NEW data, DataType(data)
    PROVE  /\ SendData("xfer", data) =
                Cat(Cat(Cat(<<W("XferMode", 7)>>, Bytes("Stream", data, 0, FrontSize(data))),
                        <<W("XferMode", 6)>>),
                    Bytes("Stream", data, BurstCells, Len(data) - FrontSize(data)))
           /\ SendData("dio", data) = Cat(<<W("DioCtrl", "data")>>, Bytes("Dio", data, 0, Len(data)))
           /\ SendData("port", data) = Bytes("Data", data, 0, Len(data))
<1> DEFINE L == Len(data)
           F == FrontSize(data)
           front == SubSeq(data, 1, F)
           back == SubSeq(data, BurstCells + 1, L)
<1>1. /\ L \in 0..4 /\ F \in 0..3 /\ L - F \in 0..1 /\ F <= L /\ (L - F = 1 => F = BurstCells)
      /\ data \in Seq(SUBSET Bits) /\ DOMAIN data = 1..L
  BY DataSizes
<1>2. DOMAIN front = 1..F /\ \A i \in 1..F : front[i] = data[i]
  <2>1. F = (IF 1 <= F THEN F - 1 + 1 ELSE 0) /\ F \in Nat /\ F \in Int /\ F <= L /\ 1 \in Int /\ 1 <= 1
    BY <1>1
  <2> HIDE DEF F
  <2>2. DOMAIN front = 1..F /\ \A i \in 1..F : front[i] = data[1 + i - 1]
    BY <1>1, <2>1, Sliced
  <2>3. \A i \in 1..F : 1 + i - 1 = i
    BY <2>1
  <2> HIDE DEF front
  <2> QED BY <2>2, <2>3
<1>3. DOMAIN back = 1..L - F /\ \A i \in 1..L - F : back[i] = data[BurstCells + i]
  <2> DEFINE q == BurstCells + 1
             c == L - F
  <2>1. BurstCells = 3
    BY DEF BurstCells, PageCells
  <2>2. F = IF L < 3 THEN L ELSE 3
    BY <2>1 DEF FrontSize
  <2>3. c = (IF q <= L THEN L - q + 1 ELSE 0) /\ c \in Nat /\ q \in Int /\ 1 <= q /\ L \in Int /\ L <= L
    <3> HIDE DEF L, F
    <3> QED BY <1>1, <2>1, <2>2
  <2>4. \A i \in 1..c : q + i - 1 = BurstCells + i
    <3> HIDE DEF L, F
    <3> QED BY <1>1, <2>1
  <2> HIDE DEF q, c
  <2>5. DOMAIN SubSeq(data, q, L) = 1..c /\ \A i \in 1..c : SubSeq(data, q, L)[i] = data[q + i - 1]
    BY <1>1, <2>3, Sliced
  <2>6. back = SubSeq(data, q, L)
    BY DEF q
  <2> HIDE DEF back
  <2> QED BY <2>4, <2>5, <2>6 DEF c
<1> DEFINE fr == [i \in DOMAIN front |-> W("Stream", front[i])]
           ba == [i \in DOMAIN back |-> W("Stream", back[i])]
           dio == [i \in DOMAIN data |-> W("Dio", data[i])]
           port == [i \in DOMAIN data |-> W("Data", data[i])]
           m7 == <<W("XferMode", 7)>>
           m6 == <<W("XferMode", 6)>>
           dc == <<W("DioCtrl", "data")>>
<1>4. SendData("xfer", data) = m7 \o fr \o m6 \o ba
  BY DEF SendData, FrontSize
<1>5. SendData("dio", data) = dc \o dio
  BY DEF SendData
<1>6. SendData("port", data) = port
  BY DEF SendData
<1> HIDE DEF L, F
<1>7. fr = Bytes("Stream", data, 0, F) /\ ba = Bytes("Stream", data, BurstCells, L - F)
  <2> HIDE DEF front, back
  <2>1. \A i \in 1..F : front[i] = data[0 + i]
    BY <1>1, <1>2
  <2>2. fr = Bytes("Stream", data, 0, F)
    BY <1>2, <2>1 DEF Bytes
  <2>3. ba = Bytes("Stream", data, BurstCells, L - F)
    BY <1>3 DEF Bytes
  <2> QED BY <2>2, <2>3
<1>8. dio = Bytes("Dio", data, 0, L) /\ port = Bytes("Data", data, 0, L)
  <2>1. \A i \in 1..L : data[i] = data[0 + i]
    BY <1>1
  <2> QED BY <1>1, <2>1 DEF Bytes
<1> HIDE DEF fr, ba, dio, port, m7, m6, dc
<1> QED
  BY <1>4, <1>5, <1>6, <1>7, <1>8 DEF Cat, L, F, m7, m6, dc

\* Sent through the engine, the data fills the buffer.
LEMMA XferDataRun ==
    ASSUME NEW data, DataType(data), NEW p, NEW f,
           Run(SendData("xfer", data), f, Size(SendData("xfer", data))),
           ProgramReady(f[0], p, data, 0), f[0].xcmd = "SEQIN", f[0].xcnt = 3, f[0].xaddr[2] = p
    PROVE  ProgramReady(f[Size(SendData("xfer", data))], p, data, Len(data))
<1> DEFINE L == Len(data)
           F == FrontSize(data)
           m7 == <<W("XferMode", 7)>>
           m6 == <<W("XferMode", 6)>>
           fr == Bytes("Stream", data, 0, F)
           ba == Bytes("Stream", data, BurstCells, L - F)
           a == Cat(m7, fr)
           b == Cat(a, m6)
           t == Cat(b, ba)
<1>0. SendData("xfer", data) = t
  BY SentData
<1>1. /\ L \in 0..4 /\ F \in 0..3 /\ L - F \in 0..1 /\ F <= L /\ (L - F = 1 => F = BurstCells)
  BY DataSizes
<1>2. /\ Listed(m7) /\ Size(m7) = 1 /\ m7[1] = W("XferMode", 7)
      /\ Listed(m6) /\ Size(m6) = 1 /\ m6[1] = W("XferMode", 6)
  BY OneListed
<1> HIDE DEF L, F
<1>3. /\ Listed(fr) /\ Size(fr) = F /\ \A i \in 1..F : fr[i] = W("Stream", data[0 + i])
  BY <1>1, WordsListed
<1>4. /\ Listed(ba) /\ Size(ba) = L - F /\ \A i \in 1..L - F : ba[i] = W("Stream", data[BurstCells + i])
  BY <1>1, WordsListed DEF BurstCells, PageCells
<1> HIDE DEF fr, ba, m6, m7
<1>5. Listed(a) /\ Size(a) = 1 + F
  BY <1>2, <1>3, JoinedBy
<1>6. Listed(b) /\ Size(b) = (1 + F) + 1
  BY <1>2, <1>5, JoinedBy
<1>7. Listed(t) /\ Size(t) = ((1 + F) + 1) + (L - F)
  BY <1>4, <1>6, JoinedBy
<1> DEFINE z == Size(t)
           o == (1 + F) + 1
           s == 1 + F
<1>8. z \in 0..Size(b) + Size(ba) /\ z >= Size(b) /\ z = o + (L - F) /\ z - o = L - F
  BY <1>1, <1>4, <1>6, <1>7
<1>9. /\ Run(b, f, o) /\ Run(ba, Shifted(f, o, z), L - F)
      /\ Shifted(f, o, z)[L - F] = f[z] /\ Shifted(f, o, z)[0] = f[o]
  <2>1. Run(t, f, z)
    BY <1>0
  <2> HIDE DEF t, b, z
  <2>2. Run(Cat(b, ba), f, z)
    BY <2>1 DEF t
  <2>3. /\ Run(b, f, Size(b)) /\ Run(ba, Shifted(f, Size(b), z), z - Size(b))
        /\ Shifted(f, Size(b), z)[z - Size(b)] = f[z]
        /\ Shifted(f, Size(b), z)[0] = f[Size(b)]
    BY <1>4, <1>6, <1>8, <2>2, RunSplit
  <2> QED BY <1>6, <1>8, <2>3
<1>10. /\ Run(a, f, s) /\ f[o] = Access(f[s], m6[1])
  <2>1. o \in 0..Size(a) + Size(m6) /\ s <= Size(a) /\ s \in Nat /\ s < o /\ o \in Nat /\ s \in 0..o /\ s \in 0..Size(a) + Size(m6)
    BY <1>1, <1>2, <1>5
  <2>2. Run(Cat(a, m6), f, o)
    BY <1>9
  <2>3. Run(Cat(a, m6), f, s)
    <3>1. \A i \in 0..s : i \in 0..o
      BY <2>1
    <3>2. \A i \in 0..s - 1 : i \in 0..o - 1
      BY <2>1
    <3> HIDE DEF o, s, a
    <3> QED BY <2>2, <3>1, <3>2 DEF Run
  <2> HIDE DEF a, b
  <2>4. Run(a, f, s)
    BY <1>2, <1>5, <2>1, <2>3, RunSplit
  <2>5. f[o] = Access(f[s], Cat(a, m6)[o])
    BY <2>1, <2>2, RunStep
  <2>6. Cat(a, m6)[s + 1] = m6[1]
    <3>1. \A j \in 1..1 : Cat(a, m6)[s + j] = m6[j]
      BY <1>2, <1>5, JoinedBy
    <3> QED BY <3>1
  <2> QED BY <2>4, <2>5, <2>6
<1>11. /\ f[1] = Access(f[0], m7[1]) /\ Run(fr, Shifted(f, 1, s), F)
       /\ Shifted(f, 1, s)[F] = f[s] /\ Shifted(f, 1, s)[0] = f[1]
  <2>1. s \in 0..Size(m7) + Size(fr) /\ s >= Size(m7) /\ s - 1 = F /\ s \in Nat /\ 0 < s /\ 0 + 1 = 1
    BY <1>1, <1>2, <1>3
  <2>2. Run(Cat(m7, fr), f, s)
    BY <1>10
  <2> HIDE DEF s
  <2>3. /\ Run(fr, Shifted(f, Size(m7), s), s - Size(m7))
        /\ Shifted(f, Size(m7), s)[s - Size(m7)] = f[s]
        /\ Shifted(f, Size(m7), s)[0] = f[Size(m7)]
    BY <1>2, <1>3, <2>1, <2>2, RunSplit
  <2>4. f[1] = Access(f[0], Cat(m7, fr)[1])
    BY <2>1, <2>2, RunStep
  <2>5. Cat(m7, fr)[1] = m7[1]
    <3>1. \A j \in 1..1 : Cat(m7, fr)[j] = m7[j]
      BY <1>2, <1>3, JoinedBy
    <3> QED BY <3>1
  <2> QED BY <1>2, <2>1, <2>3, <2>4, <2>5
<1> HIDE DEF s, o, z, t, b, a
<1>12. StreamWords(f[1], p, data, 0, 0, BurstCells)
  <2>1. f[1] = XferMode(f[0], 7)
    BY <1>2, <1>11, AccessIs
  <2> QED BY <2>1, WriteModes
<1>13. StreamWords(f[s], p, data, 0, F, BurstCells)
  <2> DEFINE g == Shifted(f, 1, s)
  <2>1. F \in Nat /\ F <= BurstCells /\ 0 + F <= PageCells /\ BurstCells \in Nat \ {0}
    BY <1>1 DEF BurstCells, PageCells
  <2>2. Run(fr, g, F) /\ StreamWords(g[0], p, data, 0, 0, BurstCells) /\ g[F] = f[s]
    BY <1>11, <1>12
  <2> HIDE DEF g
  <2>3. StreamWords(g[F], p, data, 0, F, BurstCells)
    BY <1>3, <2>1, <2>2, StreamChunk
  <2> QED BY <2>2, <2>3
<1>14. ProgramReady(f[s], p, data, F)
  <2>1. 0 + F = F
    BY <1>1
  <2> QED BY <1>13, <2>1 DEF StreamWords
<1>15. f[o] = XferMode(f[s], 6)
  BY <1>2, <1>10, AccessIs
<1>16. CASE L - F = 0
  <2>1. L = F
    BY <1>1, <1>16
  <2>2. f[z] = f[o]
    BY <1>9, <1>16
  <2>3. ProgramReady(f[o], p, data, F)
    BY <1>14, <1>15, WriteModes
  <2> QED BY <1>0, <2>1, <2>2, <2>3 DEF z, L
<1>17. CASE L - F = 1
  <2> DEFINE g == Shifted(f, o, z)
  <2>1. F = BurstCells /\ 1 \in Nat \ {0} /\ 1 <= 1 /\ BurstCells + 1 <= PageCells /\ BurstCells \in Nat
        /\ BurstCells + 1 = L
    BY <1>1, <1>17 DEF BurstCells, PageCells
  <2>2. StreamWords(f[o], p, data, BurstCells, 0, 1)
    BY <1>14, <1>15, <2>1, WriteModes
  <2>3. Run(ba, g, 1) /\ StreamWords(g[0], p, data, BurstCells, 0, 1) /\ g[1] = f[z]
    BY <1>9, <1>17, <2>2
  <2>4. \A i \in 1..1 : ba[i] = W("Stream", data[BurstCells + i])
    BY <1>4, <1>17
  <2> HIDE DEF g
  <2>5. StreamWords(g[1], p, data, BurstCells, 1, 1)
    BY <2>1, <2>3, <2>4, StreamChunk
  <2>6. ProgramReady(f[z], p, data, L)
    BY <2>1, <2>3, <2>5 DEF StreamWords
  <2> QED BY <1>0, <2>6 DEF z, L
<1> QED
  BY <1>1, <1>16, <1>17

\* Sent through the direct I/O register, it does too.
LEMMA DioDataRun ==
    ASSUME NEW data, DataType(data), NEW p, NEW f,
           Run(SendData("dio", data), f, Size(SendData("dio", data))), ProgramReady(f[0], p, data, 0)
    PROVE  ProgramReady(f[Size(SendData("dio", data))], p, data, Len(data))
<1> DEFINE L == Len(data)
           dc == <<W("DioCtrl", "data")>>
           ws == Bytes("Dio", data, 0, L)
           t == Cat(dc, ws)
<1>0. SendData("dio", data) = t
  BY SentData
<1>1. L \in 0..4 /\ L \in Nat /\ L <= PageCells
  BY DataSizes DEF PageCells
<1>2. Listed(dc) /\ Size(dc) = 1 /\ dc[1] = W("DioCtrl", "data")
  BY OneListed
<1> HIDE DEF L
<1>3. Listed(ws) /\ Size(ws) = L /\ \A i \in 1..L : ws[i] = W("Dio", data[0 + i])
  BY <1>1, WordsListed
<1> HIDE DEF dc, ws
<1>4. /\ Size(t) = 1 + L /\ \A i \in 1..1 : t[i] = dc[i]
      /\ \A j \in 1..L : t[1 + j] = ws[j]
  BY <1>2, <1>3, JoinedBy
<1>5. Size(t) = L + 1 /\ t[1] = W("DioCtrl", "data") /\ \A i \in 1..L : t[i + 1] = W("Dio", data[i])
  <2>1. \A i \in 1..L : 1 + i = i + 1 /\ 0 + i = i
    BY <1>1
  <2> HIDE DEF t
  <2> QED BY <1>1, <1>2, <1>3, <1>4, <2>1
<1> HIDE DEF t
<1>6. ProgramReady(f[L + 1], p, data, L)
  BY <1>0, <1>1, <1>5, DioChunk
<1> QED
  BY <1>0, <1>5, <1>6 DEF L

\* And sent through the legacy port.
LEMMA PortDataRun ==
    ASSUME NEW data, DataType(data), NEW p, NEW f,
           Run(SendData("port", data), f, Size(SendData("port", data))), ProgramReady(f[0], p, data, 0)
    PROVE  ProgramReady(f[Size(SendData("port", data))], p, data, Len(data))
<1> DEFINE L == Len(data)
           t == Bytes("Data", data, 0, L)
<1>0. SendData("port", data) = t
  BY SentData
<1>1. L \in 0..4 /\ L \in Nat /\ L <= PageCells
  BY DataSizes DEF PageCells
<1> HIDE DEF L
<1>3. Size(t) = L /\ \A i \in 1..L : t[i] = W("Data", data[0 + i])
  BY <1>1, WordsListed
<1> HIDE DEF t
<1>4. \A i \in 1..L : t[i] = W("Data", data[i])
  <2>1. \A i \in 1..L : 0 + i = i
    BY <1>1
  <2> QED BY <1>3, <2>1
<1>6. ProgramReady(f[L], p, data, L)
  BY <1>0, <1>1, <1>3, <1>4, PortChunk
<1> QED
  BY <1>0, <1>3, <1>6 DEF L

--------------------------------------------------------------------------------
(* Commands and rows on the legacy ports.                                  *)

\* m is n with one row cycle more.
RowCycle(n, m, v) ==
    /\ Chip(m) /\ m.state = n.state /\ m.pbuf = n.pbuf /\ m.plen = n.plen
    /\ m.cyc = n.cyc + 1 /\ m.dio = n.dio
    /\ m.page = IF n.cyc = 1 THEN v ELSE n.page

\* An address cycle at the legacy registers is the next of the chip's three.
LEMMA LegacyRowCycle ==
    ASSUME NEW n, Chip(n), n.state \in {"program", "erase"}, NEW v
    PROVE  /\ RowCycle(n, LegacyAddress(n, v), v)
           /\ n.dio = "ale" => RowCycle(n, DioWrite(n, v), v)
<1> DEFINE c == n.cyc + 1
           col == IF n.cyc = 0 /\ n.state = "data" THEN (IF n.col >= 1 THEN 1 ELSE 0) + v ELSE n.col
           p == IF n.cyc = 1 THEN v ELSE n.page
           a == [n EXCEPT !.cyc = c, !.col = col, !.page = p]
           m == LegacyAddress(n, v)
           e == v # 0 /\ ~ReadIsSetUp(m)
           o == [m EXCEPT !.echo = e]
<1>1. /\ Chip(a) /\ a.state = n.state /\ a.pbuf = n.pbuf /\ a.plen = n.plen /\ a.cyc = c
      /\ a.dio = n.dio /\ a.page = p
  <2> HIDE DEF c, col, p
  <2> QED BY DEF Chip, Fields
<1>2. m = IF ReadIsSetUp(a) THEN [SetupTransfer(a) EXCEPT !.ready = TRUE] ELSE a
  BY DEF LegacyAddress
<1>3. n.dio = "ale" => DioWrite(n, v) = o
  BY DEF DioWrite, DioAddress
<1> HIDE DEF a
<1>4. m = a
  BY <1>1, <1>2 DEF ReadIsSetUp
<1>5. RowCycle(n, m, v)
  <2> HIDE DEF m
  <2> QED BY <1>1, <1>4 DEF RowCycle, c, p
<1>6. RowCycle(n, o, v)
  <2> HIDE DEF m, e
  <2>1. Chip(m)
    BY <1>5 DEF RowCycle
  <2>2. /\ Chip(o) /\ o.state = m.state /\ o.pbuf = m.pbuf /\ o.plen = m.plen /\ o.cyc = m.cyc
        /\ o.dio = m.dio /\ o.page = m.page
    BY <2>1 DEF Chip, Fields
  <2> HIDE DEF o
  <2> QED BY <1>5, <2>2 DEF RowCycle
<1> QED
  BY <1>3, <1>5, <1>6

\* m is n with the row p.
RowSent(n, m, p) ==
    /\ Chip(m) /\ m.page = p /\ m.state = n.state /\ m.pbuf = n.pbuf /\ m.plen = n.plen

\* Three address cycles select the page that the second names.
LEMMA ThreeCycles ==
    ASSUME NEW n, NEW m1, NEW m2, NEW m3, NEW a, NEW p, NEW b, n.cyc = 0,
           RowCycle(n, m1, a), RowCycle(m1, m2, p), RowCycle(m2, m3, b)
    PROVE  RowSent(n, m3, p)
<1>1. m1.cyc = 1
  BY DEF RowCycle
<1>2. m2.cyc = 2 /\ m2.page = p
  BY <1>1 DEF RowCycle
<1> QED
  BY <1>1, <1>2 DEF RowCycle, RowSent

\* The page that an address at the port selects.
LEMMA PortRowRun ==
    ASSUME NEW p, NEW f, Run(PortRow(<<0, p, 0>>), f, 3), f[0].state \in {"program", "erase"},
           f[0].cyc = 0
    PROVE  RowSent(f[0], f[3], p)
<1> DEFINE t == PortRow(<<0, p, 0>>)
<1>1. t[1] = W("Address", 0) /\ t[2] = W("Address", p) /\ t[3] = W("Address", 0)
  BY PiecesListed
<1>2. Run(t, f, 3) /\ 0 + 1 = 1 /\ 1 + 1 = 2 /\ 2 + 1 = 3
  OBVIOUS
<1> HIDE DEF t
<1>3. /\ Chip(f[0]) /\ Chip(f[1]) /\ Chip(f[2])
      /\ f[1] = Access(f[0], t[1]) /\ f[2] = Access(f[1], t[2]) /\ f[3] = Access(f[2], t[3])
  BY <1>2, RunStep
<1>4. /\ f[1] = LegacyAddress(f[0], 0) /\ f[2] = LegacyAddress(f[1], p)
      /\ f[3] = LegacyAddress(f[2], 0)
  BY <1>1, <1>3, AccessIs
<1>5. RowCycle(f[0], f[1], 0)
  BY <1>3, <1>4, LegacyRowCycle
<1>6. RowCycle(f[1], f[2], p)
  <2>1. f[1].state \in {"program", "erase"}
    BY <1>5 DEF RowCycle
  <2> QED BY <1>3, <1>4, <2>1, LegacyRowCycle
<1>7. RowCycle(f[2], f[3], 0)
  <2>1. f[2].state \in {"program", "erase"}
    BY <1>5, <1>6 DEF RowCycle
  <2> QED BY <1>3, <1>4, <2>1, LegacyRowCycle
<1> QED
  BY <1>5, <1>6, <1>7, ThreeCycles

\* The page that an address on the direct I/O line selects.
LEMMA DioRowRun ==
    ASSUME NEW p, NEW f, Run(DioRow(<<0, p, 0>>), f, 4), f[0].state \in {"program", "erase"},
           f[0].cyc = 0
    PROVE  RowSent(f[0], f[4], p)
<1> DEFINE t == DioRow(<<0, p, 0>>)
<1>1. /\ t[1] = W("DioCtrl", "ale") /\ t[2] = W("Dio", 0) /\ t[3] = W("Dio", p) /\ t[4] = W("Dio", 0)
  BY RowsListed
<1>2. Run(t, f, 4) /\ 0 + 1 = 1 /\ 1 + 1 = 2 /\ 2 + 1 = 3 /\ 3 + 1 = 4
  OBVIOUS
<1> HIDE DEF t
<1>3. /\ Chip(f[0]) /\ Chip(f[1]) /\ Chip(f[2]) /\ Chip(f[3]) /\ f[1] = Access(f[0], t[1])
      /\ f[2] = Access(f[1], t[2]) /\ f[3] = Access(f[2], t[3]) /\ f[4] = Access(f[3], t[4])
  BY <1>2, RunStep
<1>4. /\ f[2] = DioWrite(f[1], 0) /\ f[3] = DioWrite(f[2], p) /\ f[4] = DioWrite(f[3], 0)
  BY <1>1, <1>3, AccessIs
<1> DEFINE l == "ale"
           o == [f[0] EXCEPT !.dio = l]
<1>5. f[1] = o
  BY <1>1, <1>3, AccessIs
<1> HIDE DEF l
<1>6. /\ o.state = f[0].state /\ o.page = f[0].page /\ o.pbuf = f[0].pbuf /\ o.plen = f[0].plen
      /\ o.cyc = f[0].cyc /\ o.dio = l
  BY <1>3 DEF Chip, Fields
<1> HIDE DEF o
<1>7. f[1].cyc = 0 /\ f[1].dio = "ale" /\ f[1].state \in {"program", "erase"}
  BY <1>5, <1>6 DEF l
<1>8. RowCycle(f[1], f[2], 0)
  BY <1>3, <1>4, <1>7, LegacyRowCycle
<1>9. RowCycle(f[2], f[3], p)
  <2>1. f[2].state \in {"program", "erase"} /\ f[2].dio = "ale"
    BY <1>7, <1>8 DEF RowCycle
  <2> QED BY <1>3, <1>4, <2>1, LegacyRowCycle
<1>10. RowCycle(f[3], f[4], 0)
  <2>1. f[3].state \in {"program", "erase"} /\ f[3].dio = "ale"
    BY <1>7, <1>8, <1>9 DEF RowCycle
  <2> QED BY <1>3, <1>4, <2>1, LegacyRowCycle
<1>11. RowSent(f[1], f[4], p)
  BY <1>7, <1>8, <1>9, <1>10, ThreeCycles
<1> QED
  BY <1>5, <1>6, <1>11 DEF RowSent

--------------------------------------------------------------------------------
(* The commands that open a program or an erase, by each route.            *)

Opening(does) == IF does = "program" THEN "SEQIN" ELSE "ERASE1"
Closing(does) == IF does = "program" THEN "PAGEPROG" ELSE "ERASE2"

\* n has taken the opening command.
Expecting(n, does, data) ==
    Chip(n) /\ IF does = "program" THEN n.state = "program" /\ Buffered(n, data, 0) ELSE n.state = "erase"
\* n waits for nothing but the closing command.
Armed(n, does, p, data) ==
    /\ Chip(n) /\ n.page = p
    /\ IF does = "program" THEN n.state = "program" /\ Buffered(n, data, Len(data)) ELSE n.state = "erase"

\* The opening command of an erase or a program leaves the chip awaiting its
\* address.
LEMMA OpeningOpens ==
    ASSUME NEW n, Chip(n), NEW does \in {"program", "erase"}, NEW data
    PROVE  LET o == Opened(n, Opening(does)) IN
           /\ Expecting(o, does, data) /\ o.cyc = n.cyc /\ o.dio = n.dio /\ o.xcmd = n.xcmd
           /\ o.xaddr = n.xaddr
<1> DEFINE o == Opened(n, Opening(does))
<1>1. CASE does = "program"
  BY <1>1, SeqinOpens DEF Opening, Expecting
<1>2. CASE does = "erase"
  <2> DEFINE e == "erase"
             q == [n EXCEPT !.state = e, !.col = n.col]
  <2>1. o = q
    BY <1>2 DEF Opening, Opened, Opens
  <2> HIDE DEF e
  <2>2. /\ Chip(q) /\ q.state = e /\ q.cyc = n.cyc /\ q.dio = n.dio
        /\ q.xcmd = n.xcmd /\ q.xaddr = n.xaddr
    BY DEF Chip, Fields
  <2> HIDE DEF q
  <2> QED BY <1>2, <2>1, <2>2 DEF Expecting, e
<1> QED
  BY <1>1, <1>2

\* So it does sent through the engine.
LEMMA XferOpeningRun ==
    ASSUME NEW does \in {"program", "erase"}, NEW f, Run(XCommand(Opening(does)), f, 3), NEW data
    PROVE  Expecting(f[3], does, data) /\ f[3].xcmd = Opening(does) /\ DOMAIN f[3].xaddr = 1..3
<1> DEFINE n == f[2]
           c == Opening(does)
           none == <<>>
           a == NoAddr
           t == [n EXCEPT !.xcmd = c]
           fresh == [[t EXCEPT !.xdata = none] EXCEPT !.xcnt = 0, !.xaddr = a]
<1>1. f[3] = XferCommand(n, c) /\ Chip(n)
  BY CommandRun
<1>2. XferCommand(n, c) = Opened(fresh, c)
  BY DEF XferCommand, Opens, Opening
<1>3. DOMAIN a = 1..3
  BY DEF NoAddr
<1> HIDE DEF none, a, c, n
<1>4. Chip(fresh) /\ fresh.xcmd = c /\ fresh.xaddr = a
  BY <1>1 DEF Chip, Fields
<1> HIDE DEF fresh
<1> DEFINE o == Opened(fresh, c)
<1>5. Expecting(o, does, data) /\ o.xcmd = fresh.xcmd /\ o.xaddr = fresh.xaddr
  BY <1>4, OpeningOpens DEF c
<1> QED
  BY <1>1, <1>2, <1>3, <1>4, <1>5 DEF c

\* And at the legacy command register.
LEMMA LegacyOpening ==
    ASSUME NEW n, Chip(n), NEW does \in {"program", "erase"}, NEW data
    PROVE  Expecting(LegacyCommand(n, Opening(does)), does, data) /\ LegacyCommand(n, Opening(does)).cyc = 0
<1> DEFINE c == Opening(does)
           t == [n EXCEPT !.cyc = 0, !.xcur = 0, !.ready = FALSE]
           o == Opened(t, c)
<1>1. LegacyCommand(n, c) = o
  BY DEF LegacyCommand, Opens, Opening
<1>2. Chip(t) /\ t.cyc = 0
  BY DEF Chip, Fields
<1> HIDE DEF t
<1>3. Expecting(o, does, data) /\ o.cyc = t.cyc
  BY <1>2, OpeningOpens
<1> QED
  BY <1>1, <1>2, <1>3

\* And at the legacy port.
LEMMA PortOpeningRun ==
    ASSUME NEW does \in {"program", "erase"}, NEW f, Run(<<W("Command", Opening(does))>>, f, 1), NEW data
    PROVE  Expecting(f[1], does, data) /\ f[1].cyc = 0
<1> DEFINE t == <<W("Command", Opening(does))>>
<1>1. t[1] = W("Command", Opening(does)) /\ Run(t, f, 1) /\ 0 + 1 = 1
  OBVIOUS
<1> HIDE DEF t
<1>2. f[1] = Access(f[0], t[1]) /\ Chip(f[0])
  BY <1>1, RunStep
<1>3. f[1] = LegacyCommand(f[0], Opening(does))
  BY <1>1, <1>2, AccessIs
<1> QED
  BY <1>2, <1>3, LegacyOpening

\* And on the command line of the direct I/O register.
LEMMA DioOpeningRun ==
    ASSUME NEW does \in {"program", "erase"}, NEW f, Run(DioLine("cle", Opening(does)), f, 2), NEW data
    PROVE  Expecting(f[2], does, data) /\ f[2].cyc = 0
<1> DEFINE c == Opening(does)
           t == DioLine("cle", c)
           cle == "cle"
           n == f[1]
           o == [f[0] EXCEPT !.dio = cle]
           m == LegacyCommand(n, c)
           e == c # "READ0"
           q == [m EXCEPT !.echo = e]
<1>1. t[1] = W("DioCtrl", "cle") /\ t[2] = W("Dio", c) /\ Run(t, f, 2) /\ 0 + 1 = 1 /\ 1 + 1 = 2
  BY PiecesListed
<1> HIDE DEF t, c
<1>2. f[1] = Access(f[0], t[1]) /\ Chip(f[0]) /\ Chip(f[1]) /\ f[2] = Access(f[1], t[2])
  BY <1>1, RunStep
<1>3. f[1] = o /\ f[2] = DioWrite(n, c)
  BY <1>1, <1>2, AccessIs
<1> HIDE DEF cle
<1>4. o.dio = cle
  BY <1>2 DEF Chip, Fields
<1>5. DioWrite(n, c) = q
  BY <1>3, <1>4 DEF DioWrite, DioCommand, cle
<1>6. Expecting(m, does, data) /\ m.cyc = 0
  BY <1>2, LegacyOpening DEF c
<1> HIDE DEF m, e
<1>7. Chip(m)
  BY <1>6 DEF Expecting
<1>8. Chip(q) /\ q.state = m.state /\ q.pbuf = m.pbuf /\ q.plen = m.plen /\ q.cyc = m.cyc
  BY <1>7 DEF Chip, Fields
<1> HIDE DEF q
<1>9. Expecting(q, does, data)
  BY <1>6, <1>8 DEF Expecting, Buffered
<1> QED
  BY <1>3, <1>5, <1>6, <1>8, <1>9

--------------------------------------------------------------------------------
(* The closing commands, by each route.                                    *)

Stored(n) == n.cells \in Flash /\ n.dirty \in BOOLEAN /\ n.oob \in BOOLEAN
Target(n, does, p, data) ==
    IF does = "program" THEN ProgramPage(n.cells, p, Padded(data), Len(data), n.oob)
    ELSE ErasePages(n.cells, Block(p))
Refuses(n, p) == n.oob /\ Bad(n.cells, Block(p))

\* The confirming command of a prepared chip carries the operation out.
LEMMA ClosingCloses ==
    ASSUME NEW n, NEW does \in {"program", "erase"}, NEW p \in Pages, NEW data, DataType(data),
           Armed(n, does, p, data), Stored(n)
    PROVE  Carries(n, Confirmed(n, Closing(does)), Target(n, does, p, data), Refuses(n, p))
<1> DEFINE refused == Refuses(n, p)
<1>1. refused \in BOOLEAN /\ refused = (n.oob /\ Bad(n.cells, Block(p)))
  BY DEF Refuses
<1>2. Chip(n) /\ n.page = p /\ n.cells \in Flash /\ n.dirty \in BOOLEAN /\ n.oob \in BOOLEAN
  BY DEF Armed, Stored
<1> HIDE DEF refused
<1>3. CASE does = "program"
  <2>1. n.state = "program" /\ Buffered(n, data, Len(data))
    BY <1>3 DEF Armed
  <2>2. Carries(n, Confirmed(n, "PAGEPROG"),
                   ProgramPage(n.cells, p, Padded(data), Len(data), n.oob), refused)
    BY <1>1, <1>2, <2>1, ProgramConfirmed
  <2> QED BY <1>3, <2>2 DEF Closing, Target, refused
<1>4. CASE does = "erase"
  <2>1. n.state = "erase"
    BY <1>4 DEF Armed
  <2>2. Carries(n, Confirmed(n, "ERASE2"), ErasePages(n.cells, Block(p)), refused)
    BY <1>1, <1>2, <2>1, EraseConfirmed
  <2> QED BY <1>4, <2>2 DEF Closing, Target, refused
<1> QED
  BY <1>3, <1>4

\* What is stored is the same, and so is what a program or an erase makes of it.
Alike(n, t) == Chip(t) /\ t.cells = n.cells /\ t.oob = n.oob /\ t.dirty = n.dirty

\* Two chips alike but for their engines carry an operation out alike.
LEMMA CarriesAlike ==
    ASSUME NEW n, NEW t, Alike(n, t), NEW m, NEW o, Alike(m, o), o.stat = m.stat,
           NEW does, NEW p, NEW data, Carries(t, m, Target(t, does, p, data), Refuses(t, p))
    PROVE  Carries(n, o, Target(n, does, p, data), Refuses(n, p))
<1>1. Target(t, does, p, data) = Target(n, does, p, data) /\ Refuses(t, p) = Refuses(n, p)
  BY DEF Target, Refuses, Alike
<1> DEFINE x == Target(n, does, p, data)
           r == Refuses(n, p)
<1>2. Carries(t, m, x, r)
  BY <1>1
<1> HIDE DEF x, r
<1>3. Carries(n, o, x, r)
  BY <1>2 DEF Carries, Alike
<1> QED
  BY <1>3 DEF x, r

\* The confirming command carries the operation out from the legacy port.
LEMMA PortCloses ==
    ASSUME NEW n, NEW does \in {"program", "erase"}, NEW p \in Pages, NEW data, DataType(data),
           Armed(n, does, p, data), Stored(n)
    PROVE  Carries(n, LegacyCommand(n, Closing(does)), Target(n, does, p, data), Refuses(n, p))
<1> DEFINE t == [n EXCEPT !.cyc = 0, !.xcur = 0, !.ready = FALSE]
           c == Closing(does)
           m == Confirmed(t, c)
<1>0. Chip(n)
  BY DEF Armed
<1>1. LegacyCommand(n, c) = m
  BY DEF LegacyCommand, Closing, Opens
<1>2. /\ Alike(n, t) /\ t.page = n.page /\ t.state = n.state /\ t.pbuf = n.pbuf /\ t.plen = n.plen
  BY <1>0 DEF Alike, Chip, Fields
<1> HIDE DEF t
<1>3. Armed(t, does, p, data) /\ Stored(t)
  BY <1>2 DEF Armed, Stored, Alike, Buffered
<1>4. Carries(t, m, Target(t, does, p, data), Refuses(t, p))
  BY <1>3, ClosingCloses
<1>5. Alike(m, m)
  BY <1>4 DEF Carries, Alike
<1> HIDE DEF m
<1> QED
  BY <1>1, <1>2, <1>4, <1>5, CarriesAlike

\* And from the direct I/O register.
LEMMA DioCloses ==
    ASSUME NEW n, NEW does \in {"program", "erase"}, NEW p \in Pages, NEW data, DataType(data),
           Armed(n, does, p, data), Stored(n), n.dio = "cle"
    PROVE  Carries(n, DioWrite(n, Closing(does)), Target(n, does, p, data), Refuses(n, p))
<1> DEFINE c == Closing(does)
           m == LegacyCommand(n, c)
           e == c # "READ0"
           q == [m EXCEPT !.echo = e]
<1>1. DioWrite(n, c) = q
  BY DEF DioWrite, DioCommand
<1>2. Carries(n, m, Target(n, does, p, data), Refuses(n, p))
  BY PortCloses
<1>3. Alike(n, n)
  BY DEF Alike, Armed
<1> HIDE DEF m, e
<1>4. Chip(m)
  BY <1>2 DEF Carries
<1>5. Alike(m, q) /\ q.stat = m.stat
  BY <1>4 DEF Alike, Chip, Fields
<1> HIDE DEF q
<1> QED
  BY <1>1, <1>2, <1>3, <1>5, CarriesAlike

\* And from the transfer engine, whose erase takes the page from its latch.
LEMMA XferCloses ==
    ASSUME NEW n, NEW does \in {"program", "erase"}, NEW p \in Pages, NEW data, DataType(data),
           Armed(n, does, p, data), Stored(n), n.xcnt = 0,
           does = "erase" => Block(p) * BlockPages = p
    PROVE  Carries(n, XferCommand(n, Closing(does)), Target(n, does, p, data), Refuses(n, p))
<1> DEFINE c == Closing(does)
           t == [n EXCEPT !.xcmd = c]
           u == [t EXCEPT !.page = p]
           q(m) == [m EXCEPT !.ready = TRUE, !.xdata = <<m.stat>>]
<1>0. Chip(n) /\ n.page = p
  BY DEF Armed
<1>1. CASE does = "program"
  <2>1. XferCommand(n, c) = q(Confirmed(t, c))
    BY <1>1 DEF XferCommand, Closing, Opens
  <2>2. /\ Alike(n, t) /\ t.page = n.page /\ t.state = n.state /\ t.pbuf = n.pbuf /\ t.plen = n.plen
    <3> HIDE DEF c
    <3> QED BY <1>0 DEF Alike, Chip, Fields
  <2> DEFINE m == Confirmed(t, c)
             x == <<m.stat>>
             o == [m EXCEPT !.ready = TRUE, !.xdata = x]
  <2>3. XferCommand(n, c) = o
    BY <2>1
  <2> HIDE DEF t, c
  <2>4. Armed(t, does, p, data) /\ Stored(t)
    BY <2>2 DEF Armed, Stored, Alike, Buffered
  <2>5. Carries(t, m, Target(t, does, p, data), Refuses(t, p))
    BY <2>4, ClosingCloses DEF c
  <2> HIDE DEF m, x
  <2>6. Alike(m, o) /\ o.stat = m.stat
    BY <2>5 DEF Carries, Alike, Chip, Fields
  <2> HIDE DEF o
  <2>7. Carries(n, o, Target(n, does, p, data), Refuses(n, p))
    BY <2>2, <2>5, <2>6, CarriesAlike
  <2> QED BY <2>3, <2>7 DEF c
<1>2. CASE does = "erase"
  <2>0. EraseStart(n) = p /\ n.state = "erase"
    BY <1>0, <1>2 DEF EraseStart, EraseRow, Armed
  <2>1. XferCommand(n, c) = q(Confirmed(u, c))
    BY <1>2, <2>0 DEF XferCommand, Closing, Opens
  <2>2. /\ Alike(n, u) /\ u.page = p /\ u.state = n.state
    <3> HIDE DEF c
    <3> QED BY <1>0 DEF Alike, Chip, Fields
  <2> DEFINE m == Confirmed(u, c)
             x == <<m.stat>>
             o == [m EXCEPT !.ready = TRUE, !.xdata = x]
  <2>3. XferCommand(n, c) = o
    BY <2>1
  <2> HIDE DEF u, c
  <2>4. Armed(u, does, p, data) /\ Stored(u)
    BY <1>2, <2>0, <2>2 DEF Armed, Stored, Alike
  <2>5. Carries(u, m, Target(u, does, p, data), Refuses(u, p))
    BY <2>4, ClosingCloses DEF c
  <2> HIDE DEF m, x
  <2>6. Alike(m, o) /\ o.stat = m.stat
    BY <2>5 DEF Carries, Alike, Chip, Fields
  <2> HIDE DEF o
  <2>7. Carries(n, o, Target(n, does, p, data), Refuses(n, p))
    BY <2>2, <2>5, <2>6, CarriesAlike
  <2> QED BY <2>3, <2>7 DEF c
<1> QED
  BY <1>1, <1>2

\* The block that two address bytes through the engine select.
LEMMA XferEraseRow ==
    ASSUME NEW p, NEW f, Run(XRow(<<p, 0>>), f, 4), f[0].xcmd = "ERASE1", DOMAIN f[0].xaddr = 1..3,
           f[0].state = "erase", Block(p) * BlockPages = p
    PROVE  Chip(f[4]) /\ f[4].page = p /\ f[4].state = "erase"
<1> DEFINE t == XRow(<<p, 0>>)
<1>1. /\ t[1] = W("XferCmd", 6) /\ t[2] = W("XferAddr", p) /\ t[3] = W("XferAddr", 0)
      /\ t[4] = W("XferAck", 0)
  BY RowsListed
<1>2. Run(t, f, 4) /\ 0 + 1 = 1 /\ 1 + 1 = 2 /\ 2 + 1 = 3 /\ 3 + 1 = 4
  OBVIOUS
<1> HIDE DEF t
<1>3. /\ Chip(f[0]) /\ Chip(f[1]) /\ Chip(f[2]) /\ Chip(f[3]) /\ Chip(f[4])
      /\ f[1] = Access(f[0], t[1]) /\ f[2] = Access(f[1], t[2]) /\ f[3] = Access(f[2], t[3])
      /\ f[4] = Access(f[3], t[4])
  BY <1>2, RunStep
<1>4. /\ f[1] = XferCmd(f[0], 6) /\ f[2] = XferAddr(f[1], p) /\ f[3] = XferAddr(f[2], 0)
      /\ f[4] = XferAck(f[3])
  BY <1>1, <1>3, AccessIs
<1>5. /\ f[1].xphase = 6 /\ f[1].xcnt = 0 /\ f[1].xcmd = "ERASE1" /\ DOMAIN f[1].xaddr = 1..3
      /\ f[1].state = "erase"
  BY <1>3, <1>4 DEF XferCmd, Chip, Fields
<1>6. Latched(f[1], f[2], p)
  BY <1>3, <1>4, <1>5, AddressByte
<1>7. /\ f[2].xphase = 6 /\ f[2].xcnt = 1 /\ f[2].xcmd = "ERASE1" /\ DOMAIN f[2].xaddr = 1..3
      /\ f[2].state = "erase" /\ f[2].xaddr[1] = p
  BY <1>5, <1>6 DEF Latched
<1>8. Latched(f[2], f[3], 0)
  BY <1>3, <1>4, <1>7, AddressByte
<1>9. /\ f[3].xphase = 6 /\ f[3].xcnt = 2 /\ f[3].xcmd = "ERASE1"
      /\ f[3].state = "erase" /\ f[3].xaddr[1] = p
  BY <1>7, <1>8 DEF Latched
<1> DEFINE n == f[3]
           r == [n EXCEPT !.ready = TRUE]
           o == [r EXCEPT !.page = p]
<1>10. EraseStart(n) = p
  <2>1. EraseRow(n) = p
    BY <1>9 DEF EraseRow
  <2> HIDE DEF n
  <2> QED BY <2>1 DEF EraseStart
<1>11. f[4] = o
  <2>1. /\ f[4] = XferAck(n) /\ n.xphase = 6 /\ n.xcmd = "ERASE1" /\ EraseStart(n) = p
    BY <1>4, <1>9, <1>10
  <2> DEFINE e == EraseStart(n)
  <2>2. XferAck(n) = [r EXCEPT !.page = e]
    <3> HIDE DEF n
    <3> QED BY <2>1 DEF XferAck, Addressed
  <2>3. e = p
    BY <2>1
  <2> QED BY <2>1, <2>2, <2>3
<1>12. Chip(n) /\ n.state = "erase"
  BY <1>3, <1>9
<1> HIDE DEF n
<1>13. o.page = p /\ o.state = n.state
  BY <1>12 DEF Chip, Fields
<1> QED
  BY <1>3, <1>11, <1>12, <1>13

--------------------------------------------------------------------------------
(* A whole operation: what comes before its closing command prepares it,   *)
(* and the last access of the closing command carries it out.              *)

Prepares(pre, does, p, data) == \A f : Run(pre, f, Size(pre)) => Armed(f[Size(pre)], does, p, data)
Closes(last, does, p, data) ==
    /\ Listed(last) /\ Size(last) \in Nat \ {0} /\ QuietTo(last, Size(last) - 1)
    /\ \A f : LET n == f[Size(last) - 1] IN
              Run(last, f, Size(last) - 1) /\ Armed(f[0], does, p, data) /\ Stored(n)
              => Carries(n, Access(n, last[Size(last)]), Target(n, does, p, data), Refuses(n, p))
Brings(before, does, p, data) ==
    /\ Listed(before) /\ Size(before) \in Nat \ {0} /\ QuietTo(before, Size(before) - 1)
    /\ \A f : LET n == f[Size(before) - 1] IN
              Run(before, f, Size(before) - 1) /\ Stored(n)
              => Carries(n, Access(n, before[Size(before)]), Target(n, does, p, data), Refuses(n, p))

\* Accesses that prepare an operation and an access that closes it bring it
\* about.
LEMMA Brought ==
    ASSUME NEW pre, Listed(pre), Silent(pre), NEW last, NEW does, NEW p, NEW data,
           Prepares(pre, does, p, data), Closes(last, does, p, data)
    PROVE  Brings(Cat(pre, last), does, p, data)
<1> DEFINE t == Cat(pre, last)
           a == Size(pre)
           l == Size(last)
           z == Size(t)
<1>1. /\ Listed(last) /\ l \in Nat \ {0} /\ QuietTo(last, l - 1)
  BY DEF Closes
<1>2. /\ Listed(t) /\ a \in Nat /\ z = a + l /\ \A j \in 1..l : t[a + j] = last[j]
  BY <1>1, Joined
<1>3. l - 1 \in 0..l /\ z - 1 = a + (l - 1) /\ z \in Nat \ {0} /\ l \in 1..l
  BY <1>1, <1>2
<1>4. QuietTo(t, z - 1)
  <2>1. QuietTo(t, a + (l - 1))
    BY <1>1, <1>3, QuietThen
  <2> HIDE DEF t, a, z
  <2> QED BY <1>3, <2>1
<1>5. ASSUME NEW f, Run(t, f, z - 1), Stored(f[z - 1])
      PROVE  Carries(f[z - 1], Access(f[z - 1], t[z]), Target(f[z - 1], does, p, data), Refuses(f[z - 1], p))
  <2> DEFINE k == z - 1
             g == Shifted(f, a, k)
  <2>1. k \in 0..a + l /\ k >= a /\ k - a = l - 1
    BY <1>1, <1>2, <1>3
  <2> HIDE DEF k
  <2>2. Run(t, f, k) /\ Stored(f[k])
    BY <1>5 DEF k
  <2>3. Run(pre, f, a) /\ Run(last, g, k - a) /\ g[k - a] = f[k] /\ g[0] = f[a]
    BY <1>1, <2>1, <2>2, RunSplit
  <2> HIDE DEF g, t, a, l, z
  <2>4. Run(last, g, l - 1) /\ g[l - 1] = f[k] /\ g[0] = f[a]
    BY <2>1, <2>3
  <2>5. Armed(f[a], does, p, data)
    BY <2>3 DEF Prepares, a
  <2> DEFINE n == f[k]
  <2>6. Carries(n, Access(n, last[l]), Target(n, does, p, data), Refuses(n, p))
    BY <2>2, <2>4, <2>5 DEF Closes, l
  <2>7. last[l] = t[z]
    BY <1>2, <1>3
  <2> QED BY <2>6, <2>7 DEF k
<1>6. Listed(t) /\ z \in Nat \ {0} /\ QuietTo(t, z - 1) /\ z = Size(t)
  BY <1>2, <1>3, <1>4
<1> HIDE DEF t, z
<1>7. \A f : Run(t, f, z - 1) /\ Stored(f[z - 1])
             => Carries(f[z - 1], Access(f[z - 1], t[z]), Target(f[z - 1], does, p, data), Refuses(f[z - 1], p))
  BY <1>5
<1>8. Brings(t, does, p, data)
  BY <1>6, <1>7 DEF Brings
<1> QED
  BY <1>8 DEF t

\* The closing command of the transfer engine.
LEMMA XferClosing ==
    ASSUME NEW does \in {"program", "erase"}, NEW p \in Pages, NEW data, DataType(data),
           does = "erase" => Block(p) * BlockPages = p
    PROVE  Closes(XCommand(Closing(does)), does, p, data)
<1> DEFINE c == Closing(does)
           t == XCommand(c)
<1>1. /\ Listed(t) /\ Size(t) = 3 /\ t[1] = W("XferCmd", 3) /\ t[2] = W("XferAddr", c)
      /\ t[3] = W("XferAck", 0)
  BY PiecesListed
<1>2. QuietTo(t, 2)
  <2>1. ASSUME NEW k \in 0..1, NEW n PROVE ~Confirming(n, t[k + 1])
    <3>1. k = 0 \/ k = 1
      OBVIOUS
    <3> HIDE DEF t
    <3> QED BY <1>1, <3>1 DEF Confirming, W
  <2>2. 2 - 1 = 1
    OBVIOUS
  <2> HIDE DEF t
  <2> QED BY <2>1, <2>2 DEF QuietTo
<1>3. ASSUME NEW f, Run(t, f, 2), Armed(f[0], does, p, data), Stored(f[2])
      PROVE  Carries(f[2], Access(f[2], t[3]), Target(f[2], does, p, data), Refuses(f[2], p))
  <2> DEFINE b == f[0]
             n == f[2]
             o == [b EXCEPT !.xphase = 3, !.xcnt = 0, !.xbyte = c]
  <2>1. n = o /\ Chip(b) /\ Chip(n) /\ n.xphase = 3 /\ n.xbyte = c
    BY <1>3, CommandRun
  <2>2. Access(n, t[3]) = XferAck(n)
    BY <1>1, AccessIs
  <2> HIDE DEF b, c, n
  <2>3. XferAck(n) = XferCommand(n, c)
    BY <2>1 DEF XferAck
  <2>4. o.xcnt = 0 /\ o.page = b.page /\ o.state = b.state /\ o.pbuf = b.pbuf /\ o.plen = b.plen
    BY <2>1 DEF Chip, Fields
  <2> HIDE DEF o
  <2>5. Armed(b, does, p, data) /\ Stored(n)
    BY <1>3 DEF b, n
  <2>6. Armed(n, does, p, data) /\ n.xcnt = 0
    BY <2>1, <2>4, <2>5 DEF Armed, Buffered
  <2>7. Carries(n, XferCommand(n, c), Target(n, does, p, data), Refuses(n, p))
    BY <2>5, <2>6, XferCloses DEF c
  <2> QED BY <2>2, <2>3, <2>7 DEF n
<1>4. Size(t) - 1 = 2 /\ Size(t) \in Nat \ {0}
  BY <1>1
<1> HIDE DEF t
<1>5. Closes(t, does, p, data)
  BY <1>1, <1>2, <1>3, <1>4 DEF Closes
<1> QED
  BY <1>5 DEF t

\* The closing command of the direct I/O port.
LEMMA DioClosing ==
    ASSUME NEW does \in {"program", "erase"}, NEW p \in Pages, NEW data, DataType(data)
    PROVE  Closes(DioLine("cle", Closing(does)), does, p, data)
<1> DEFINE c == Closing(does)
           t == DioLine("cle", c)
<1>1. /\ Listed(t) /\ Size(t) = 2 /\ t[1] = W("DioCtrl", "cle") /\ t[2] = W("Dio", c)
  BY PiecesListed
<1>2. QuietTo(t, 1)
  <2>1. ASSUME NEW k \in 0..0, NEW n PROVE ~Confirming(n, t[k + 1])
    <3>1. k = 0
      OBVIOUS
    <3> HIDE DEF t
    <3> QED BY <1>1, <3>1 DEF Confirming, W
  <2>2. 1 - 1 = 0
    OBVIOUS
  <2> HIDE DEF t
  <2> QED BY <2>1, <2>2 DEF QuietTo
<1>3. ASSUME NEW f, Run(t, f, 1), Armed(f[0], does, p, data), Stored(f[1])
      PROVE  Carries(f[1], Access(f[1], t[2]), Target(f[1], does, p, data), Refuses(f[1], p))
  <2> DEFINE b == f[0]
             n == f[1]
             l == "cle"
             o == [b EXCEPT !.dio = l]
  <2>0. 0 + 1 = 1
    OBVIOUS
  <2>1. n = Access(b, t[1]) /\ Chip(b) /\ Chip(n)
    BY <1>3, <2>0, RunStep
  <2>2. n = o /\ Access(n, t[2]) = DioWrite(n, c)
    BY <1>1, <2>1, AccessIs
  <2> HIDE DEF b, c, n, l
  <2>3. o.dio = l /\ o.page = b.page /\ o.state = b.state /\ o.pbuf = b.pbuf /\ o.plen = b.plen
    BY <2>1 DEF Chip, Fields
  <2> HIDE DEF o
  <2>4. Armed(b, does, p, data) /\ Stored(n)
    BY <1>3 DEF b, n
  <2>5. Armed(n, does, p, data) /\ n.dio = "cle"
    BY <2>1, <2>2, <2>3, <2>4 DEF Armed, Buffered, l
  <2>6. Carries(n, DioWrite(n, c), Target(n, does, p, data), Refuses(n, p))
    BY <2>4, <2>5, DioCloses DEF c
  <2> QED BY <2>2, <2>6 DEF n
<1>4. Size(t) - 1 = 1 /\ Size(t) \in Nat \ {0}
  BY <1>1
<1> HIDE DEF t
<1>5. Closes(t, does, p, data)
  BY <1>1, <1>2, <1>3, <1>4 DEF Closes
<1> QED
  BY <1>5 DEF t

\* The closing command of the legacy ports.
LEMMA PortClosing ==
    ASSUME NEW does \in {"program", "erase"}, NEW p \in Pages, NEW data, DataType(data)
    PROVE  Closes(<<W("Command", Closing(does))>>, does, p, data)
<1> DEFINE c == Closing(does)
           t == <<W("Command", c)>>
<1>1. Listed(t) /\ Size(t) = 1 /\ t[1] = W("Command", c)
  BY OneListed
<1>2. QuietTo(t, 0)
  BY DEF QuietTo
<1>3. ASSUME NEW f, Armed(f[0], does, p, data), Stored(f[0])
      PROVE  Carries(f[0], Access(f[0], t[1]), Target(f[0], does, p, data), Refuses(f[0], p))
  <2>1. Access(f[0], t[1]) = LegacyCommand(f[0], c)
    BY <1>1, AccessIs
  <2> QED BY <1>3, <2>1, PortCloses
<1>4. Size(t) - 1 = 0 /\ Size(t) \in Nat \ {0}
  BY <1>1
<1> HIDE DEF t
<1>5. Closes(t, does, p, data)
  BY <1>1, <1>2, <1>3, <1>4 DEF Closes
<1> QED
  BY <1>5 DEF t

--------------------------------------------------------------------------------
(* What comes before the closing command, by each route.                   *)

\* A whole run of two sequences is a run of each, the second from where the first ends.
LEMMA RunWhole ==
    ASSUME NEW s, NEW t, Listed(s), Listed(t), NEW a, NEW b, NEW c, Size(s) = a, Size(t) = b, c = a + b,
           NEW f, Run(Cat(s, t), f, c)
    PROVE  Run(s, f, a) /\ \E g : Run(t, g, b) /\ g[0] = f[a] /\ g[b] = f[c]
<1>1. a \in Nat /\ b \in Nat
  BY Joined
<1>2. c \in 0..Size(s) + Size(t) /\ c >= Size(s) /\ c - Size(s) = b
  BY <1>1
<1>3. /\ Run(s, f, Size(s)) /\ Run(t, Shifted(f, Size(s), c), c - Size(s))
      /\ Shifted(f, Size(s), c)[c - Size(s)] = f[c] /\ Shifted(f, Size(s), c)[0] = f[Size(s)]
  BY <1>2, RunSplit
<1> DEFINE g == Shifted(f, Size(s), c)
<1>4. Run(t, g, b) /\ g[0] = f[a] /\ g[b] = f[c]
  BY <1>2, <1>3
<1> QED
  BY <1>3, <1>4

\* A row after the opening command.
LEMMA Located ==
    ASSUME NEW does, NEW data, NEW m, Expecting(m, does, data), NEW p, NEW n, RowSent(m, n, p)
    PROVE  Expecting(n, does, data) /\ n.page = p
BY DEF Expecting, RowSent, Buffered

\* Opening and address at the port leave the chip at the page.
LEMMA PortLocates ==
    ASSUME NEW does \in {"program", "erase"}, NEW p, NEW data, NEW f,
           Run(Cat(<<W("Command", Opening(does))>>, PortRow(<<0, p, 0>>)), f, 4)
    PROVE  Expecting(f[4], does, data) /\ f[4].page = p
<1> DEFINE s == <<W("Command", Opening(does))>>
           t == PortRow(<<0, p, 0>>)
<1>1. Listed(s) /\ Size(s) = 1 /\ Listed(t) /\ Size(t) = 3 /\ 4 = 1 + 3 /\ Run(Cat(s, t), f, 4)
  BY OneListed, PiecesListed
<1>2. Run(s, f, 1) /\ \E g : Run(t, g, 3) /\ g[0] = f[1] /\ g[3] = f[4]
  <2> HIDE DEF s, t
  <2> QED BY <1>1, RunWhole
<1>3. PICK g : Run(t, g, 3) /\ g[0] = f[1] /\ g[3] = f[4]
  BY <1>2
<1>4. Expecting(g[0], does, data) /\ g[0].cyc = 0
  BY <1>2, <1>3, PortOpeningRun
<1>5. RowSent(g[0], g[3], p)
  BY <1>3, <1>4, PortRowRun DEF Expecting
<1>6. Expecting(g[3], does, data) /\ g[3].page = p
  BY <1>4, <1>5, Located
<1> QED
  BY <1>3, <1>6

\* Opening and address through the direct I/O register do.
LEMMA DioLocates ==
    ASSUME NEW does \in {"program", "erase"}, NEW p, NEW data, NEW f,
           Run(Cat(DioLine("cle", Opening(does)), DioRow(<<0, p, 0>>)), f, 6)
    PROVE  Expecting(f[6], does, data) /\ f[6].page = p
<1> DEFINE s == DioLine("cle", Opening(does))
           t == DioRow(<<0, p, 0>>)
<1>1. Listed(s) /\ Size(s) = 2 /\ Listed(t) /\ Size(t) = 4 /\ 6 = 2 + 4 /\ Run(Cat(s, t), f, 6)
  BY RowsListed, PiecesListed
<1>2. Run(s, f, 2) /\ \E g : Run(t, g, 4) /\ g[0] = f[2] /\ g[4] = f[6]
  <2> HIDE DEF s, t
  <2> QED BY <1>1, RunWhole
<1>3. PICK g : Run(t, g, 4) /\ g[0] = f[2] /\ g[4] = f[6]
  BY <1>2
<1>4. Expecting(g[0], does, data) /\ g[0].cyc = 0
  BY <1>2, <1>3, DioOpeningRun
<1>5. RowSent(g[0], g[4], p)
  BY <1>3, <1>4, DioRowRun DEF Expecting
<1>6. Expecting(g[4], does, data) /\ g[4].page = p
  BY <1>4, <1>5, Located
<1> QED
  BY <1>3, <1>6

\* Opening and address through the engine do, for a program.
LEMMA XferLocates ==
    ASSUME NEW p, NEW data, NEW f, Run(Cat(XCommand("SEQIN"), XRow(<<0, p, 0>>)), f, 8)
    PROVE  ProgramReady(f[8], p, data, 0) /\ f[8].xcmd = "SEQIN" /\ f[8].xcnt = 3 /\ f[8].xaddr[2] = p
<1> DEFINE s == XCommand("SEQIN")
           t == XRow(<<0, p, 0>>)
<1>1. Listed(s) /\ Size(s) = 3 /\ Listed(t) /\ Size(t) = 5 /\ 8 = 3 + 5 /\ Run(Cat(s, t), f, 8)
  BY RowsListed, PiecesListed
<1>2. Run(s, f, 3) /\ \E g : Run(t, g, 5) /\ g[0] = f[3] /\ g[5] = f[8]
  <2> HIDE DEF s, t
  <2> QED BY <1>1, RunWhole
<1>3. PICK g : Run(t, g, 5) /\ g[0] = f[3] /\ g[5] = f[8]
  BY <1>2
<1>4. /\ g[0].state = "program" /\ Buffered(g[0], data, 0)
      /\ g[0].xcmd = "SEQIN" /\ DOMAIN g[0].xaddr = 1..3
  BY <1>2, <1>3, XferSeqin
<1>5. /\ Chip(g[5]) /\ g[5].page = p /\ g[5].state = g[0].state /\ g[5].pbuf = g[0].pbuf
      /\ g[5].plen = g[0].plen /\ g[5].xcmd = "SEQIN" /\ g[5].xcnt = 3 /\ g[5].xaddr[2] = p
  BY <1>3, <1>4, XferRow
<1>6. ProgramReady(g[5], p, data, 0)
  BY <1>4, <1>5 DEF ProgramReady, Buffered
<1> QED
  BY <1>3, <1>5, <1>6

\* And for an erase.
LEMMA XferLocatesBlock ==
    ASSUME NEW p, Block(p) * BlockPages = p, NEW data, NEW f,
           Run(Cat(XCommand("ERASE1"), XRow(<<p, 0>>)), f, 7)
    PROVE  Expecting(f[7], "erase", data) /\ f[7].page = p
<1> DEFINE s == XCommand("ERASE1")
           t == XRow(<<p, 0>>)
<1>1. Listed(s) /\ Size(s) = 3 /\ Listed(t) /\ Size(t) = 4 /\ 7 = 3 + 4 /\ Run(Cat(s, t), f, 7)
  BY RowsListed, PiecesListed
<1>2. Run(s, f, 3) /\ \E g : Run(t, g, 4) /\ g[0] = f[3] /\ g[4] = f[7]
  <2> HIDE DEF s, t
  <2> QED BY <1>1, RunWhole
<1>3. PICK g : Run(t, g, 4) /\ g[0] = f[3] /\ g[4] = f[7]
  BY <1>2
<1>4. Expecting(g[0], "erase", data) /\ g[0].xcmd = "ERASE1" /\ DOMAIN g[0].xaddr = 1..3
  <2>1. Opening("erase") = "ERASE1"
    BY DEF Opening
  <2>2. Run(XCommand(Opening("erase")), f, 3) /\ "erase" \in {"program", "erase"}
    BY <1>2, <2>1
  <2>3. Expecting(f[3], "erase", data) /\ f[3].xcmd = Opening("erase") /\ DOMAIN f[3].xaddr = 1..3
    BY <2>2, XferOpeningRun
  <2> QED BY <1>3, <2>1, <2>3
<1>5. g[0].state = "erase"
  BY <1>4 DEF Expecting
<1>6. Chip(g[4]) /\ g[4].page = p /\ g[4].state = "erase"
  BY <1>3, <1>4, <1>5, XferEraseRow
<1> QED
  BY <1>3, <1>6 DEF Expecting

\* A block starts at a page of its own.
LEMMA BlockStart ==
    ASSUME NEW b \in 0..Blocks - 1
    PROVE  b * BlockPages \in Pages /\ Block(b * BlockPages) = b /\ Block(b * BlockPages) * BlockPages = b * BlockPages
<1>1. Blocks \in Nat \ {0} /\ BlockPages \in Nat \ {0} /\ b \in Nat /\ b + 1 <= Blocks
  BY ChipAssumption
<1>2. b * BlockPages \in Nat /\ Blocks * BlockPages \in Nat /\ (b + 1) * BlockPages = b * BlockPages + BlockPages
  BY <1>1, SMTT(60)
<1>3. (b + 1) * BlockPages <= Blocks * BlockPages
  BY <1>1, SMTT(60)
<1>4. (b * BlockPages) \div BlockPages = b
  BY <1>1, <1>2, SMTT(60)
<1>5. b * BlockPages <= Blocks * BlockPages - 1
  BY <1>1, <1>2, <1>3
<1> QED
  BY <1>2, <1>4, <1>5 DEF Block, Pages

\* No piece of the data confirms anything, and no row does.
LEMMA DataQuiet ==
    ASSUME NEW data, DataType(data), NEW r \in {"xfer", "dio", "port"}
    PROVE  Listed(SendData(r, data)) /\ Silent(SendData(r, data))
<1> DEFINE L == Len(data)
           F == FrontSize(data)
<1>1. L \in Nat /\ F \in Nat /\ L - F \in Nat
  BY DataSizes
<1>2. ASSUME NEW to \in {"Stream", "Data"}, NEW o \in Nat, NEW c \in Nat
      PROVE  Listed(Bytes(to, data, o, c)) /\ Silent(Bytes(to, data, o, c))
  <2> DEFINE t == Bytes(to, data, o, c)
  <2>1. Listed(t) /\ Size(t) = c /\ \A i \in 1..c : t[i] = W(to, data[o + i])
    BY WordsListed
  <2> HIDE DEF t
  <2>2. \A i \in 1..Size(t) : t[i][2] \notin Registers
    BY <2>1 DEF W, Registers
  <2>3. Listed(t) /\ Silent(t)
    BY <2>1, <2>2, PlainQuiet
  <2> QED BY <2>3 DEF t
<1>3. CASE r = "port"
  <2>1. SendData("port", data) = Bytes("Data", data, 0, L)
    BY SentData
  <2>2. Listed(Bytes("Data", data, 0, L)) /\ Silent(Bytes("Data", data, 0, L))
    BY <1>1, <1>2
  <2> QED BY <1>3, <2>1, <2>2
<1>4. CASE r = "xfer"
  <2> DEFINE m7 == <<W("XferMode", 7)>>
             m6 == <<W("XferMode", 6)>>
             fr == Bytes("Stream", data, 0, F)
             ba == Bytes("Stream", data, BurstCells, L - F)
  <2>1. SendData("xfer", data) = Cat(Cat(Cat(m7, fr), m6), ba)
    BY SentData
  <2>2. Listed(fr) /\ Silent(fr) /\ Listed(ba) /\ Silent(ba)
    BY <1>1, <1>2 DEF BurstCells, PageCells
  <2>3. Listed(m7) /\ Silent(m7) /\ Listed(m6) /\ Silent(m6)
    <3>1. ASSUME NEW v PROVE Listed(<<W("XferMode", v)>>) /\ Silent(<<W("XferMode", v)>>)
      <4> DEFINE t == <<W("XferMode", v)>>
      <4>1. Listed(t) /\ Size(t) = 1 /\ t[1] = W("XferMode", v)
        BY OneListed
      <4> HIDE DEF t
      <4>2. \A i \in 1..Size(t) : t[i][2] \notin Registers
        BY <4>1 DEF W, Registers
      <4>3. Listed(t) /\ Silent(t)
        BY <4>1, <4>2, PlainQuiet
      <4> QED BY <4>3 DEF t
    <3> QED BY <3>1
  <2> HIDE DEF m7, m6, fr, ba
  <2>4. Listed(Cat(m7, fr)) /\ Silent(Cat(m7, fr))
    BY <2>2, <2>3, QuietJoined
  <2>5. Listed(Cat(Cat(m7, fr), m6)) /\ Silent(Cat(Cat(m7, fr), m6))
    BY <2>3, <2>4, QuietJoined
  <2>6. Listed(Cat(Cat(Cat(m7, fr), m6), ba)) /\ Silent(Cat(Cat(Cat(m7, fr), m6), ba))
    BY <2>2, <2>5, QuietJoined
  <2> QED BY <1>4, <2>1, <2>6
<1>5. CASE r = "dio"
  <2> DEFINE dc == <<W("DioCtrl", "data")>>
             ws == Bytes("Dio", data, 0, L)
             t == Cat(dc, ws)
  <2>1. SendData("dio", data) = t
    BY SentData
  <2>2. Listed(dc) /\ Size(dc) = 1 /\ dc[1] = W("DioCtrl", "data")
    BY OneListed
  <2>3. Listed(ws) /\ Size(ws) = L /\ \A i \in 1..L : ws[i] = W("Dio", data[0 + i])
    BY <1>1, WordsListed
  <2> HIDE DEF dc, ws, L
  <2>4. /\ Listed(t) /\ Size(t) = 1 + L /\ \A i \in 1..1 : t[i] = dc[i]
        /\ \A j \in 1..L : t[1 + j] = ws[j]
    BY <2>2, <2>3, JoinedBy
  <2> HIDE DEF t
  <2>5. DioPiece(t, "data")
    <3>1. Size(t) \in Nat /\ t[1] = W("DioCtrl", "data")
      BY <1>1, <2>2, <2>4
    <3>2. ASSUME NEW i \in 2..Size(t) PROVE \E v : t[i] = W("Dio", v)
      <4>1. i - 1 \in 1..L /\ 1 + (i - 1) = i
        BY <1>1, <2>4
      <4>2. t[i] = W("Dio", data[0 + (i - 1)])
        BY <2>3, <2>4, <4>1
      <4> QED BY <4>2
    <3> QED BY <3>1, <3>2 DEF DioPiece
  <2> QED BY <1>5, <2>1, <2>4, <2>5, DioQuiet
<1> QED
  BY <1>3, <1>4, <1>5

\* An address at the legacy registers confirms nothing.
LEMMA LegacyRowsQuiet ==
    ASSUME NEW a, NEW b, NEW d PROVE Silent(DioRow(<<a, b, d>>)) /\ Silent(PortRow(<<a, b, d>>))
<1> DEFINE s == DioRow(<<a, b, d>>)
           t == PortRow(<<a, b, d>>)
<1>1. /\ Size(s) = 4 /\ s[1] = W("DioCtrl", "ale") /\ s[2] = W("Dio", a) /\ s[3] = W("Dio", b)
      /\ s[4] = W("Dio", d)
  BY RowsListed
<1>2. Size(t) = 3 /\ t[1] = W("Address", a) /\ t[2] = W("Address", b) /\ t[3] = W("Address", d)
  BY PiecesListed
<1> HIDE DEF s, t
<1>3. DioPiece(s, "ale")
  <2>1. \A i \in 2..Size(s) : i = 2 \/ i = 3 \/ i = 4
    BY <1>1
  <2> QED BY <1>1, <2>1 DEF DioPiece
<1>4. \A i \in 1..Size(t) : t[i][2] \notin Registers
  <2>1. \A i \in 1..Size(t) : i = 1 \/ i = 2 \/ i = 3
    BY <1>2
  <2>2. \A v : W("Address", v)[2] \notin Registers
    BY DEF W, Registers
  <2> QED BY <1>2, <2>1, <2>2
<1>5. Silent(s) /\ Silent(t)
  BY <1>2, <1>3, <1>4, DioQuiet, PlainQuiet
<1> QED
  BY <1>5 DEF s, t

\* A program's beginning: the command and the row, then the data.
LEMMA XferPrepares ==
    ASSUME NEW p, NEW data, DataType(data)
    PROVE  LET pre == Cat(Cat(XCommand("SEQIN"), XRow(<<0, p, 0>>)), SendData("xfer", data)) IN
           Listed(pre) /\ Silent(pre) /\ Prepares(pre, "program", p, data)
<1> DEFINE s == XCommand("SEQIN")
           t == XRow(<<0, p, 0>>)
           h == Cat(s, t)
           d == SendData("xfer", data)
           pre == Cat(h, d)
<1>1. Listed(s) /\ Size(s) = 3 /\ Silent(s)
  <2>1. Silent(XCommand("SEQIN"))
    <3>1. "SEQIN" \notin Confirms
      BY DEF Confirms
    <3> QED BY <3>1, CommandQuiet
  <2>2. Listed(XCommand("SEQIN")) /\ Size(XCommand("SEQIN")) = 3
    BY PiecesListed
  <2> QED BY <2>1, <2>2
<1>2. Listed(t) /\ Size(t) = 5 /\ Silent(t)
  <2>1. Listed(t) /\ Size(t) = 5
    BY RowsListed
  <2>2. Silent(t)
    BY RowsQuiet
  <2> QED BY <2>1, <2>2
<1>3. Listed(d) /\ Silent(d)
  BY DataQuiet
<1>4. ASSUME NEW f, Run(h, f, 8)
      PROVE  ProgramReady(f[8], p, data, 0) /\ f[8].xcmd = "SEQIN" /\ f[8].xcnt = 3 /\ f[8].xaddr[2] = p
  BY <1>4, XferLocates
<1>5. ASSUME NEW f, Run(d, f, Size(d)), ProgramReady(f[0], p, data, 0), f[0].xcmd = "SEQIN",
             f[0].xcnt = 3, f[0].xaddr[2] = p
      PROVE  ProgramReady(f[Size(d)], p, data, Len(data))
  BY <1>5, XferDataRun
<1> HIDE DEF s, t, d
<1>6. Listed(h) /\ Silent(h)
  BY <1>1, <1>2, QuietJoined
<1>7. Size(h) = 8
  <2>1. Size(h) = 3 + 5
    BY <1>1, <1>2, JoinedBy
  <2> QED BY <2>1
<1> HIDE DEF h
<1>8. Listed(pre) /\ Silent(pre)
  BY <1>3, <1>6, QuietJoined
<1>9. Size(pre) = 8 + Size(d)
  BY <1>3, <1>6, <1>7, JoinedBy
<1>10. ASSUME NEW f, Run(pre, f, Size(pre)) PROVE Armed(f[Size(pre)], "program", p, data)
  <2> DEFINE b == Size(d)
             c == Size(pre)
  <2>1. c = 8 + b /\ Run(Cat(h, d), f, c) /\ Size(d) = b
    BY <1>9, <1>10
  <2> HIDE DEF b, c
  <2>2. Run(h, f, 8) /\ \E g : Run(d, g, b) /\ g[0] = f[8] /\ g[b] = f[c]
    BY <1>3, <1>6, <1>7, <2>1, RunWhole
  <2>3. PICK g : Run(d, g, b) /\ g[0] = f[8] /\ g[b] = f[c]
    BY <2>2
  <2>4. ProgramReady(g[b], p, data, Len(data))
    <3> HIDE DEF pre
    <3> QED BY <1>4, <1>5, <2>1, <2>2, <2>3
  <2>5. Armed(f[c], "program", p, data)
    BY <2>3, <2>4 DEF ProgramReady, Armed
  <2> QED BY <2>5 DEF c
<1> HIDE DEF pre
<1>11. Prepares(pre, "program", p, data)
  BY <1>10 DEF Prepares
<1> QED
  BY <1>8, <1>11 DEF pre, h, s, t, d

\* What the engine is sent before the erase is confirmed prepares the erase.
LEMMA XferPreparesBlock ==
    ASSUME NEW p, Block(p) * BlockPages = p, NEW data
    PROVE  LET pre == Cat(XCommand("ERASE1"), XRow(<<p, 0>>)) IN
           Listed(pre) /\ Silent(pre) /\ Prepares(pre, "erase", p, data)
<1> DEFINE s == XCommand("ERASE1")
           t == XRow(<<p, 0>>)
           h == Cat(s, t)
<1>1. Listed(s) /\ Size(s) = 3 /\ Silent(s)
  <2>1. Silent(XCommand("ERASE1"))
    <3>1. "ERASE1" \notin Confirms
      BY DEF Confirms
    <3> QED BY <3>1, CommandQuiet
  <2>2. Listed(XCommand("ERASE1")) /\ Size(XCommand("ERASE1")) = 3
    BY PiecesListed
  <2> QED BY <2>1, <2>2
<1>2. Listed(t) /\ Size(t) = 4 /\ Silent(t)
  <2>1. Listed(t) /\ Size(t) = 4
    BY RowsListed
  <2>2. Silent(t)
    BY RowsQuiet
  <2> QED BY <2>1, <2>2
<1>3. ASSUME NEW f, Run(h, f, 7) PROVE Expecting(f[7], "erase", data) /\ f[7].page = p
  BY <1>3, XferLocatesBlock
<1> HIDE DEF s, t
<1>4. Listed(h) /\ Silent(h)
  BY <1>1, <1>2, QuietJoined
<1>5. Size(h) = 7
  <2>1. Size(h) = 3 + 4
    BY <1>1, <1>2, JoinedBy
  <2> QED BY <2>1
<1> HIDE DEF h
<1>6. Prepares(h, "erase", p, data)
  BY <1>3, <1>5 DEF Prepares, Armed, Expecting
<1> QED
  BY <1>4, <1>6 DEF h, s, t

\* A head that opens and locates prepares an erase, and with the data a program.
LEMMA HeadPrepares ==
    ASSUME NEW h, Listed(h), Silent(h), NEW a, Size(h) = a, NEW p, NEW data,
           NEW does \in {"program", "erase"},
           \A f : Run(h, f, a) => Expecting(f[a], does, data) /\ f[a].page = p
    PROVE  /\ does = "erase" => Prepares(h, does, p, data)
           /\ \A d : Listed(d) /\ Silent(d) /\ does = "program"
                     /\ (\A g : Run(d, g, Size(d)) /\ ProgramReady(g[0], p, data, 0)
                                => ProgramReady(g[Size(d)], p, data, Len(data)))
                     => Listed(Cat(h, d)) /\ Silent(Cat(h, d)) /\ Prepares(Cat(h, d), does, p, data)
<1>1. does = "erase" => Prepares(h, does, p, data)
  BY DEF Prepares, Armed, Expecting
<1>2. ASSUME NEW d, Listed(d), Silent(d), does = "program",
             \A g : Run(d, g, Size(d)) /\ ProgramReady(g[0], p, data, 0)
                    => ProgramReady(g[Size(d)], p, data, Len(data))
      PROVE  Listed(Cat(h, d)) /\ Silent(Cat(h, d)) /\ Prepares(Cat(h, d), does, p, data)
  <2> DEFINE pre == Cat(h, d)
             b == Size(d)
             c == Size(pre)
  <2>1. Listed(pre) /\ Silent(pre)
    BY <1>2, QuietJoined
  <2>2. c = a + b
    BY <1>2, JoinedBy
  <2>3. ASSUME NEW f, Run(pre, f, c) PROVE Armed(f[c], does, p, data)
    <3>1. Run(Cat(h, d), f, c) /\ Size(d) = b
      BY <2>3
    <3> HIDE DEF b, c
    <3>2. Run(h, f, a) /\ \E g : Run(d, g, b) /\ g[0] = f[a] /\ g[b] = f[c]
      BY <1>2, <2>2, <3>1, RunWhole
    <3>3. PICK g : Run(d, g, b) /\ g[0] = f[a] /\ g[b] = f[c]
      BY <3>2
    <3>4. ProgramReady(f[a], p, data, 0)
      BY <1>2, <3>2 DEF Expecting, ProgramReady
    <3>5. ProgramReady(g[b], p, data, Len(data))
      <4> HIDE DEF pre
      <4> QED BY <1>2, <3>1, <3>3, <3>4
    <3> QED BY <1>2, <3>3, <3>5 DEF ProgramReady, Armed
  <2> HIDE DEF pre
  <2>4. Prepares(pre, does, p, data)
    BY <2>3 DEF Prepares
  <2> QED BY <2>1, <2>4 DEF pre
<1> QED
  BY <1>1, <1>2

\* What the direct I/O register is sent before the operation is confirmed
\* prepares it.
LEMMA DioPrepares ==
    ASSUME NEW does \in {"program", "erase"}, NEW p, NEW data, DataType(data)
    PROVE  LET h == Cat(DioLine("cle", Opening(does)), DioRow(<<0, p, 0>>))
               d == SendData("dio", data)
           IN /\ Listed(h) /\ Silent(h)
              /\ does = "erase" => Prepares(h, does, p, data)
              /\ does = "program" => Listed(Cat(h, d)) /\ Silent(Cat(h, d)) /\ Prepares(Cat(h, d), does, p, data)
<1> DEFINE s == DioLine("cle", Opening(does))
           t == DioRow(<<0, p, 0>>)
           h == Cat(s, t)
           d == SendData("dio", data)
<1>1. Listed(s) /\ Size(s) = 2
  BY PiecesListed
<1>2. Silent(s)
  BY LegacyQuiet DEF Opening, Confirms
<1>3. Listed(t) /\ Size(t) = 4
  BY RowsListed
<1>4. Silent(t)
  BY LegacyRowsQuiet
<1>5. Listed(d) /\ Silent(d)
  BY DataQuiet
<1>6. \A f : Run(h, f, 6) => Expecting(f[6], does, data) /\ f[6].page = p
  BY DioLocates
<1>7. \A g : Run(d, g, Size(d)) /\ ProgramReady(g[0], p, data, 0)
             => ProgramReady(g[Size(d)], p, data, Len(data))
  BY DioDataRun
<1> HIDE DEF s, t, d
<1>8. Listed(h) /\ Silent(h)
  BY <1>1, <1>2, <1>3, <1>4, QuietJoined
<1>9. Size(h) = 6
  <2>1. Size(h) = 2 + 4
    BY <1>1, <1>3, JoinedBy
  <2> QED BY <2>1
<1> HIDE DEF h
<1>10. /\ does = "erase" => Prepares(h, does, p, data)
       /\ does = "program" => Listed(Cat(h, d)) /\ Silent(Cat(h, d)) /\ Prepares(Cat(h, d), does, p, data)
  BY <1>5, <1>6, <1>7, <1>8, <1>9, HeadPrepares
<1> QED
  BY <1>8, <1>10 DEF h, s, t, d

\* And what the port is sent.
LEMMA PortPrepares ==
    ASSUME NEW does \in {"program", "erase"}, NEW p, NEW data, DataType(data)
    PROVE  LET h == Cat(<<W("Command", Opening(does))>>, PortRow(<<0, p, 0>>))
               d == SendData("port", data)
           IN /\ Listed(h) /\ Silent(h)
              /\ does = "erase" => Prepares(h, does, p, data)
              /\ does = "program" => Listed(Cat(h, d)) /\ Silent(Cat(h, d)) /\ Prepares(Cat(h, d), does, p, data)
<1> DEFINE s == <<W("Command", Opening(does))>>
           t == PortRow(<<0, p, 0>>)
           h == Cat(s, t)
           d == SendData("port", data)
<1>1. Listed(s) /\ Size(s) = 1
  BY OneListed
<1>2. Silent(s)
  BY LegacyQuiet DEF Opening, Confirms
<1>3. Listed(t) /\ Size(t) = 3
  BY PiecesListed
<1>4. Silent(t)
  BY LegacyRowsQuiet
<1>5. Listed(d) /\ Silent(d)
  BY DataQuiet
<1>6. \A f : Run(h, f, 4) => Expecting(f[4], does, data) /\ f[4].page = p
  BY PortLocates
<1>7. \A g : Run(d, g, Size(d)) /\ ProgramReady(g[0], p, data, 0)
             => ProgramReady(g[Size(d)], p, data, Len(data))
  BY PortDataRun
<1> HIDE DEF s, t, d
<1>8. Listed(h) /\ Silent(h)
  BY <1>1, <1>2, <1>3, <1>4, QuietJoined
<1>9. Size(h) = 4
  <2>1. Size(h) = 1 + 3
    BY <1>1, <1>3, JoinedBy
  <2> QED BY <2>1
<1> HIDE DEF h
<1>10. /\ does = "erase" => Prepares(h, does, p, data)
       /\ does = "program" => Listed(Cat(h, d)) /\ Silent(Cat(h, d)) /\ Prepares(Cat(h, d), does, p, data)
  BY <1>5, <1>6, <1>7, <1>8, <1>9, HeadPrepares
<1> QED
  BY <1>8, <1>10 DEF h, s, t, d

--------------------------------------------------------------------------------
(* The scripts: what is quiet in them, and what their confirming access    *)
(* brings about.                                                           *)

Piece(t) == Listed(t) /\ Silent(t)
Plain(e) == e[2] \notin Registers \/ e = R("Dio")

\* Accesses that confirm nothing, followed by others that confirm nothing.
LEMMA PieceJoined ==
    ASSUME NEW s, Piece(s), NEW t, Piece(t) PROVE Piece(Cat(s, t))
BY QuietJoined DEF Piece

\* Accesses that cannot confirm anything, by their registers.
LEMMA PlainAccesses ==
    /\ \A v : Plain(W("XferMode", v)) /\ Plain(W("XferKick", v)) /\ Plain(W("XferEcc", v))
              /\ Plain(W("DmaState", v)) /\ Plain(<<"R", "Dma", v>>) /\ Plain(W("BootCtrl", v))
              /\ Plain(W("BootCmd", v)) /\ Plain(W("BootAddr", v)) /\ Plain(W("BootMode", v))
              /\ Plain(W("RestoreMode", v)) /\ Plain(W("DioCtrl", v))
    /\ Plain(R("XferAddr")) /\ Plain(R("Dio")) /\ Plain(R("Status")) /\ Plain(R("Stream"))
    /\ Plain(R("Result")) /\ Plain(R("Clean")) /\ Plain(R("Window"))
BY DEF Plain, W, R, Registers

\* Accesses that confirm nothing one by one confirm nothing together.
LEMMA PlainPiece ==
    ASSUME NEW k \in Nat, NEW t, t = [i \in 1..k |-> t[i]], \A i \in 1..k : Plain(t[i])
    PROVE  Piece(t)
<1>1. Listed(t) /\ Size(t) = k
  BY ListedIs
<1>2. Silent(t)
  BY <1>1, PlainQuiet DEF Plain
<1> QED
  BY <1>1, <1>2 DEF Piece

\* Repeating such an access confirms nothing.
LEMMA TimesPiece ==
    ASSUME NEW k \in Nat, NEW a, Plain(a) PROVE Piece(Times(k, a))
<1> DEFINE t == Times(k, a)
<1>1. t = [i \in 1..k |-> t[i]] /\ \A i \in 1..k : t[i] = a
  BY DEF Times
<1> HIDE DEF t
<1>2. Piece(t)
  BY <1>1, PlainPiece
<1> QED
  BY <1>2 DEF t

\* No access confirms nothing.
LEMMA EmptyPiece == Piece(<<>>)
<1> DEFINE t == <<>>
<1>1. t = [i \in 1..0 |-> t[i]]
  OBVIOUS
<1>2. \A i \in 1..0 : Plain(t[i])
  OBVIOUS
<1> HIDE DEF t
<1>3. Piece(t)
  BY <1>1, <1>2, PlainPiece
<1> QED
  BY <1>3 DEF t

\* Lists of such accesses, by their length: one,
LEMMA OnePlain ==
    ASSUME NEW a,
           Plain(a)
    PROVE  Piece(<<a>>)
<1> DEFINE t == <<a>>
<1>1. t = [i \in 1..1 |-> t[i]]
  OBVIOUS
<1>2. \A i \in 1..1 : Plain(t[i])
  <2>1. \A i \in 1..1 : i = 1
    OBVIOUS
  <2>2. t[1] = a
    OBVIOUS
  <2> HIDE DEF t
  <2> QED BY <2>1, <2>2
<1> HIDE DEF t
<1>3. Piece(t)
  BY <1>1, <1>2, PlainPiece
<1> QED
  BY <1>3 DEF t

\* two,
LEMMA TwoPlain ==
    ASSUME NEW a, NEW b,
           Plain(a), Plain(b)
    PROVE  Piece(<<a, b>>)
<1> DEFINE t == <<a, b>>
<1>1. t = [i \in 1..2 |-> t[i]]
  OBVIOUS
<1>2. \A i \in 1..2 : Plain(t[i])
  <2>1. \A i \in 1..2 : i = 1 \/ i = 2
    OBVIOUS
  <2>2. t[1] = a /\ t[2] = b
    OBVIOUS
  <2> HIDE DEF t
  <2> QED BY <2>1, <2>2
<1> HIDE DEF t
<1>3. Piece(t)
  BY <1>1, <1>2, PlainPiece
<1> QED
  BY <1>3 DEF t

\* three,
LEMMA ThreePlain ==
    ASSUME NEW a, NEW b, NEW c,
           Plain(a), Plain(b), Plain(c)
    PROVE  Piece(<<a, b, c>>)
<1> DEFINE t == <<a, b, c>>
<1>1. t = [i \in 1..3 |-> t[i]]
  OBVIOUS
<1>2. \A i \in 1..3 : Plain(t[i])
  <2>1. \A i \in 1..3 : i = 1 \/ i = 2 \/ i = 3
    OBVIOUS
  <2>2. t[1] = a /\ t[2] = b /\ t[3] = c
    OBVIOUS
  <2> HIDE DEF t
  <2> QED BY <2>1, <2>2
<1> HIDE DEF t
<1>3. Piece(t)
  BY <1>1, <1>2, PlainPiece
<1> QED
  BY <1>3 DEF t

\* six,
LEMMA SixPlain ==
    ASSUME NEW a, NEW b, NEW c, NEW d, NEW e, NEW g,
           Plain(a), Plain(b), Plain(c), Plain(d), Plain(e), Plain(g)
    PROVE  Piece(<<a, b, c, d, e, g>>)
<1> DEFINE t == <<a, b, c, d, e, g>>
<1>1. t = [i \in 1..6 |-> t[i]]
  OBVIOUS
<1>2. \A i \in 1..6 : Plain(t[i])
  <2>1. \A i \in 1..6 : i = 1 \/ i = 2 \/ i = 3 \/ i = 4 \/ i = 5 \/ i = 6
    OBVIOUS
  <2>2. t[1] = a /\ t[2] = b /\ t[3] = c /\ t[4] = d /\ t[5] = e /\ t[6] = g
    OBVIOUS
  <2> HIDE DEF t
  <2> QED BY <2>1, <2>2
<1> HIDE DEF t
<1>3. Piece(t)
  BY <1>1, <1>2, PlainPiece
<1> QED
  BY <1>3 DEF t

\* and seven.
LEMMA SevenPlain ==
    ASSUME NEW a, NEW b, NEW c, NEW d, NEW e, NEW g, NEW h,
           Plain(a), Plain(b), Plain(c), Plain(d), Plain(e), Plain(g), Plain(h)
    PROVE  Piece(<<a, b, c, d, e, g, h>>)
<1> DEFINE t == <<a, b, c, d, e, g, h>>
<1>1. t = [i \in 1..7 |-> t[i]]
  OBVIOUS
<1>2. \A i \in 1..7 : Plain(t[i])
  <2>1. \A i \in 1..7 : i = 1 \/ i = 2 \/ i = 3 \/ i = 4 \/ i = 5 \/ i = 6 \/ i = 7
    OBVIOUS
  <2>2. t[1] = a /\ t[2] = b /\ t[3] = c /\ t[4] = d /\ t[5] = e /\ t[6] = g /\ t[7] = h
    OBVIOUS
  <2> HIDE DEF t
  <2> QED BY <2>1, <2>2
<1> HIDE DEF t
<1>3. Piece(t)
  BY <1>1, <1>2, PlainPiece
<1> QED
  BY <1>3 DEF t

\* Asking for the status.
LEMMA AskPiece ==
    ASSUME NEW r \in {"xfer", "dio", "port"} PROVE Piece(AskStatus(r))
<1>0. "STATUS" \notin Confirms
  BY DEF Confirms
<1>1. CASE r = "xfer"
  <2> DEFINE s == XCommand("STATUS")
             t == <<R("XferAddr")>>
  <2>1. Piece(s)
    BY <1>0, PiecesListed, CommandQuiet DEF Piece
  <2>2. Piece(t)
    BY OnePlain, PlainAccesses
  <2>3. AskStatus("xfer") = Cat(s, t)
    BY DEF AskStatus, SendCommand, Cat
  <2> HIDE DEF s, t
  <2> QED BY <1>1, <2>1, <2>2, <2>3, PieceJoined
<1>2. CASE r = "dio"
  <2> DEFINE s == DioLine("cle", "STATUS")
             t == <<R("Dio"), R("Dio")>>
  <2>1. Piece(s)
    <3>1. Listed(s)
      BY PiecesListed
    <3>2. Silent(s)
      BY <1>0, LegacyQuiet
    <3> QED BY <3>1, <3>2 DEF Piece
  <2>2. Piece(t)
    BY TwoPlain, PlainAccesses
  <2>3. AskStatus("dio") = Cat(s, t)
    BY DEF AskStatus, SendCommand, Cat
  <2> HIDE DEF s, t
  <2> QED BY <1>2, <2>1, <2>2, <2>3, PieceJoined
<1>3. CASE r = "port"
  <2> DEFINE s == <<W("Command", "STATUS")>>
             t == <<R("Status")>>
  <2>1. Piece(s)
    <3>1. Listed(s)
      BY OneListed
    <3>2. Silent(s)
      BY <1>0, LegacyQuiet
    <3> QED BY <3>1, <3>2 DEF Piece
  <2>2. Piece(t)
    BY OnePlain, PlainAccesses
  <2>3. AskStatus("port") = Cat(s, t)
    BY DEF AskStatus, SendCommand, Cat
  <2> HIDE DEF s, t
  <2> QED BY <1>3, <2>1, <2>2, <2>3, PieceJoined
<1> QED
  BY <1>1, <1>2, <1>3

\* What a program sends up to the confirming command.
ProgramBefore(r, p, data) ==
    Cat(Cat(Cat(SendCommand(r, "SEQIN"), SendRow(r, <<0, p, 0>>)), SendData(r, data)),
        SendCommand(r, "PAGEPROG"))

\* What the guest sends for a program brings the program about, on every route.
LEMMA ProgramBrings ==
    ASSUME NEW r \in {"xfer", "dio", "port"}, NEW p \in Pages, NEW data, DataType(data)
    PROVE  Brings(ProgramBefore(r, p, data), "program", p, data)
<1> DEFINE does == "program"
<1>0. does \in {"program", "erase"} /\ Opening(does) = "SEQIN" /\ Closing(does) = "PAGEPROG"
      /\ does # "erase" /\ does = "program"
  BY DEF Opening, Closing
<1> HIDE DEF does
<1>1. CASE r = "xfer"
  <2> DEFINE pre == Cat(Cat(XCommand("SEQIN"), XRow(<<0, p, 0>>)), SendData("xfer", data))
             last == XCommand(Closing(does))
  <2>1. Listed(pre) /\ Silent(pre) /\ Prepares(pre, does, p, data)
    BY <1>0, XferPrepares
  <2>2. Closes(last, does, p, data)
    BY <1>0, XferClosing
  <2>3. ProgramBefore("xfer", p, data) = Cat(pre, last)
    BY <1>0 DEF ProgramBefore, SendCommand, SendRow
  <2> HIDE DEF pre, last
  <2>4. Brings(Cat(pre, last), does, p, data)
    BY <2>1, <2>2, Brought
  <2> QED BY <1>0, <1>1, <2>3, <2>4
<1>2. CASE r = "dio"
  <2> DEFINE h == Cat(DioLine("cle", Opening(does)), DioRow(<<0, p, 0>>))
             pre == Cat(h, SendData("dio", data))
             last == DioLine("cle", Closing(does))
  <2>1. Listed(pre) /\ Silent(pre) /\ Prepares(pre, does, p, data)
    BY <1>0, DioPrepares
  <2>2. Closes(last, does, p, data)
    BY <1>0, DioClosing
  <2>3. ProgramBefore("dio", p, data) = Cat(pre, last)
    BY <1>0 DEF ProgramBefore, SendCommand, SendRow
  <2> HIDE DEF pre, last
  <2>4. Brings(Cat(pre, last), does, p, data)
    BY <2>1, <2>2, Brought
  <2> QED BY <1>0, <1>2, <2>3, <2>4
<1>3. CASE r = "port"
  <2> DEFINE h == Cat(<<W("Command", Opening(does))>>, PortRow(<<0, p, 0>>))
             pre == Cat(h, SendData("port", data))
             last == <<W("Command", Closing(does))>>
  <2>1. Listed(pre) /\ Silent(pre) /\ Prepares(pre, does, p, data)
    BY <1>0, PortPrepares
  <2>2. Closes(last, does, p, data)
    BY <1>0, PortClosing
  <2>3. ProgramBefore("port", p, data) = Cat(pre, last)
    BY <1>0 DEF ProgramBefore, SendCommand, SendRow
  <2> HIDE DEF pre, last
  <2>4. Brings(Cat(pre, last), does, p, data)
    BY <2>1, <2>2, Brought
  <2> QED BY <1>0, <1>3, <2>3, <2>4
<1> QED
  BY <1>1, <1>2, <1>3

\* What an erase sends up to the confirming command.
EraseBefore(r, p) ==
    Cat(Cat(SendCommand(r, "ERASE1"), SendRow(r, IF r = "xfer" THEN <<p, 0>> ELSE <<0, p, 0>>)),
        SendCommand(r, "ERASE2"))

\* What it sends for an erase brings the erase about, on every route.
LEMMA EraseBrings ==
    ASSUME NEW r \in {"xfer", "dio", "port"}, NEW p \in Pages, Block(p) * BlockPages = p,
           NEW data, DataType(data)
    PROVE  Brings(EraseBefore(r, p), "erase", p, data)
<1> DEFINE does == "erase"
<1>0. does \in {"program", "erase"} /\ Opening(does) = "ERASE1" /\ Closing(does) = "ERASE2"
      /\ does = "erase"
  BY DEF Opening, Closing
<1> HIDE DEF does
<1>1. CASE r = "xfer"
  <2> DEFINE pre == Cat(XCommand("ERASE1"), XRow(<<p, 0>>))
             last == XCommand(Closing(does))
  <2>1. Listed(pre) /\ Silent(pre) /\ Prepares(pre, does, p, data)
    BY <1>0, XferPreparesBlock
  <2>2. Closes(last, does, p, data)
    BY <1>0, XferClosing
  <2>3. EraseBefore("xfer", p) = Cat(pre, last)
    BY <1>0 DEF EraseBefore, SendCommand, SendRow
  <2> HIDE DEF pre, last
  <2>4. Brings(Cat(pre, last), does, p, data)
    BY <2>1, <2>2, Brought
  <2> QED BY <1>0, <1>1, <2>3, <2>4
<1>2. CASE r = "dio"
  <2> DEFINE pre == Cat(DioLine("cle", Opening(does)), DioRow(<<0, p, 0>>))
             last == DioLine("cle", Closing(does))
  <2>1. Listed(pre) /\ Silent(pre) /\ Prepares(pre, does, p, data)
    BY <1>0, DioPrepares
  <2>2. Closes(last, does, p, data)
    BY <1>0, DioClosing
  <2>3. EraseBefore("dio", p) = Cat(pre, last)
    BY <1>0 DEF EraseBefore, SendCommand, SendRow
  <2> HIDE DEF pre, last
  <2>4. Brings(Cat(pre, last), does, p, data)
    BY <2>1, <2>2, Brought
  <2> QED BY <1>0, <1>2, <2>3, <2>4
<1>3. CASE r = "port"
  <2> DEFINE pre == Cat(<<W("Command", Opening(does))>>, PortRow(<<0, p, 0>>))
             last == <<W("Command", Closing(does))>>
  <2>1. Listed(pre) /\ Silent(pre) /\ Prepares(pre, does, p, data)
    BY <1>0, PortPrepares
  <2>2. Closes(last, does, p, data)
    BY <1>0, PortClosing
  <2>3. EraseBefore("port", p) = Cat(pre, last)
    BY <1>0 DEF EraseBefore, SendCommand, SendRow
  <2> HIDE DEF pre, last
  <2>4. Brings(Cat(pre, last), does, p, data)
    BY <2>1, <2>2, Brought
  <2> QED BY <1>0, <1>3, <2>3, <2>4
<1> QED
  BY <1>1, <1>2, <1>3

--------------------------------------------------------------------------------
(* Every script is quiet, but for the access that confirms a program or an *)
(* erase, and that one carries it out.                                     *)

Commits(s, before, after) ==
    /\ s.steps = Cat(before, after) /\ Piece(after) /\ s.confirm = Size(before)
    /\ s.does \in {"program", "erase"} /\ s.page \in Pages /\ DataType(s.data)
    /\ Brings(before, s.does, s.page, s.data)
Scripted(s) ==
    \/ s.confirm = 0 /\ Piece(s.steps)
    \/ \E before, after : Commits(s, before, after)

\* The fields of an operation.
LEMMA OpFields ==
    ASSUME NEW route, NEW does, NEW p, NEW data, NEW before, NEW after
    PROVE  LET s == Op(route, does, p, data, before, after) IN
           /\ s.steps = Cat(before, after) /\ s.confirm = Size(before) /\ s.does = does
           /\ s.page = p /\ s.data = data /\ s.refused = (chip.oob /\ Bad(flash, Block(p)))
<1> DEFINE steps == before \o after
           l == Len(before)
           refused == chip.oob /\ Bad(flash, Block(p))
           s == [route |-> route, does |-> does, page |-> p, data |-> data, steps |-> steps,
                 confirm |-> l, refused |-> refused]
<1>1. Op(route, does, p, data, before, after) = s
  BY DEF Op
<1>2. steps = Cat(before, after) /\ l = Size(before)
  BY DEF Cat, Size
<1> HIDE DEF steps, l, refused
<1>3. /\ s.steps = steps /\ s.confirm = l /\ s.does = does /\ s.page = p /\ s.data = data
      /\ s.refused = refused
  OBVIOUS
<1> HIDE DEF s
<1> QED
  BY <1>1, <1>2, <1>3 DEF refused

\* A read confirms nothing.
LEMMA ReadScripted ==
    ASSUME NEW route, NEW does, NEW p, NEW data, NEW after, Piece(after)
    PROVE  Scripted(Op(route, does, p, data, <<>>, after))
<1> DEFINE e == <<>>
           s == Op(route, does, p, data, e, after)
<1>1. Piece(e) /\ Size(e) = 0
  <2>1. Size(e) = 0
    BY DEF Size
  <2> QED BY <2>1, EmptyPiece
<1> HIDE DEF e
<1>2. Piece(Cat(e, after))
  BY <1>1, PieceJoined
<1>3. s.steps = Cat(e, after) /\ s.confirm = Size(e)
  BY OpFields
<1> HIDE DEF s
<1>4. Scripted(s)
  BY <1>1, <1>2, <1>3 DEF Scripted
<1> QED
  BY <1>4 DEF s, e

\* A program is one of the scripts the invariant speaks of.
LEMMA ProgramScripted ==
    ASSUME NEW r \in {"xfer", "dio", "port"}, NEW p \in Pages, NEW data, DataType(data)
    PROVE  Scripted(Program(r, p, data)) /\ Program(r, p, data).refused = (chip.oob /\ Bad(flash, Block(p)))
           /\ Program(r, p, data).page = p
<1> DEFINE before == ProgramBefore(r, p, data)
           after == AskStatus(r)
           s == Op(r, "program", p, data, before, after)
<1>1. Program(r, p, data) = s
  BY DEF Program, ProgramBefore, Cat
<1>2. Piece(after) /\ Brings(before, "program", p, data)
  BY AskPiece, ProgramBrings
<1>3. /\ s.steps = Cat(before, after) /\ s.confirm = Size(before) /\ s.does = "program"
      /\ s.page = p /\ s.data = data /\ s.refused = (chip.oob /\ Bad(flash, Block(p)))
  BY OpFields
<1> HIDE DEF s, before, after
<1>4. Commits(s, before, after)
  BY <1>2, <1>3 DEF Commits
<1> QED
  BY <1>1, <1>3, <1>4 DEF Scripted

\* An erase is.
LEMMA EraseScripted ==
    ASSUME NEW r \in {"xfer", "dio", "port"}, NEW b \in 0..Blocks - 1
    PROVE  LET s == EraseBlock(r, b) IN
           Scripted(s) /\ s.refused = (chip.oob /\ Bad(flash, Block(s.page))) /\ s.page = b * BlockPages
<1> DEFINE p == b * BlockPages
           data == <<>>
           before == EraseBefore(r, p)
           after == AskStatus(r)
           s == Op(r, "erase", p, data, before, after)
<1>1. EraseBlock(r, b) = s
  BY DEF EraseBlock, EraseBefore, Cat
<1>2. DataType(data)
  BY DEF DataType, PageCells
<1>3. p \in Pages /\ Block(p) * BlockPages = p
  BY BlockStart
<1> HIDE DEF data, p
<1>4. Piece(after) /\ Brings(before, "erase", p, data)
  BY <1>2, <1>3, AskPiece, EraseBrings
<1>5. /\ s.steps = Cat(before, after) /\ s.confirm = Size(before) /\ s.does = "erase"
      /\ s.page = p /\ s.data = data /\ s.refused = (chip.oob /\ Bad(flash, Block(p)))
  BY OpFields
<1> HIDE DEF s, before, after
<1>6. Commits(s, before, after)
  BY <1>2, <1>3, <1>4, <1>5 DEF Commits
<1>7. Scripted(s)
  BY <1>6 DEF Scripted
<1> QED
  BY <1>1, <1>5, <1>7 DEF p

\* A read of the transfer engine.
LEMMA XReadPiece == ASSUME NEW p PROVE Piece(XRead(p))
<1> DEFINE s == XCommand("READ0")
           t == XRow(<<0, p, 0>>)
           u == <<W("XferKick", 0)>>
<1>1. Piece(s)
  <2>1. "READ0" \notin Confirms
    BY DEF Confirms
  <2>2. Silent(s)
    BY <2>1, CommandQuiet
  <2>3. Listed(s)
    BY PiecesListed
  <2> QED BY <2>2, <2>3 DEF Piece
<1>2. Piece(t)
  <2>1. Listed(t)
    BY RowsListed
  <2>2. Silent(t)
    BY RowsQuiet
  <2> QED BY <2>1, <2>2 DEF Piece
<1>3. Piece(u)
  BY OnePlain, PlainAccesses
<1>4. XRead(p) = Cat(Cat(s, t), u)
  BY DEF XRead, Cat
<1> HIDE DEF s, t, u
<1>5. Piece(Cat(Cat(s, t), u))
  BY <1>1, <1>2, <1>3, PieceJoined
<1> QED
  BY <1>4, <1>5

\* So are the reads, which confirm nothing: a burst,
LEMMA ReadBurstScripted == ASSUME NEW p PROVE Scripted(ReadBurst(p))
<1> DEFINE s == XRead(p)
           t == <<W("XferMode", 5)>>
           u == Times(BurstCells, R("Stream"))
           v == <<W("XferMode", 4), R("Result"), W("XferMode", 1),
                  W("XferEcc", Parity(chip, p)), R("Clean"), W("XferMode", 0)>>
           data == <<>>
<1>1. Piece(s)
  BY XReadPiece
<1>2. Piece(t)
  BY OnePlain, PlainAccesses
<1>3. Piece(u)
  BY TimesPiece, PlainAccesses DEF BurstCells, PageCells
<1>4. Piece(v)
  BY SixPlain, PlainAccesses
<1>5. ReadBurst(p) = Op("xfer", "burst", p, data, <<>>, Cat(Cat(Cat(s, t), u), v))
  BY DEF ReadBurst, Cat
<1> HIDE DEF s, t, u, v, data
<1>6. Piece(Cat(Cat(s, t), u))
  BY <1>1, <1>2, <1>3, PieceJoined
<1>7. Piece(Cat(Cat(Cat(s, t), u), v))
  BY <1>4, <1>6, PieceJoined
<1> QED
  BY <1>5, <1>7, ReadScripted

\* a page,
LEMMA ReadPageScripted == ASSUME NEW p PROVE Scripted(ReadPage(p))
<1> DEFINE q == <<W("DmaState", 0)>>
           s == XRead(p)
           t == <<W("XferMode", 5)>>
           u == Times(PageCells, R("Stream"))
           v == <<W("XferMode", 0)>>
           data == <<>>
<1>1. Piece(s)
  BY XReadPiece
<1>2. Piece(t) /\ Piece(q) /\ Piece(v)
  BY OnePlain, PlainAccesses
<1>3. Piece(u)
  BY TimesPiece, PlainAccesses DEF PageCells
<1>5. ReadPage(p) = Op("xfer", "read", p, data, <<>>, Cat(Cat(Cat(Cat(q, s), t), u), v))
  BY DEF ReadPage, Cat
<1> HIDE DEF q, s, t, u, v, data
<1>6. Piece(Cat(Cat(q, s), t))
  BY <1>1, <1>2, PieceJoined
<1>7. Piece(Cat(Cat(Cat(Cat(q, s), t), u), v))
  BY <1>2, <1>3, <1>6, PieceJoined
<1> QED
  BY <1>5, <1>7, ReadScripted

\* a transfer by DMA,
LEMMA ReadDmaScripted == ASSUME NEW p, NEW k PROVE Scripted(ReadDma(p, k))
<1> DEFINE q == <<W("DmaState", 0)>>
           s == XRead(p)
           t == <<W("XferMode", 5), <<"R", "Dma", k>>, W("XferMode", 0)>>
           data == <<k>>
<1>1. Piece(s)
  BY XReadPiece
<1>2. Piece(q)
  BY OnePlain, PlainAccesses
<1>3. Piece(t)
  BY ThreePlain, PlainAccesses
<1>5. ReadDma(p, k) = Op("xfer", "dma", p, data, <<>>, Cat(Cat(q, s), t))
  BY DEF ReadDma, Cat
<1> HIDE DEF q, s, t, data
<1>6. Piece(Cat(Cat(q, s), t))
  BY <1>1, <1>2, <1>3, PieceJoined
<1> QED
  BY <1>5, <1>6, ReadScripted

\* a read by the boot-time reader,
LEMMA ReadBootScripted == ASSUME NEW p PROVE Scripted(ReadBoot(p))
<1> DEFINE s == <<W("BootCtrl", 0), W("BootCtrl", 1), W("BootCmd", 6), W("BootAddr", 0), W("BootAddr", p),
                  W("BootAddr", 0), W("BootMode", 5)>>
           u == Times(PageCells, R("Stream"))
           v == <<W("BootCmd", 0)>>
           data == <<>>
<1>1. Piece(s)
  BY SevenPlain, PlainAccesses
<1>2. Piece(v)
  BY OnePlain, PlainAccesses
<1>3. Piece(u)
  BY TimesPiece, PlainAccesses DEF PageCells
<1>5. ReadBoot(p) = Op("boot", "read", p, data, <<>>, Cat(Cat(s, u), v))
  BY DEF ReadBoot, Cat
<1> HIDE DEF s, u, v, data
<1>6. Piece(Cat(Cat(s, u), v))
  BY <1>1, <1>2, <1>3, PieceJoined
<1> QED
  BY <1>5, <1>6, ReadScripted

\* a read through the direct I/O register,
LEMMA ReadDioScripted ==
    ASSUME NEW p, NEW cmd \in {"READ0", "READ1", "READOOB"} PROVE Scripted(ReadDio(p, cmd))
<1> DEFINE q == DioLine("cle", cmd)
           s == DioRow(<<0, p, 0>>)
           t == <<W("DioCtrl", "data")>>
           u == Times(2, R("Dio"))
           data == <<>>
<1>1. Piece(q)
  <2>1. Listed(q)
    BY PiecesListed
  <2>2. Silent(q)
    BY LegacyQuiet DEF Confirms
  <2> QED BY <2>1, <2>2 DEF Piece
<1>2. Piece(s)
  <2>1. Listed(s)
    BY RowsListed
  <2>2. Silent(s)
    BY LegacyRowsQuiet
  <2> QED BY <2>1, <2>2 DEF Piece
<1>3. Piece(t)
  BY OnePlain, PlainAccesses
<1>4. Piece(u)
  BY TimesPiece, PlainAccesses
<1>5. ReadDio(p, cmd) = Op("dio", cmd, p, data, <<>>, Cat(Cat(Cat(q, s), t), u))
  BY DEF ReadDio, Cat
<1> HIDE DEF q, s, t, u, data
<1>6. Piece(Cat(Cat(q, s), t))
  BY <1>1, <1>2, <1>3, PieceJoined
<1>7. Piece(Cat(Cat(Cat(q, s), t), u))
  BY <1>4, <1>6, PieceJoined
<1> QED
  BY <1>5, <1>7, ReadScripted

\* and one through the restore window.
LEMMA ReadWindowScripted == Scripted(ReadWindow)
<1> DEFINE s == <<W("RestoreMode", 5)>>
           u == Times(BurstCells, R("Window"))
           data == <<>>
<1>1. Piece(s)
  BY OnePlain, PlainAccesses
<1>2. Piece(u)
  BY TimesPiece, PlainAccesses DEF BurstCells, PageCells
<1>3. ReadWindow = Op("window", "read520", 0, data, <<>>, Cat(s, u))
  BY DEF ReadWindow, Cat
<1> HIDE DEF s, u, data
<1>4. Piece(Cat(s, u))
  BY <1>1, <1>2, PieceJoined
<1> QED
  BY <1>3, <1>4, ReadScripted

\* Whether a script is to be refused is known when it begins.
LEMMA ScriptsScripted ==
    ASSUME NEW s \in Scripts
    PROVE  /\ Scripted(s)
           /\ s.confirm # 0 => s.refused = (chip.oob /\ Bad(flash, Block(s.page)))
<1>0. ASSUME NEW route, NEW does, NEW p, NEW data, NEW before, NEW after
      PROVE  LET u == Op(route, does, p, data, before, after) IN
             u.refused = (chip.oob /\ Bad(flash, Block(u.page)))
  BY OpFields
<1>1. CASE \E r \in Routes, p \in Pages, data \in Patterns : s = Program(r, p, data)
  <2>1. PICK r \in Routes, p \in Pages, data \in Patterns : s = Program(r, p, data)
    BY <1>1
  <2>2. r \in {"xfer", "dio", "port"} /\ DataType(data)
    BY GuestAssumption DEF DataType
  <2> QED BY <2>1, <2>2, ProgramScripted
<1>2. CASE \E r \in Routes, b \in 0..Blocks - 1 : s = EraseBlock(r, b)
  <2>1. PICK r \in Routes, b \in 0..Blocks - 1 : s = EraseBlock(r, b)
    BY <1>2
  <2>2. r \in {"xfer", "dio", "port"}
    BY GuestAssumption
  <2> QED BY <2>1, <2>2, EraseScripted
<1>3. CASE \E p \in Pages : s = ReadBurst(p)
  BY <1>0, <1>3, ReadBurstScripted DEF ReadBurst
<1>4. CASE \E p \in Pages : s = ReadPage(p)
  BY <1>0, <1>4, ReadPageScripted DEF ReadPage
<1>5. CASE \E p \in Pages, k \in {1, PageCells + 1} : s = ReadDma(p, k)
  BY <1>0, <1>5, ReadDmaScripted DEF ReadDma
<1>6. CASE \E p \in Pages : s = ReadBoot(p)
  BY <1>0, <1>6, ReadBootScripted DEF ReadBoot
<1>7. CASE \E p \in Pages, cmd \in {"READ0", "READ1", "READOOB"} : s = ReadDio(p, cmd)
  BY <1>0, <1>7, ReadDioScripted DEF ReadDio
<1>8. CASE s = ReadWindow
  BY <1>0, <1>8, ReadWindowScripted DEF ReadWindow
<1> QED
  BY <1>1, <1>2, <1>3, <1>4, <1>5, <1>6, <1>7, <1>8 DEF Scripts

--------------------------------------------------------------------------------
(* The inductive invariant.  An operation under way has a run behind it,   *)
(* from some chip, that ends in this one; before its confirming access the *)
(* chip would refuse what the script expects to be refused.                *)

FileType == [oob : BOOLEAN, cells : Flash, pages : Nat]
InScript == /\ Scripted(script) /\ pc \in 0..Size(script.steps)
            /\ \E f : Run(script.steps, f, pc) /\ f[pc] = chip
            /\ pc < script.confirm => script.refused = Refuses(chip, script.page)
NandInv ==
    /\ Chip(chip) /\ Stored(chip)
    /\ image \in FileType /\ image.oob = chip.oob
    /\ ~chip.dirty => image.cells = chip.cells
    /\ flash = chip.cells
    /\ (script = NoScript /\ pc = 0) \/ InScript

\* A script is a finite list, and its confirming access has a place in it.
LEMMA ScriptedSize ==
    ASSUME NEW s, Scripted(s) PROVE Listed(s.steps) /\ Size(s.steps) \in Nat /\ s.confirm \in Nat
<1>1. ASSUME NEW t, Listed(t) PROVE Size(t) \in Nat
  BY <1>1, JoinedBy
<1>2. CASE s.confirm = 0 /\ Piece(s.steps)
  BY <1>1, <1>2 DEF Piece
<1>3. CASE \E before, after : Commits(s, before, after)
  <2>1. PICK before, after : Commits(s, before, after)
    BY <1>3
  <2>2. Listed(before) /\ Listed(after) /\ Size(before) \in Nat
    BY <2>1 DEF Commits, Piece, Brings
  <2>3. Listed(Cat(before, after))
    BY <2>2, JoinedBy
  <2> QED BY <1>1, <2>1, <2>2, <2>3 DEF Commits
<1> QED
  BY <1>2, <1>3 DEF Scripted

\* A run one access longer.
LEMMA RunOn ==
    ASSUME NEW t, NEW f, NEW k \in Nat, Run(t, f, k), NEW m, m = Access(f[k], t[k + 1]), Chip(m)
    PROVE  \E g : Run(t, g, k + 1) /\ g[k + 1] = m
<1> DEFINE l == k + 1
           g == [i \in 0..l |-> IF i <= k THEN f[i] ELSE m]
<1>1. l \in Nat /\ l - 1 = k /\ k \in 0..k /\ l \in 0..l
  OBVIOUS
<1>2. (\A i \in 0..k : g[i] = f[i]) /\ g[l] = m
  OBVIOUS
<1> HIDE DEF g
<1>3. \A i \in 0..l : Chip(g[i])
  <2>1. \A i \in 0..l : i \in 0..k \/ i = l
    OBVIOUS
  <2> QED BY <1>2, <2>1 DEF Run
<1>4. ASSUME NEW i \in 0..l - 1 PROVE g[i + 1] = Access(g[i], t[i + 1])
  <2>1. CASE i = k
    BY <1>1, <1>2, <2>1
  <2>2. CASE i # k
    <3>1. i \in 0..k /\ i + 1 \in 0..k /\ i \in 0..k - 1
      BY <2>2
    <3> QED BY <1>2, <3>1 DEF Run
  <2> QED BY <2>1, <2>2
<1>5. Run(t, g, l)
  BY <1>3, <1>4 DEF Run
<1> QED
  BY <1>2, <1>5

\* The access that comes next in a script.
LEMMA NextAccess ==
    ASSUME NEW s, NEW before, NEW after, Commits(s, before, after), NEW k \in Nat, k < Size(s.steps),
           NEW f, Run(s.steps, f, k)
    PROVE  /\ k + 1 # s.confirm => ~Confirming(f[k], s.steps[k + 1])
           /\ k + 1 = s.confirm => Run(before, f, k) /\ s.steps[k + 1] = before[k + 1]
<1> DEFINE t == s.steps
           a == Size(before)
           b == Size(after)
<1>1. Listed(before) /\ Listed(after) /\ Silent(after) /\ QuietTo(before, a - 1) /\ s.confirm = a
  BY DEF Commits, Piece, Brings
<1>2. /\ t = Cat(before, after) /\ Size(t) = a + b /\ a \in Nat /\ b \in Nat
      /\ \A i \in 1..a : t[i] = before[i]
      /\ \A j \in 1..b : t[a + j] = after[j]
  BY <1>1, Joined DEF Commits
<1> HIDE DEF t
<1>3. Run(Cat(before, after), f, k) /\ k \in 0..a + b
  BY <1>2 DEF t
<1>4. CASE k < a
  <2>1. k + 1 \in 1..a /\ k <= a
    BY <1>2, <1>4
  <2>2. Run(before, f, k) /\ t[k + 1] = before[k + 1]
    BY <1>1, <1>2, <1>3, <2>1, RunSplit
  <2>3. k + 1 # a => k \in 0..(a - 1) - 1
    BY <1>2, <1>4
  <2>4. k + 1 # a => ~Confirming(f[k], before[k + 1])
    <3> HIDE DEF a
    <3> QED BY <1>1, <2>2, <2>3 DEF QuietTo
  <2> QED BY <1>1, <2>2, <2>4 DEF t
<1>5. CASE k >= a
  <2> DEFINE g == Shifted(f, a, k)
             j == k - a
  <2>1. Run(after, g, j) /\ g[j] = f[k]
    BY <1>1, <1>3, <1>5, RunSplit
  <2>2. j \in 0..b - 1 /\ j + 1 \in 1..b /\ a + (j + 1) = k + 1 /\ k + 1 # a
    BY <1>2, <1>5 DEF t
  <2> HIDE DEF g, j, a, b
  <2>3. t[k + 1] = after[j + 1]
    BY <1>2, <2>2
  <2>4. ~Confirming(g[j], after[j + 1])
    BY <1>1, <2>1, <2>2 DEF Silent, QuietTo, b
  <2> QED BY <1>1, <2>1, <2>2, <2>3, <2>4 DEF t
<1>6. k < a \/ k >= a
  BY <1>2
<1> QED
  BY <1>4, <1>5, <1>6

\* An access of the script under way keeps the invariant.
LEMMA StepKeeps == NandInv /\ Step => NandInv'
<1> SUFFICES ASSUME NandInv, Step PROVE NandInv'
  OBVIOUS
<1> DEFINE s == script
           t == script.steps
           a == t[pc + 1]
<1>1. /\ chip' = Access(chip, a) /\ pc' = pc + 1 /\ image' = image /\ script' = script
      /\ flash' = IF pc' = script.confirm THEN Carried(flash, script) ELSE flash
      /\ pc < Size(t)
  BY DEF Step, Size
<1>2. InScript
  <2>1. Size(NoScript.steps) = 0
    BY DEF NoScript, Size
  <2>2. ~(script = NoScript /\ pc = 0)
    BY <1>1, <2>1
  <2> QED BY <2>2 DEF NandInv
<1>3. Scripted(s) /\ Size(t) \in Nat /\ pc \in Nat /\ pc + 1 \in 0..Size(t)
  BY <1>1, <1>2, ScriptedSize DEF InScript
<1>4. PICK f : Run(t, f, pc) /\ f[pc] = chip
  BY <1>2 DEF InScript
<1>5. Chip(chip) /\ Stored(chip) /\ image \in FileType /\ image.oob = chip.oob
      /\ (~chip.dirty => image.cells = chip.cells) /\ flash = chip.cells
  BY DEF NandInv
<1> HIDE DEF t, a
<1>6. \/ ~Confirming(chip, a) /\ pc + 1 # s.confirm
      \/ \E before, after : Commits(s, before, after) /\ pc + 1 = s.confirm
                            /\ Run(before, f, pc) /\ a = before[pc + 1]
  <2>1. CASE s.confirm = 0 /\ Piece(s.steps)
    <3>1. QuietTo(t, Size(t)) /\ pc \in 0..Size(t) - 1
      BY <1>1, <1>3, <2>1 DEF Piece, Silent, t
    <3>2. ~Confirming(f[pc], t[pc + 1])
      BY <1>4, <3>1 DEF QuietTo
    <3> QED BY <1>3, <1>4, <2>1, <3>2 DEF a
  <2>2. CASE \E before, after : Commits(s, before, after)
    <3>1. PICK before, after : Commits(s, before, after)
      BY <2>2
    <3>2. Run(s.steps, f, pc) /\ pc < Size(s.steps)
      BY <1>1, <1>4 DEF t
    <3>3. /\ pc + 1 # s.confirm => ~Confirming(f[pc], s.steps[pc + 1])
          /\ pc + 1 = s.confirm => Run(before, f, pc) /\ s.steps[pc + 1] = before[pc + 1]
      BY <1>3, <3>1, <3>2, NextAccess
    <3> QED BY <1>4, <3>1, <3>3 DEF a, t
  <2> QED BY <1>3, <2>1, <2>2 DEF Scripted
<1>7. /\ Chip(chip') /\ Stored(chip') /\ chip'.oob = chip.oob
      /\ ~chip'.dirty => image.cells = chip'.cells
      /\ flash' = chip'.cells
      /\ pc + 1 # s.confirm => chip'.cells = chip.cells
  <2>1. CASE ~Confirming(chip, a) /\ pc + 1 # s.confirm
    <3>1. Held(chip, chip')
      BY <1>1, <1>5, <2>1, AccessKeeps
    <3> QED BY <1>1, <1>5, <2>1, <3>1 DEF Held, Stored
  <2>2. CASE \E before, after : Commits(s, before, after) /\ pc + 1 = s.confirm
                                /\ Run(before, f, pc) /\ a = before[pc + 1]
    <3>1. PICK before, after : Commits(s, before, after) /\ pc + 1 = s.confirm
                               /\ Run(before, f, pc) /\ a = before[pc + 1]
      BY <2>2
    <3>2. Size(before) = pc + 1 /\ Size(before) - 1 = pc /\ a = before[Size(before)]
      BY <1>3, <3>1 DEF Commits
    <3>3. Run(before, f, Size(before) - 1) /\ Stored(f[Size(before) - 1])
      BY <1>4, <1>5, <3>1, <3>2
    <3> DEFINE x == Target(chip, s.does, s.page, s.data)
               r == Refuses(chip, s.page)
    <3>4. Carries(chip, chip', x, r)
      <4>1. Brings(before, s.does, s.page, s.data)
        BY <3>1 DEF Commits
      <4>2. LET n == f[Size(before) - 1] IN
            Carries(n, Access(n, before[Size(before)]), Target(n, s.does, s.page, s.data), Refuses(n, s.page))
        BY <3>3, <4>1 DEF Brings
      <4> QED BY <1>1, <1>4, <3>2, <4>2
    <3>5. s.refused = r
      <4>1. pc < s.confirm
        BY <1>3, <3>1
      <4> QED BY <1>2, <4>1 DEF InScript
    <3>6. flash' = IF r THEN chip.cells ELSE x
      <4>1. flash' = Carried(chip.cells, s)
        BY <1>1, <1>5, <3>1
      <4>2. Carried(chip.cells, s) = IF s.refused THEN chip.cells ELSE x
        BY DEF Carried, Target, Padded
      <4> QED BY <3>5, <4>1, <4>2
    <3> HIDE DEF x, r
    <3> QED BY <1>5, <3>1, <3>4, <3>6 DEF Carries, Stored
  <2> QED BY <1>6, <2>1, <2>2
<1>8. InScript'
  <2>1. \E g : Run(t, g, pc + 1) /\ g[pc + 1] = chip'
    <3>1. chip' = Access(f[pc], t[pc + 1])
      BY <1>1, <1>4 DEF a
    <3> QED BY <1>3, <1>4, <1>7, <3>1, RunOn
  <2>2. pc + 1 < s.confirm => s.refused = Refuses(chip', s.page)
    <3>1. pc + 1 < s.confirm => pc < s.confirm /\ pc + 1 # s.confirm
      BY <1>3, ScriptedSize
    <3> QED BY <1>2, <1>7, <3>1 DEF InScript, Refuses
  <2> QED BY <1>1, <1>3, <2>1, <2>2 DEF InScript, t
<1> QED
  BY <1>1, <1>5, <1>7, <1>8 DEF NandInv

\* A chip set up from a file.
Fresh(n, oob, cells) == Chip(n) /\ n.oob = oob /\ n.cells = cells /\ n.dirty = FALSE

\* A chip set up from an image holds its cells.
LEMMA InitChip ==
    ASSUME NEW oob, NEW cells, NEW pages
    PROVE  Fresh(NandInit(oob, cells, pages), oob, cells)
<1> DEFINE n == NandInit(oob, cells, pages)
<1>1. DOMAIN n = Fields
  BY DEF NandInit, Fields
<1>2. n.oob = oob /\ n.cells = cells /\ n.dirty = FALSE
  BY DEF NandInit
<1> QED
  BY <1>1, <1>2 DEF Chip, Fresh

\* The file that is written back holds the cells of the chip.
LEMMA SyncedHolds ==
    ASSUME NEW n, Stored(n), NEW host \in FileType, host.oob = n.oob,
           ~n.dirty => host.cells = n.cells
    PROVE  Synced(n, host) \in FileType /\ Synced(n, host).oob = n.oob /\ Synced(n, host).cells = n.cells
<1>1. CASE ~n.dirty
  BY <1>1 DEF Synced
<1>2. CASE n.dirty /\ n.oob
  BY <1>2 DEF Synced, FileType, Stored
<1>3. CASE n.dirty /\ ~n.oob
  <2> DEFINE past == \E p \in Pages : p >= host.pages /\ n.cells[p] # ErasedPage
             size == Cardinality(Pages)
             to == IF past THEN size ELSE host.pages
             cells == [p \in Pages |-> IF p < to THEN n.cells[p] ELSE ErasedPage]
             o == [host EXCEPT !.pages = to, !.cells = cells]
  <2>1. Synced(n, host) = o
    BY <1>3 DEF Synced
  <2>2. size \in Nat /\ \A p \in Pages : p < size
    <3>1. Blocks * BlockPages \in Nat
      BY ChipAssumption
    <3> DEFINE z == Blocks * BlockPages
    <3> HIDE DEF z
    <3>2. z \in Nat /\ Pages = 0..z - 1
      BY <3>1 DEF Pages, z
    <3>3. Cardinality(0..z - 1) = z
      <4>1. 0 \in Int /\ z - 1 \in Int
        BY <3>2
      <4>2. Cardinality(0..z - 1) = IF 0 > z - 1 THEN 0 ELSE z - 1 - 0 + 1
        BY <4>1, FS_Interval
      <4> QED BY <3>2, <4>2
    <3> QED BY <3>2, <3>3
  <2>3. host.pages \in Nat /\ n.cells \in Flash
    BY DEF FileType, Stored
  <2>4. to \in Nat
    <3> HIDE DEF past, size
    <3> QED BY <2>2, <2>3
  <2>5. ASSUME NEW p \in Pages PROVE (IF p < to THEN n.cells[p] ELSE ErasedPage) = n.cells[p]
    <3>1. p \in Int
      BY ChipAssumption DEF Pages
    <3>2. CASE past
      <4>1. p < to
        BY <2>2, <3>2
      <4> QED BY <4>1
    <3>3. CASE ~past
      <4>1. to = host.pages /\ (p >= host.pages => n.cells[p] = ErasedPage)
        BY <3>3
      <4> QED BY <2>3, <3>1, <4>1
    <3> QED BY <3>2, <3>3
  <2>6. cells = n.cells
    <3>1. n.cells = [p \in Pages |-> n.cells[p]]
      BY <2>3 DEF Flash
    <3> HIDE DEF to
    <3> QED BY <2>5, <3>1
  <2> HIDE DEF to
  <2>7. o \in FileType /\ o.oob = n.oob /\ o.cells = n.cells
    <3> HIDE DEF cells
    <3> QED BY <2>3, <2>4, <2>6 DEF FileType
  <2> QED BY <2>1, <2>7
<1> QED
  BY <1>1, <1>2, <1>3 DEF Stored

\* So does a restart, with the save that precedes it or without.
LEMMA RestartKeeps == NandInv /\ Restart => NandInv'
<1> SUFFICES ASSUME NandInv, Restart PROVE NandInv'
  OBVIOUS
<1>1. PICK works \in BOOLEAN : /\ image' = IF works THEN Synced(chip, image) ELSE image
                               /\ flash' = IF works THEN flash ELSE image.cells
  BY DEF Restart
<1>2. script = NoScript /\ script' = script /\ pc' = pc
      /\ chip' = NandInit(image'.oob, image'.cells, image'.pages)
  BY DEF Restart
<1>3. Stored(chip) /\ image \in FileType /\ image.oob = chip.oob
      /\ (~chip.dirty => image.cells = chip.cells) /\ flash = chip.cells
  BY DEF NandInv
<1>4. image' \in FileType /\ flash' = image'.cells
  BY <1>1, <1>3, SyncedHolds
<1>5. Chip(chip') /\ chip'.oob = image'.oob /\ chip'.cells = image'.cells /\ chip'.dirty = FALSE
  <2> DEFINE o == image'.oob
             c == image'.cells
             g == image'.pages
             n == NandInit(o, c, g)
  <2>1. chip' = n
    BY <1>2
  <2> HIDE DEF o, c, g
  <2>2. Fresh(n, o, c)
    BY InitChip
  <2> HIDE DEF n
  <2> QED BY <2>1, <2>2 DEF Fresh, o, c
<1>6. Stored(chip')
  BY <1>4, <1>5 DEF Stored, FileType
<1>7. pc = 0
  <2>1. Size(NoScript.steps) = 0
    BY DEF NoScript, Size
  <2>2. InScript => pc \in 0..0
    BY <1>2, <2>1 DEF InScript
  <2> QED BY <2>2 DEF NandInv
<1> QED
  BY <1>2, <1>4, <1>5, <1>6, <1>7 DEF NandInv

\* And the beginning of an operation.
LEMMA BeginKeeps == NandInv /\ Begin => NandInv'
<1> SUFFICES ASSUME NandInv, Begin PROVE NandInv'
  OBVIOUS
<1>1. /\ script' \in Scripts /\ pc' = 0 /\ chip' = chip /\ image' = image /\ flash' = flash
  BY DEF Begin
<1>2. /\ Chip(chip) /\ Stored(chip) /\ image \in FileType /\ image.oob = chip.oob
      /\ (~chip.dirty => image.cells = chip.cells) /\ flash = chip.cells
  BY DEF NandInv
<1> DEFINE s == script'
<1>3. Scripted(s) /\ (s.confirm # 0 => s.refused = (chip.oob /\ Bad(flash, Block(s.page))))
  BY <1>1, ScriptsScripted
<1>4. Size(s.steps) \in Nat /\ s.confirm \in Nat
  BY <1>3, ScriptedSize
<1>5. \E f : Run(s.steps, f, 0) /\ f[0] = chip
  <2> DEFINE f == [i \in 0..0 |-> chip]
  <2>1. f[0] = chip /\ \A i \in 0..0 : Chip(f[i])
    BY <1>2
  <2> HIDE DEF f
  <2>2. Run(s.steps, f, 0)
    BY <2>1 DEF Run
  <2> QED BY <2>1, <2>2
<1>6. 0 < s.confirm => s.refused = Refuses(chip, s.page)
  BY <1>2, <1>3, <1>4 DEF Refuses
<1>7. InScript'
  BY <1>1, <1>3, <1>4, <1>5, <1>6 DEF InScript
<1> QED
  BY <1>1, <1>2, <1>7 DEF NandInv

\* The invariant holds at the start,
LEMMA NandInvInit == NandStart => NandInv
<1> SUFFICES ASSUME NandStart PROVE NandInv
  OBVIOUS
<1>1. image \in FileType /\ flash = image.cells /\ script = NoScript /\ pc = 0
      /\ chip = NandInit(image.oob, image.cells, image.pages)
  BY GuestAssumption DEF NandStart, FileType
<1>2. Chip(chip) /\ chip.oob = image.oob /\ chip.cells = image.cells /\ chip.dirty = FALSE
  <2> DEFINE o == image.oob
             c == image.cells
             g == image.pages
             n == NandInit(o, c, g)
  <2>1. chip = n
    BY <1>1
  <2> HIDE DEF o, c, g
  <2>2. Fresh(n, o, c)
    BY InitChip
  <2> HIDE DEF n
  <2> QED BY <2>1, <2>2 DEF Fresh, o, c
<1>3. Stored(chip)
  BY <1>1, <1>2 DEF Stored, FileType
<1> QED
  BY <1>1, <1>2, <1>3 DEF NandInv

\* and every step keeps it.
LEMMA NandInvNext == NandInv /\ [NandNext]_nandVars => NandInv'
<1> SUFFICES ASSUME NandInv, [NandNext]_nandVars PROVE NandInv'
  OBVIOUS
<1>1. CASE Begin
  BY <1>1, BeginKeeps
<1>2. CASE Step
  BY <1>2, StepKeeps
<1>3. CASE Finish \/ WarmReset
  <2>1. /\ chip' = chip /\ image' = image /\ flash' = flash /\ script' = NoScript /\ pc' = 0
    BY <1>3 DEF Finish, WarmReset
  <2> QED BY <2>1 DEF NandInv
<1>4. CASE Restart
  BY <1>4, RestartKeeps
<1>5. CASE UNCHANGED nandVars
  <2>1. /\ chip' = chip /\ image' = image /\ flash' = flash /\ script' = script /\ pc' = pc
    BY <1>5 DEF nandVars
  <2> QED BY <2>1 DEF NandInv, InScript
<1> QED
  BY <1>1, <1>2, <1>3, <1>4, <1>5 DEF NandNext

(***************************************************************************)
(* The cells of the NAND change with the confirming access of a completed  *)
(* program or erase, as it commanded, and with nothing else: for any image *)
(* with real or synthetic spare bytes, any size of chip and block, by any  *)
(* of the three routes, whatever a warm reset cut off before in any of the *)
(* engines, and across restarts from the file (nand_commit_program,        *)
(* nand_commit_erase, be300_sync_nand_image).                              *)
(***************************************************************************)
THEOREM FlashAsCommanded == NandSpec => []NandAsCommanded
<1>1. NandInv => NandAsCommanded
  BY DEF NandInv, NandAsCommanded
<1> QED
  BY NandInvInit, NandInvNext, <1>1, PTL DEF NandSpec

(***************************************************************************)
(* The access point's handshake: the types of its messages and its state.  *)
(***************************************************************************)
Kinds  == {"none", "first", "third", "group"}
Msg    == [kind : Kinds, replay : Nat, nonce : Nat]
SecRec == [mode : {"open", "wpa", "wpa2"}, stage : {0, 1, 2, 3, 4}, pending : Msg, authorized : BOOLEAN,
           pairwise : BOOLEAN, group : BOOLEAN, ptk : Nat, anonce : Nat, replay : Nat]
RxFrame == [id : Nat, to : Receivers, cells : Nat, message : Msg]
NetFrames == [id : Nat, to : Receivers, cells : Nat]

\* The replay counter of each message of a handshake.
Count(kind) == CASE kind = "first" -> 1 [] kind = "third" -> 2 [] kind = "group" -> 3 [] OTHER -> 0

\* A message of the handshake that is going on is one it has sent; others are older.
Known(s, m) ==
    /\ m.nonce <= s.anonce
    /\ s.stage >= 1 /\ m.nonce = s.anonce
          => m.kind # "none" /\ m.replay = Count(m.kind) /\ m.replay <= s.replay
HeardBy(s, heard, kind) == \E m \in heard : m.kind = kind /\ m.nonce = s.anonce

\* What each stage of the handshake goes to show.
Staged(s, st) ==
    /\ s.stage >= 1 => s.anonce >= 1
    /\ s.stage = 1 => s.replay = 1
    /\ s.stage = 2 => s.replay = 2
    /\ s.stage = 3 => s.replay = 3 /\ s.mode = "wpa"
    /\ s.stage >= 2 => st.secret /\ s.ptk = s.anonce
    /\ s.stage >= 3 => HeardBy(s, st.heard, "third")
    /\ s.stage = 4 /\ s.mode = "wpa" => HeardBy(s, st.heard, "group")
    /\ s.authorized => s.stage = 4
    /\ s.pairwise => s.stage >= 2 /\ s.anonce \in st.keys.pairwise
    /\ s.group => s.stage >= 2 /\ s.anonce \in st.keys.group
Handshake(s, st) ==
    /\ s \in SecRec
    /\ s.pending = SecNothing \/ Known(s, s.pending)
    /\ \A m \in st.heard : Known(s, m)
    /\ IF SecRobust(s) THEN Staged(s, st) ELSE s.stage = 0

StationRec == [heard : SUBSET Msg, secret : BOOLEAN,
               keys : [pairwise : SUBSET Nat, group : SUBSET Nat]]

\* A frame of the queue is data, or a message of the handshake.
Queued(s, q) == \A i \in 1..Len(q) : q[i].message = SecNothing \/ Known(s, q[i].message)
Link(n, st) == /\ {"sec", "rx", "host"} \subseteq DOMAIN n /\ n.rx \in Seq(RxFrame)
               /\ Handshake(n.sec, st) /\ Queued(n.sec, n.rx)
SecureInv ==
    /\ card \in NicKinds /\ station \in StationRec /\ wire \in Seq(NetFrames)
    /\ made \in [frames : Nat, config : Nat]
    /\ card = "wl54cf" => Link(nic, station)

\* What the handshake shows, for a given state of it.
LEMMA SecureGives ==
    ASSUME SecureInv
    PROVE  SecureBeforeData
<1> SUFFICES ASSUME card = "wl54cf", SecRobust(nic.sec)
             PROVE  LET s == nic.sec
                        heard(kind) == \E m \in station.heard : m.kind = kind /\ m.nonce = s.anonce
                    IN  /\ s.authorized => station.secret /\ heard("third")
                                           /\ (s.mode = "wpa" => heard("group"))
                        /\ s.pairwise => s.anonce \in station.keys.pairwise
                        /\ s.group => s.anonce \in station.keys.group
  BY DEF SecureBeforeData
<1>1. Staged(nic.sec, station)
  BY DEF SecureInv, Link, Handshake
<1> QED
  BY <1>1 DEF Staged, HeardBy

(***************************************************************************)
(* The operators of the access point.                                      *)
(***************************************************************************)

\* Nothing that is known of a state is lost when the association goes.
LEMMA ResetKeeps ==
    ASSUME NEW s, NEW st \in StationRec, Handshake(s, st)
    PROVE  /\ Handshake(SecReset(s), st) /\ SecReset(s).anonce = s.anonce
           /\ SecReset(s).stage = 0 /\ SecReset(s).mode = s.mode
           /\ \A m : Known(s, m) => Known(SecReset(s), m)
<1> DEFINE t == SecReset(s)
           none == SecNothing
<1>1. s \in SecRec /\ none \in Msg
  BY DEF Handshake, SecNothing, Msg, Kinds
<1>2. t = [s EXCEPT !.stage = 0, !.pending = none, !.authorized = FALSE, !.pairwise = FALSE,
                    !.group = FALSE, !.ptk = 0]
  BY DEF SecReset
<1> HIDE DEF t, none
<1>3. /\ t \in SecRec /\ t.stage = 0 /\ t.pending = none /\ ~t.authorized /\ ~t.pairwise /\ ~t.group
      /\ t.mode = s.mode /\ t.anonce = s.anonce
  BY <1>1, <1>2 DEF SecRec
<1>4. ASSUME NEW m, Known(s, m) PROVE Known(t, m)
  BY <1>3, <1>4 DEF Known
<1>5. Staged(t, st)
  BY <1>3 DEF Staged
<1>6. Handshake(t, st)
  BY <1>3, <1>4, <1>5 DEF Handshake, none
<1> QED
  BY <1>3, <1>4, <1>6 DEF t

\* A new association begins a handshake of its own.
LEMMA StartKeeps ==
    ASSUME NEW s, NEW st \in StationRec, Handshake(s, st)
    PROVE  Handshake(SecStart(s), st) /\ \A m \in Msg : Known(s, m) => Known(SecStart(s), m)
<1> DEFINE r == SecReset(s)
           t == SecStart(s)
           none == SecNothing
<1>1. /\ Handshake(r, st) /\ r.anonce = s.anonce /\ r.stage = 0 /\ r.mode = s.mode
      /\ \A m : Known(s, m) => Known(r, m)
  BY ResetKeeps
<1>0. s \in SecRec /\ r \in SecRec /\ r.pending = none /\ ~r.pairwise /\ ~r.group /\ ~r.authorized
  BY <1>1 DEF Handshake, SecReset, SecRec
<1> HIDE DEF r
<1>2. CASE ~SecRobust(s)
  <2> DEFINE u == [r EXCEPT !.authorized = TRUE]
  <2>1. t = u
    BY <1>2 DEF SecStart, r
  <2>2. /\ u \in SecRec /\ u.stage = 0 /\ u.anonce = r.anonce /\ u.mode = r.mode /\ u.pending = r.pending
    BY <1>0, <1>1 DEF SecRec
  <2> HIDE DEF u, t
  <2>3. ASSUME NEW m, Known(r, m) PROVE Known(u, m)
    BY <1>1, <2>2, <2>3 DEF Known
  <2>4. ~SecRobust(u)
    BY <1>1, <1>2, <2>2 DEF SecRobust
  <2>5. Handshake(u, st)
    BY <1>1, <2>2, <2>3, <2>4 DEF Handshake
  <2> QED BY <1>1, <2>1, <2>3, <2>5 DEF t
<1>3. CASE SecRobust(s)
  <2> DEFINE a == s.anonce + 1
             p == [kind |-> "first", replay |-> 1, nonce |-> a]
             u == [r EXCEPT !.anonce = a, !.replay = 1, !.pending = p, !.stage = 1]
  <2>1. t = u
    BY <1>0, <1>1, <1>3 DEF SecStart, SecBuild, r, SecRec
  <2>2. a \in Nat /\ a >= 1 /\ a > s.anonce /\ s.anonce \in Nat
        /\ p \in Msg /\ p.kind = "first" /\ p.replay = 1 /\ p.nonce = a
    BY <1>0 DEF SecRec, Msg, Kinds
  <2> HIDE DEF a, p
  <2>3. /\ u \in SecRec /\ u.stage = 1 /\ u.anonce = a /\ u.mode = r.mode /\ u.pending = p
        /\ u.replay = 1 /\ ~u.pairwise /\ ~u.group /\ ~u.authorized
    BY <1>0, <2>2 DEF SecRec
  <2> HIDE DEF u, t
  <2>4. Known(u, p)
    BY <2>2, <2>3 DEF Known, Count
  <2>5. ASSUME NEW m \in Msg, Known(s, m) PROVE Known(u, m)
    <3>1. m.nonce \in Nat
      BY DEF Msg
    <3> QED BY <2>2, <2>3, <2>5, <3>1 DEF Known
  <2>6. Staged(u, st)
    BY <2>2, <2>3 DEF Staged
  <2>7. \A m \in st.heard : Known(u, m)
    <3>1. st.heard \subseteq Msg
      BY DEF StationRec
    <3> QED BY <2>5, <3>1 DEF Handshake
  <2>8. SecRobust(u)
    BY <1>1, <1>3, <2>3 DEF SecRobust
  <2>9. Handshake(u, st)
    BY <2>3, <2>4, <2>6, <2>7, <2>8 DEF Handshake
  <2> QED BY <2>1, <2>5, <2>9 DEF t
<1> QED
  BY <1>2, <1>3

\* What the handshake has sent stays known as it goes on.
Outgrown(s, t) == \A m \in Msg : Known(s, m) => Known(t, m)

\* A step of the handshake: the stage, what it makes of the counters, and the message it sends.
LEMMA StageKeeps ==
    ASSUME NEW s, NEW st \in StationRec, Handshake(s, st), SecRobust(s), s.stage >= 1,
           NEW t \in SecRec, t.mode = s.mode, t.anonce = s.anonce, t.replay \in {s.replay, s.replay + 1},
           t.stage >= s.stage, t.pairwise = s.pairwise, t.group = s.group, Staged(t, st),
           \/ t.pending = s.pending
           \/ /\ t.pending.nonce = t.anonce /\ t.pending.replay = t.replay
              /\ t.pending.kind # "none" /\ Count(t.pending.kind) = t.replay
    PROVE  Handshake(t, st) /\ Outgrown(s, t)
<1>1. s \in SecRec /\ s.replay \in Nat /\ t.replay \in Nat /\ s.anonce \in Nat
      /\ s.stage \in Nat /\ t.stage \in Nat /\ t.pending \in Msg /\ s.pending \in Msg
  BY DEF Handshake, SecRec
<1>2. ASSUME NEW m \in Msg, Known(s, m) PROVE Known(t, m)
  <2>1. m.replay \in Nat
    BY DEF Msg
  <2> QED BY <1>1, <1>2, <2>1 DEF Known
<1>3. t.pending = SecNothing \/ Known(t, t.pending)
  <2>1. CASE t.pending = s.pending
    BY <1>1, <1>2, <2>1 DEF Handshake
  <2>2. CASE t.pending # s.pending
    BY <1>1, <2>2 DEF Known
  <2> QED BY <2>1, <2>2
<1>4. \A m \in st.heard : Known(t, m)
  <2>1. st.heard \subseteq Msg
    BY DEF StationRec
  <2> QED BY <1>2, <2>1 DEF Handshake
<1>5. SecRobust(t)
  BY DEF SecRobust
<1> QED
  BY <1>2, <1>3, <1>4, <1>5 DEF Handshake, Outgrown

\* A key frame of the station answers a message it has heard.
Answers(p, m, st) ==
    /\ p.replay = m.replay /\ p.pairwise = (m.kind # "group")
    /\ p.key = IF st.secret THEN m.nonce ELSE 0

\* An answer with the right code is to the last message of this association.
LEMMA KeyFrameKeeps ==
    ASSUME NEW s, NEW st \in StationRec, Handshake(s, st), NEW m \in st.heard, NEW p, Answers(p, m, st)
    PROVE  Handshake(SecKeyFrame(s, p), st) /\ Outgrown(s, SecKeyFrame(s, p))
<1> DEFINE k == IF s.stage = 1 THEN [s EXCEPT !.ptk = s.anonce] ELSE s
           t == SecKeyFrame(s, p)
<1>1. /\ s \in SecRec /\ s.anonce \in Nat /\ s.replay \in Nat /\ s.stage \in {0, 1, 2, 3, 4}
      /\ Known(s, m) /\ m \in Msg /\ m.nonce \in Nat /\ m.replay \in Nat /\ m.kind \in Kinds
  BY DEF Handshake, SecRec, StationRec, Msg
<1>2. Outgrown(s, s)
  BY DEF Outgrown
<1>3. CASE ~SecRobust(s) \/ p.replay # s.replay
  BY <1>2, <1>3 DEF SecKeyFrame
<1>4. CASE SecRobust(s) /\ p.replay = s.replay
  <2>1. Staged(s, st)
    BY <1>4 DEF Handshake
  <2>2. /\ k \in SecRec /\ k.mode = s.mode /\ k.anonce = s.anonce /\ k.replay = s.replay
        /\ k.stage = s.stage /\ k.pairwise = s.pairwise /\ k.group = s.group /\ k.pending = s.pending
        /\ k.authorized = s.authorized /\ k.ptk = IF s.stage = 1 THEN s.anonce ELSE s.ptk
    BY <1>1 DEF SecRec
  <2>8. t = IF p.key # k.ptk THEN k
            ELSE IF s.stage = 1 /\ p.pairwise
            THEN [SecBuild([k EXCEPT !.replay = @ + 1], "third") EXCEPT !.stage = 2]
            ELSE IF s.stage = 2 /\ p.pairwise /\ p.empty
            THEN IF s.mode = "wpa2" THEN [k EXCEPT !.stage = 4, !.authorized = TRUE]
                 ELSE [SecBuild([k EXCEPT !.replay = @ + 1], "group") EXCEPT !.stage = 3]
            ELSE IF s.stage = 3 /\ ~p.pairwise THEN [k EXCEPT !.stage = 4, !.authorized = TRUE]
            ELSE k
    BY <1>4 DEF SecKeyFrame
  <2> HIDE DEF k, t
  <2>3. Staged(k, st)
    BY <1>1, <2>1, <2>2 DEF Staged, HeardBy
  <2>4. Handshake(k, st) /\ Outgrown(s, k)
    <3>1. SecRobust(k) /\ \A x : Known(s, x) => Known(k, x)
      BY <1>4, <2>2 DEF SecRobust, Known
    <3> QED BY <2>2, <2>3, <3>1 DEF Handshake, Outgrown
  <2>5. CASE p.key = k.ptk /\ s.stage \in {1, 2, 3}
    <3>1. s.anonce >= 1 /\ k.ptk = s.anonce
      BY <1>1, <2>1, <2>2, <2>5 DEF Staged
    <3>2. st.secret /\ m.nonce = s.anonce
      BY <1>1, <2>5, <3>1 DEF Answers
    <3>3. m.kind # "none" /\ m.replay = Count(m.kind) /\ m.replay = s.replay
      BY <1>1, <1>4, <2>5, <3>2 DEF Known, Answers
    <3>4. \A kind \in Kinds : kind # "none" /\ Count(kind) = 2 => kind = "third"
      BY DEF Kinds, Count
    <3>5. CASE s.stage = 1 /\ p.pairwise
      <4> DEFINE q == [kind |-> "third", replay |-> 2, nonce |-> k.anonce]
                 u == [k EXCEPT !.replay = 2, !.pending = q, !.stage = 2]
      <4>1. k.replay = 1
        BY <2>1, <2>2, <3>5 DEF Staged
      <4>2. t = u
        <5> DEFINE k1 == [k EXCEPT !.replay = 2]
        <5>1. [k EXCEPT !.replay = @ + 1] = k1
          BY <4>1
        <5>2. k1.replay = 2 /\ k1.anonce = k.anonce
          BY <2>2 DEF SecRec
        <5> HIDE DEF k1
        <5>3. SecBuild(k1, "third") = [k1 EXCEPT !.pending = q]
          BY <5>2 DEF SecBuild
        <5>4. t = [SecBuild(k1, "third") EXCEPT !.stage = 2]
          BY <2>5, <2>8, <3>5, <5>1
        <5> QED BY <5>3, <5>4 DEF k1
      <4>3. q \in Msg /\ q.kind = "third" /\ q.replay = 2 /\ q.nonce = k.anonce /\ Count("third") = 2
        BY <1>1, <2>2 DEF Msg, Kinds, Count
      <4> HIDE DEF q
      <4>4. /\ u \in SecRec /\ u.replay = 2 /\ u.pending = q /\ u.stage = 2 /\ u.mode = k.mode
            /\ u.anonce = k.anonce /\ u.pairwise = k.pairwise /\ u.group = k.group
            /\ u.ptk = k.ptk /\ u.authorized = k.authorized
        BY <2>2, <4>3 DEF SecRec
      <4> HIDE DEF u
      <4>5. Staged(u, st)
        BY <2>1, <2>2, <3>1, <3>2, <3>5, <4>4 DEF Staged
      <4>6. Handshake(u, st) /\ Outgrown(s, u)
        <5>1. s.replay = 1 /\ s.stage = 1 /\ s.replay + 1 = 2
          BY <2>2, <3>5, <4>1
        <5>2. /\ u.mode = s.mode /\ u.anonce = s.anonce /\ u.replay \in {s.replay, s.replay + 1}
              /\ u.stage >= s.stage /\ u.pairwise = s.pairwise /\ u.group = s.group /\ s.stage >= 1
          BY <2>2, <4>4, <5>1
        <5>3. /\ u.pending.nonce = u.anonce /\ u.pending.replay = u.replay
              /\ u.pending.kind # "none" /\ Count(u.pending.kind) = u.replay
          BY <4>3, <4>4
        <5> QED BY <1>4, <4>4, <4>5, <5>2, <5>3, StageKeeps
      <4> QED BY <4>2, <4>6 DEF t
    <3>6. CASE s.stage = 2 /\ p.pairwise /\ p.empty
      <4>1. HeardBy(s, st.heard, "third") /\ s.replay = 2 /\ k.replay = 2
        <5>1. s.replay = 2
          BY <2>1, <3>6 DEF Staged
        <5>2. m.kind = "third"
          BY <1>1, <3>3, <3>4, <5>1
        <5> QED BY <2>2, <3>2, <5>1, <5>2 DEF HeardBy
      <4>2. CASE s.mode = "wpa2"
        <5> DEFINE u == [k EXCEPT !.stage = 4, !.authorized = TRUE]
        <5>1. t = u
          BY <2>5, <2>8, <3>6, <4>2
        <5>2. /\ u \in SecRec /\ u.replay = 2 /\ u.pending = s.pending /\ u.stage = 4 /\ u.mode = k.mode
              /\ u.anonce = k.anonce /\ u.pairwise = k.pairwise /\ u.group = k.group
              /\ u.ptk = k.ptk
          BY <2>2, <4>1 DEF SecRec
        <5> HIDE DEF u
        <5>3. Staged(u, st)
          BY <2>1, <2>2, <3>1, <3>2, <3>6, <4>1, <4>2, <5>2 DEF Staged, HeardBy
        <5>4. Handshake(u, st) /\ Outgrown(s, u)
          BY <1>1, <1>4, <2>2, <3>6, <4>1, <5>2, <5>3, StageKeeps
        <5> QED BY <5>1, <5>4 DEF t
      <4>3. CASE s.mode # "wpa2"
        <5> DEFINE q == [kind |-> "group", replay |-> 3, nonce |-> k.anonce]
                   u == [k EXCEPT !.replay = 3, !.pending = q, !.stage = 3]
        <5>0. s.mode = "wpa"
          BY <1>4, <4>3 DEF SecRobust
        <5>2. t = u
          <6> DEFINE k1 == [k EXCEPT !.replay = 3]
          <6>1. [k EXCEPT !.replay = @ + 1] = k1
            BY <4>1
          <6>2. k1.replay = 3 /\ k1.anonce = k.anonce
            BY <2>2 DEF SecRec
          <6> HIDE DEF k1
          <6>3. SecBuild(k1, "group") = [k1 EXCEPT !.pending = q]
            BY <6>2 DEF SecBuild
          <6>4. t = [SecBuild(k1, "group") EXCEPT !.stage = 3]
            BY <2>5, <2>8, <3>6, <4>3, <6>1
          <6> QED BY <6>3, <6>4 DEF k1
        <5>3. q \in Msg /\ q.kind = "group" /\ q.replay = 3 /\ q.nonce = k.anonce /\ Count("group") = 3
          BY <1>1, <2>2 DEF Msg, Kinds, Count
        <5> HIDE DEF q
        <5>4. /\ u \in SecRec /\ u.replay = 3 /\ u.pending = q /\ u.stage = 3 /\ u.mode = k.mode
              /\ u.anonce = k.anonce /\ u.pairwise = k.pairwise /\ u.group = k.group
              /\ u.ptk = k.ptk /\ u.authorized = k.authorized
          BY <2>2, <5>3 DEF SecRec
        <5> HIDE DEF u
        <5>5. Staged(u, st)
          BY <2>1, <2>2, <3>1, <3>2, <3>6, <4>1, <5>0, <5>4 DEF Staged, HeardBy
        <5>6. Handshake(u, st) /\ Outgrown(s, u)
          BY <1>1, <1>4, <2>2, <3>6, <4>1, <5>3, <5>4, <5>5, StageKeeps
        <5> QED BY <5>2, <5>6 DEF t
      <4> QED BY <4>2, <4>3
    <3>7. CASE s.stage = 3 /\ ~p.pairwise
      <4> DEFINE u == [k EXCEPT !.stage = 4, !.authorized = TRUE]
      <4>1. t = u
        BY <2>5, <2>8, <3>7
      <4>2. /\ u \in SecRec /\ u.replay = s.replay /\ u.pending = s.pending /\ u.stage = 4 /\ u.mode = k.mode
            /\ u.anonce = k.anonce /\ u.pairwise = k.pairwise /\ u.group = k.group /\ u.ptk = k.ptk
        BY <2>2 DEF SecRec
      <4> HIDE DEF u
      <4>3. HeardBy(s, st.heard, "group")
        BY <3>2, <3>7 DEF HeardBy, Answers
      <4>4. Staged(u, st)
        BY <2>1, <2>2, <3>1, <3>2, <3>7, <4>2, <4>3 DEF Staged, HeardBy
      <4>5. Handshake(u, st) /\ Outgrown(s, u)
        BY <1>1, <1>4, <2>2, <3>7, <4>2, <4>4, StageKeeps
      <4> QED BY <4>1, <4>5 DEF t
    <3>8. CASE /\ ~(s.stage = 1 /\ p.pairwise) /\ ~(s.stage = 2 /\ p.pairwise /\ p.empty)
               /\ ~(s.stage = 3 /\ ~p.pairwise)
      BY <2>4, <2>8, <3>8 DEF t
    <3> QED BY <3>5, <3>6, <3>7, <3>8
  <2>6. CASE ~(p.key = k.ptk /\ s.stage \in {1, 2, 3})
    BY <2>4, <2>6, <2>8 DEF t
  <2> QED BY <2>5, <2>6
<1> QED
  BY <1>3, <1>4

\* A key that fits is one that the station has installed for this association.
LEMMA SetKeyKeeps ==
    ASSUME NEW s, NEW st \in StationRec, Handshake(s, st), NEW which \in {"pairwise", "group"},
           NEW nonce \in st.keys[which]
    PROVE  Handshake(SecSetKey(s, which, nonce), st) /\ Outgrown(s, SecSetKey(s, which, nonce))
<1>1. s \in SecRec /\ Outgrown(s, s)
  BY DEF Handshake, Outgrown
<1>2. CASE ~SecKeyFits(s, nonce)
  BY <1>1, <1>2 DEF SecSetKey
<1>3. CASE SecKeyFits(s, nonce)
  <2> DEFINE u == [s EXCEPT ![which] = TRUE]
  <2>1. s.stage >= 2 /\ nonce = s.anonce /\ SecSetKey(s, which, nonce) = u
    BY <1>3 DEF SecSetKey, SecKeyFits
  <2>2. /\ u \in SecRec /\ u.stage = s.stage /\ u.mode = s.mode /\ u.anonce = s.anonce
        /\ u.replay = s.replay /\ u.ptk = s.ptk /\ u.authorized = s.authorized /\ u.pending = s.pending
        /\ u.pairwise => s.pairwise \/ which = "pairwise"
        /\ u.group => s.group \/ which = "group"
    <3>1. CASE which = "pairwise"
      BY <1>1, <3>1 DEF SecRec
    <3>2. CASE which = "group"
      BY <1>1, <3>2 DEF SecRec
    <3> QED BY <3>1, <3>2
  <2> HIDE DEF u
  <2>3. SecRobust(s)
    BY <1>1, <2>1 DEF Handshake, SecRec
  <2>4. Staged(u, st)
    BY <2>1, <2>2, <2>3 DEF Handshake, Staged, HeardBy
  <2>5. \A m : Known(s, m) => Known(u, m)
    BY <2>2 DEF Known
  <2>6. SecRobust(u)
    BY <2>2, <2>3 DEF SecRobust
  <2>7. Handshake(u, st) /\ Outgrown(s, u)
    BY <2>2, <2>4, <2>5, <2>6 DEF Handshake, Outgrown
  <2> QED BY <2>1, <2>7
<1> QED
  BY <1>2, <1>3

\* A key that is removed.
LEMMA DropKeyKeeps ==
    ASSUME NEW s, NEW st, Handshake(s, st), NEW which \in {"pairwise", "group"}
    PROVE  Handshake(SecDropKey(s, which), st) /\ Outgrown(s, SecDropKey(s, which))
<1> DEFINE u == [s EXCEPT ![which] = FALSE]
<1>1. s \in SecRec /\ SecDropKey(s, which) = u
  BY DEF Handshake, SecDropKey
<1>2. /\ u \in SecRec /\ u.stage = s.stage /\ u.mode = s.mode /\ u.anonce = s.anonce
      /\ u.replay = s.replay /\ u.ptk = s.ptk /\ u.authorized = s.authorized /\ u.pending = s.pending
      /\ u.pairwise => s.pairwise
      /\ u.group => s.group
  <2>1. CASE which = "pairwise"
    BY <1>1, <2>1 DEF SecRec
  <2>2. CASE which = "group"
    BY <1>1, <2>2 DEF SecRec
  <2> QED BY <2>1, <2>2
<1> HIDE DEF u
<1>3. \A m : Known(s, m) => Known(u, m)
  BY <1>2 DEF Known
<1>4. SecRobust(u) = SecRobust(s)
  BY <1>2 DEF SecRobust
<1>5. Staged(s, st) => Staged(u, st)
  BY <1>2 DEF Staged, HeardBy
<1>6. Handshake(u, st) /\ Outgrown(s, u)
  BY <1>2, <1>3, <1>4, <1>5 DEF Handshake, Outgrown
<1> QED
  BY <1>1, <1>6

\* A station that knows more.
LEMMA StationGrows ==
    ASSUME NEW s, NEW st, NEW more, Handshake(s, st), more.secret = st.secret,
           st.heard \subseteq more.heard, \A m \in more.heard : Known(s, m),
           st.keys.pairwise \subseteq more.keys.pairwise, st.keys.group \subseteq more.keys.group
    PROVE  Handshake(s, more)
<1>1. Staged(s, st) => Staged(s, more)
  BY DEF Staged, HeardBy
<1> QED
  BY <1>1 DEF Handshake

(***************************************************************************)
(* The operators of the card.                                              *)
(***************************************************************************)

SameLink(n, t) == DOMAIN t = DOMAIN n /\ t.sec = n.sec /\ t.rx = n.rx

\* A step that leaves the access point and the queue alone.
LEMMA SameKeeps ==
    ASSUME NEW n, NEW st, Link(n, st), NEW t, SameLink(n, t)
    PROVE  Link(t, st)
BY DEF Link, SameLink

\* A step of the access point that leaves the queue alone.
LEMMA SecMoves ==
    ASSUME NEW n, NEW st, NEW more, Link(n, st), NEW t, DOMAIN t = DOMAIN n, t.rx = n.rx,
           Handshake(t.sec, more), Outgrown(n.sec, t.sec)
    PROVE  Link(t, more)
<1>1. n.rx \in Seq(RxFrame) /\ Queued(n.sec, n.rx)
  BY DEF Link
<1>2. ASSUME NEW i \in 1..Len(n.rx) PROVE n.rx[i].message = SecNothing \/ Known(t.sec, n.rx[i].message)
  <2>1. n.rx[i] \in RxFrame
    BY <1>1, ElementOfSeq
  <2>2. n.rx[i].message \in Msg
    BY <2>1 DEF RxFrame
  <2> QED BY <1>1, <2>2 DEF Queued, Outgrown
<1> QED
  BY <1>2 DEF Link, Queued

\* A frame that joins the queue.
LEMMA JoinKeeps ==
    ASSUME NEW n, NEW st, Link(n, st), NEW f \in RxFrame, f.message = SecNothing \/ Known(n.sec, f.message)
    PROVE  Link(WlQueued(n, f), st) /\ WlQueued(n, f).sec = n.sec
<1> DEFINE t == WlQueued(n, f)
           q == Append(n.rx, f)
<1>1. /\ n.rx \in Seq(RxFrame) /\ Queued(n.sec, n.rx) /\ {"sec", "rx", "host"} \subseteq DOMAIN n
      /\ Handshake(n.sec, st)
  BY DEF Link
<1>2. DOMAIN t = DOMAIN n /\ t.sec = n.sec /\ t.rx = q
  BY <1>1 DEF WlQueued
<1>3. /\ q \in Seq(RxFrame) /\ Len(q) = Len(n.rx) + 1 /\ Len(n.rx) \in Nat
      /\ \A i \in 1..Len(n.rx) : q[i] = n.rx[i]
      /\ q[Len(n.rx) + 1] = f
  BY <1>1, AppendProperties, LenProperties
<1> HIDE DEF t, q
<1>4. Queued(n.sec, q)
  <2>1. ASSUME NEW i \in 1..Len(q) PROVE q[i].message = SecNothing \/ Known(n.sec, q[i].message)
    <3>1. i \in 1..Len(n.rx) \/ i = Len(n.rx) + 1
      BY <1>3
    <3> QED BY <1>1, <1>3, <3>1 DEF Queued
  <2> QED BY <2>1 DEF Queued
<1>5. Link(t, st)
  BY <1>1, <1>2, <1>3, <1>4 DEF Link
<1> QED
  BY <1>2, <1>5 DEF t

\* The frame at the head of the queue leaves it.
LEMMA PopKeeps ==
    ASSUME NEW n, NEW st, Link(n, st), n.rx # <<>>
    PROVE  /\ Link([n EXCEPT !.rx = Tail(@)], st)
           /\ Head(n.rx) \in RxFrame
           /\ Head(n.rx).message = SecNothing \/ Known(n.sec, Head(n.rx).message)
<1> DEFINE q == Tail(n.rx)
           t == [n EXCEPT !.rx = q]
<1>1. /\ n.rx \in Seq(RxFrame) /\ Queued(n.sec, n.rx) /\ {"sec", "rx", "host"} \subseteq DOMAIN n
      /\ Handshake(n.sec, st)
  BY DEF Link
<1>2. /\ Len(n.rx) \in Nat /\ Len(n.rx) >= 1 /\ Head(n.rx) = n.rx[1] /\ 1 \in 1..Len(n.rx)
  BY <1>1, LenProperties, EmptySeq, HeadTailProperties
<1>3. /\ q \in Seq(RxFrame) /\ Len(q) = Len(n.rx) - 1
      /\ \A i \in 1..Len(q) : q[i] = n.rx[i + 1]
  BY <1>1, HeadTailProperties
<1>4. n.rx[1] \in RxFrame
  BY <1>1, <1>2, ElementOfSeq
<1> HIDE DEF q
<1>5. DOMAIN t = DOMAIN n /\ t.sec = n.sec /\ t.rx = q
  BY <1>1
<1> HIDE DEF t
<1>6. Queued(n.sec, q)
  <2>1. ASSUME NEW i \in 1..Len(q) PROVE q[i].message = SecNothing \/ Known(n.sec, q[i].message)
    <3>1. i + 1 \in 1..Len(n.rx)
      BY <1>2, <1>3
    <3> QED BY <1>1, <1>3, <3>1 DEF Queued
  <2> QED BY <2>1 DEF Queued
<1>7. Link(t, st)
  BY <1>1, <1>3, <1>5, <1>6 DEF Link
<1> QED
  BY <1>1, <1>2, <1>4, <1>7 DEF q, t, Queued

\* What a station command changes of the access point.
LEMMA ObeyedKeeps ==
    ASSUME NEW n, NEW st \in StationRec, Link(n, st), NEW c,
           c.op \in {"pairwise", "group"} => c.arg \in st.keys[c.op]
    PROVE  Link(WlObeyed(n, c), st)
<1> DEFINE t == WlObeyed(n, c)
           s == n.sec
<1>1. {"sec", "rx", "host"} \subseteq DOMAIN n /\ Handshake(s, st)
  BY DEF Link
<1>2. ASSUME NEW x, \/ t = [n EXCEPT !.sec = x]
                    \/ t = [n EXCEPT !.associated = FALSE, !.authenticated = FALSE, !.sec = x]
                    \/ \E b : t = [n EXCEPT !.associated = b, !.sec = x],
             Handshake(x, st), Outgrown(s, x)
      PROVE  Link(t, st)
  <2>1. DOMAIN t = DOMAIN n /\ t.rx = n.rx /\ t.sec = x
    <3> HIDE DEF t
    <3> QED BY <1>1, <1>2
  <2> HIDE DEF t
  <2> QED BY <1>2, <2>1, SecMoves
<1>3. ASSUME SameLink(n, t) PROVE Link(t, st)
  BY <1>3, SameKeeps
<1>4. Outgrown(s, s) /\ Handshake(s, st)
  BY <1>1 DEF Outgrown
<1>5. ASSUME c.op = "authenticate" PROVE Link(t, st)
  <2>1. t = [n EXCEPT !.authenticated = @ \/ n.radio]
    BY <1>5 DEF WlObeyed
  <2> HIDE DEF t
  <2>2. SameLink(n, t)
    BY <1>1, <2>1 DEF SameLink
  <2> QED BY <1>3, <2>2
<1>6. ASSUME c.op = "associate" PROVE Link(t, st)
  <2> DEFINE x == IF WlAssociates(n, c) THEN SecStart(s) ELSE s
  <2>1. t = [n EXCEPT !.associated = WlAssociates(n, c), !.sec = x]
    BY <1>6 DEF WlObeyed
  <2>2. Handshake(x, st) /\ Outgrown(s, x)
    BY <1>4, StartKeeps DEF Outgrown
  <2> HIDE DEF x, t
  <2> QED BY <1>2, <2>1, <2>2
<1>7. ASSUME c.op = "deauthenticate" PROVE Link(t, st)
  <2> DEFINE x == SecReset(s)
  <2>1. t = [n EXCEPT !.associated = FALSE, !.authenticated = FALSE, !.sec = x]
    BY <1>7 DEF WlObeyed
  <2>2. Handshake(x, st) /\ Outgrown(s, x)
    BY <1>4, ResetKeeps DEF Outgrown
  <2> HIDE DEF x, t
  <2> QED BY <1>2, <2>1, <2>2
<1>8. ASSUME c.op = "mac" PROVE Link(t, st)
  <2>1. t = [n EXCEPT !.mac = c.arg]
    BY <1>8 DEF WlObeyed
  <2> HIDE DEF t
  <2>2. SameLink(n, t)
    BY <1>1, <2>1 DEF SameLink
  <2> QED BY <1>3, <2>2
<1>9. ASSUME c.op = "radio" PROVE Link(t, st)
  <2>1. t = [n EXCEPT !.radio = c.arg, !.associated = @ /\ c.arg, !.authenticated = @ /\ c.arg]
    BY <1>9 DEF WlObeyed
  <2> HIDE DEF t
  <2>2. SameLink(n, t)
    BY <1>1, <2>1 DEF SameLink
  <2> QED BY <1>3, <2>2
<1>10. ASSUME c.op \in {"pairwise", "group"} PROVE Link(t, st)
  <2> DEFINE x == SecSetKey(s, c.op, c.arg)
  <2>1. t = [n EXCEPT !.sec = x]
    BY <1>10 DEF WlObeyed
  <2>2. Handshake(x, st) /\ Outgrown(s, x)
    BY <1>4, <1>10, SetKeyKeeps
  <2> HIDE DEF x, t
  <2> QED BY <1>2, <2>1, <2>2
<1>11. ASSUME c.op \in {"nopairwise", "nogroup"} PROVE Link(t, st)
  <2> DEFINE w == IF c.op = "nogroup" THEN "group" ELSE "pairwise"
             x == SecDropKey(s, w)
  <2>1. t = [n EXCEPT !.sec = x]
    BY <1>11 DEF WlObeyed
  <2>2. w \in {"pairwise", "group"}
    OBVIOUS
  <2> HIDE DEF w
  <2>3. Handshake(x, st) /\ Outgrown(s, x)
    BY <1>4, <2>2, DropKeyKeeps
  <2> HIDE DEF x, t
  <2> QED BY <1>2, <2>1, <2>3
<1>12. ASSUME c.op \notin {"authenticate", "associate", "deauthenticate", "mac", "radio", "pairwise",
                           "group", "nopairwise", "nogroup"}
       PROVE  Link(t, st)
  <2>1. t = n
    BY <1>12 DEF WlObeyed
  <2> QED BY <2>1
<1> QED
  BY <1>5, <1>6, <1>7, <1>8, <1>9, <1>10, <1>11, <1>12

\* A station command, or a block of the firmware.
LEMMA CardObeys ==
    ASSUME NEW n, NEW st \in StationRec, Link(n, st), NEW c,
           c.op \in {"pairwise", "group"} => c.arg \in st.keys[c.op]
    PROVE  Link(WlStationCommand(n, c), st) /\ Link(WlFirmwareBlock(n, c), st)
<1>1. {"sec", "rx", "host"} \subseteq DOMAIN n
  BY DEF Link
<1>2. Link(WlFirmwareBlock(n, c), st)
  <2>1. SameLink(n, WlFirmwareBlock(n, c))
    BY <1>1 DEF SameLink, WlFirmwareBlock
  <2> QED BY <2>1, SameKeeps
<1>3. Link(WlStationCommand(n, c), st)
  <2> DEFINE o == WlObeyed(n, c)
  <2>1. Link(o, st)
    BY ObeyedKeeps
  <2> HIDE DEF o
  <2>2. CASE "RESPONSE" \in n.cause
    BY <2>2 DEF WlStationCommand
  <2>3. CASE "RESPONSE" \notin n.cause /\ ~c.whole
    <3> DEFINE t == [n EXCEPT !.response = "none"]
    <3>1. WlStationCommand(n, c) = t
      BY <2>3 DEF WlStationCommand
    <3>2. SameLink(n, t)
      BY <1>1 DEF SameLink
    <3> HIDE DEF t
    <3> QED BY <3>1, <3>2, SameKeeps
  <2>4. CASE "RESPONSE" \notin n.cause /\ c.whole
    <3> DEFINE t == [o EXCEPT !.response = c.op, !.cause = @ \cup {"RESPONSE"}]
    <3>1. WlStationCommand(n, c) = t
      BY <2>4 DEF WlStationCommand, o
    <3>2. {"sec", "rx", "host"} \subseteq DOMAIN o
      BY <2>1 DEF Link
    <3>3. SameLink(o, t)
      BY <3>2 DEF SameLink
    <3> HIDE DEF t
    <3> QED BY <2>1, <3>1, <3>3, SameKeeps
  <2> QED BY <2>2, <2>3, <2>4
<1> QED
  BY <1>2, <1>3

\* A frame from the driver: a key frame is for the access point.
LEMMA SendKeeps ==
    ASSUME NEW n, NEW st \in StationRec, Link(n, st), NEW p,
           p.eapol => \E m \in st.heard : Answers(p, m, st)
    PROVE  Link(WlSend(n, p), st)
<1>1. {"sec", "rx", "host"} \subseteq DOMAIN n /\ Handshake(n.sec, st)
  BY DEF Link
<1> DEFINE ready == n.associated /\ "tx" \in n.mac
           x == SecKeyFrame(n.sec, p)
           y == [n EXCEPT !.sec = x]
           z == [n EXCEPT !.out = Append(@, p.id)]
           passed == IF ~ready THEN n
                     ELSE IF p.eapol THEN y
                     ELSE IF SecDataPasses(n.sec) THEN z ELSE n
           t == [passed EXCEPT !.cause = @ \cup {"TX"}]
<1>2. WlSend(n, p) = t
  BY DEF WlSend
<1>3. ASSUME p.eapol PROVE Link(y, st)
  <2>1. Handshake(x, st) /\ Outgrown(n.sec, x)
    BY <1>1, <1>3, KeyFrameKeeps
  <2> HIDE DEF x
  <2>2. DOMAIN y = DOMAIN n /\ y.sec = x /\ y.rx = n.rx
    BY <1>1
  <2> HIDE DEF y
  <2> QED BY <2>1, <2>2, SecMoves
<1>4. Link(z, st)
  <2>1. SameLink(n, z)
    BY <1>1 DEF SameLink
  <2> HIDE DEF z
  <2> QED BY <2>1, SameKeeps
<1> HIDE DEF ready, y, z
<1>5. Link(passed, st)
  BY <1>3, <1>4
<1> HIDE DEF passed
<1>6. SameLink(passed, t)
  <2>1. {"sec", "rx", "host"} \subseteq DOMAIN passed
    BY <1>5 DEF Link
  <2> QED BY <2>1 DEF SameLink
<1> HIDE DEF t
<1>7. Link(t, st)
  BY <1>5, <1>6, SameKeeps
<1> QED
  BY <1>2, <1>7

\* The doorbell, with what the driver hands to the card.
Offers(bits, c, p, st) ==
    /\ "COMMAND" \in bits => (c.op \in {"pairwise", "group"} => c.arg \in st.keys[c.op])
    /\ "TX" \in bits => (p.eapol => \E m \in st.heard : Answers(p, m, st))

\* What the driver offers at the doorbell keeps the link, in the order the card takes it.
LEMMA DoorbellKeeps ==
    ASSUME NEW n, NEW st \in StationRec, Link(n, st), NEW bits, NEW c, NEW p, Offers(bits, c, p, st)
    PROVE  Link(WlDoorbell(n, bits, c, p), st)
<1> DEFINE asked == n.host \cap bits
           ran == IF "COMMAND" \notin asked THEN n
                  ELSE IF n.stage \in {"rom", "helper"} THEN WlFirmwareBlock(n, c)
                  ELSE IF n.stage = "station" THEN WlStationCommand(n, c) ELSE n
           sent == IF "TX" \in asked /\ ran.stage = "station" THEN WlSend(ran, p) ELSE ran
           popped == IF "RX" \in asked /\ sent.rx # <<>> THEN [sent EXCEPT !.rx = Tail(@)] ELSE sent
           t == [popped EXCEPT !.host = {}]
<1>1. WlDoorbell(n, bits, c, p) = t
  BY DEF WlDoorbell
<1>2. asked \subseteq bits
  OBVIOUS
<1> HIDE DEF asked
<1>3. Link(ran, st)
  BY <1>2, CardObeys DEF Offers
<1> HIDE DEF ran
<1>4. Link(sent, st)
  BY <1>2, <1>3, SendKeeps DEF Offers
<1> HIDE DEF sent
<1>5. Link(popped, st)
  BY <1>4, PopKeeps
<1> HIDE DEF popped
<1>6. SameLink(popped, t)
  BY <1>5 DEF SameLink, Link
<1> HIDE DEF t
<1>7. Link(t, st)
  BY <1>5, <1>6, SameKeeps
<1> QED
  BY <1>1, <1>7

\* The host-status register and the doorbell, as the driver rings it.
LEMMA RingKeeps ==
    ASSUME NEW n, NEW st \in StationRec, Link(n, st), NEW bits, NEW c, NEW p, Offers(bits, c, p, st)
    PROVE  Link(WlRing(n, bits, c, p), st)
<1> DEFINE h == WlHostStatus(n, bits)
<1>1. SameLink(n, h)
  BY DEF SameLink, WlHostStatus, Link
<1> HIDE DEF h
<1>2. Link(h, st)
  BY <1>1, SameKeeps
<1>3. WlRing(n, bits, c, p) = WlDoorbell(h, bits, c, p)
  BY DEF WlRing, h
<1> QED
  BY <1>2, <1>3, DoorbellKeeps

\* A command of the driver.
LEMMA AskKeeps ==
    ASSUME NEW n, NEW st \in StationRec, Link(n, st), NEW op, NEW arg,
           op \in {"pairwise", "group"} => arg \in st.keys[op]
    PROVE  Link(WlAsk(n, op, arg), st)
<1> DEFINE c == [op |-> op, whole |-> TRUE, arg |-> arg]
<1>1. Offers({"COMMAND"}, c, 0, st)
  BY DEF Offers
<1> HIDE DEF c
<1>2. Link(WlRing(n, {"COMMAND"}, c, 0), st)
  BY <1>1, RingKeeps
<1> QED
  BY <1>2 DEF WlAsk, c

\* The registers that have nothing to do with the access point, and the reset.
LEMMA RegistersKeep ==
    ASSUME NEW n, NEW st, Link(n, st), NEW bits
    PROVE  /\ Link(WlAck(n, bits), st) /\ Link(WlSetMask(n, bits), st)
           /\ Link([n EXCEPT !.out = <<>>], st)
<1>1. {"sec", "rx", "host"} \subseteq DOMAIN n
  BY DEF Link
<1>2. SameLink(n, WlAck(n, bits))
  <2> DEFINE left == [n EXCEPT !.cause = @ \ bits, !.response = IF "RESPONSE" \in bits THEN "none" ELSE @]
             t == [left EXCEPT !.cause = IF left.rx # <<>> THEN @ \cup {"RX"} ELSE @]
  <2>1. SameLink(n, left)
    BY <1>1 DEF SameLink
  <2>2. WlAck(n, bits) = t
    BY DEF WlAck
  <2> HIDE DEF left
  <2>3. SameLink(left, t)
    BY <1>1, <2>1 DEF SameLink
  <2> HIDE DEF t
  <2> QED BY <2>1, <2>2, <2>3 DEF SameLink
<1>3. SameLink(n, WlSetMask(n, bits))
  BY <1>1 DEF SameLink, WlSetMask
<1>4. SameLink(n, [n EXCEPT !.out = <<>>])
  BY <1>1 DEF SameLink
<1> QED
  BY <1>2, <1>3, <1>4, SameKeeps

\* The reset of the card empties its queue and ends the association.
LEMMA CardResets ==
    ASSUME NEW n, NEW st \in StationRec, Link(n, st)
    PROVE  Link(WlReset(n), st)
<1> DEFINE x == SecReset(n.sec)
           q == <<>>
           t == WlReset(n)
<1>1. {"sec", "rx", "host"} \subseteq DOMAIN n /\ Handshake(n.sec, st)
  BY DEF Link
<1>2. Handshake(x, st)
  BY <1>1, ResetKeeps
<1> HIDE DEF x
<1>3. DOMAIN t = DOMAIN n /\ t.sec = x /\ t.rx = q
  BY <1>1 DEF WlReset, x
<1>4. q \in Seq(RxFrame) /\ Queued(x, q)
  BY DEF Queued
<1> HIDE DEF q, t
<1>5. Link(t, st)
  BY <1>1, <1>2, <1>3, <1>4 DEF Link
<1> QED
  BY <1>5 DEF t

\* A waiting message of the handshake joins the queue.
LEMMA PollKeeps ==
    ASSUME NEW n, NEW st \in StationRec, Link(n, st)
    PROVE  Link(WlPoll(n), st)
<1>1. /\ {"sec", "rx", "host"} \subseteq DOMAIN n /\ Handshake(n.sec, st) /\ n.sec \in SecRec
      /\ n.sec.pending \in Msg /\ (n.sec.pending = SecNothing \/ Known(n.sec, n.sec.pending))
  BY DEF Link, Handshake, SecRec
<1>2. CASE n.sec.pending # SecNothing /\ n.associated /\ ~WlFull(n) /\ "rx" \in n.mac
  <2> DEFINE f == WlKeyMessage(n.sec.pending)
             q == WlQueued(n, f)
             none == SecNothing
             x == [n.sec EXCEPT !.pending = none]
             t == [q EXCEPT !.sec = x]
  <2>1. f \in RxFrame /\ f.message = n.sec.pending
    BY <1>1 DEF WlKeyMessage, RxFrame, Receivers
  <2> HIDE DEF f
  <2>2. Link(q, st) /\ q.sec = n.sec
    BY <1>1, <1>2, <2>1, JoinKeeps
  <2>3. WlPoll(n) = [q EXCEPT !.sec.pending = none]
    BY <1>2 DEF WlPoll, f
  <2>4. {"sec", "rx", "host"} \subseteq DOMAIN q
    BY <2>2 DEF Link
  <2> HIDE DEF q
  <2>5. WlPoll(n) = t
    BY <2>2, <2>3, <2>4
  <2>6. none \in Msg
    BY DEF SecNothing, Msg, Kinds
  <2> HIDE DEF none
  <2>7. /\ x \in SecRec /\ x.pending = none /\ x.stage = n.sec.stage /\ x.mode = n.sec.mode
        /\ x.anonce = n.sec.anonce /\ x.replay = n.sec.replay /\ x.ptk = n.sec.ptk
        /\ x.authorized = n.sec.authorized /\ x.pairwise = n.sec.pairwise /\ x.group = n.sec.group
    BY <1>1, <2>6 DEF SecRec
  <2> HIDE DEF x
  <2>8. \A m : Known(n.sec, m) => Known(x, m)
    BY <2>7 DEF Known
  <2>9. Staged(n.sec, st) => Staged(x, st)
    BY <2>7 DEF Staged, HeardBy
  <2>10. Handshake(x, st) /\ Outgrown(q.sec, x)
    BY <1>1, <2>2, <2>7, <2>8, <2>9 DEF Handshake, Outgrown, SecRobust, none
  <2>11. DOMAIN t = DOMAIN q /\ t.rx = q.rx /\ t.sec = x
    BY <2>4
  <2> HIDE DEF t
  <2> QED BY <2>2, <2>5, <2>10, <2>11, SecMoves
<1>3. CASE ~(n.sec.pending # SecNothing /\ n.associated /\ ~WlFull(n) /\ "rx" \in n.mac)
  BY <1>3 DEF WlPoll
<1> QED
  BY <1>2, <1>3

\* A frame from the network.
LEMMA TakeKeeps ==
    ASSUME NEW n, NEW st, Link(n, st), NEW f \in NetFrames
    PROVE  Link(WlTake(n, f), st)
<1> DEFINE g == [id |-> f.id, to |-> f.to, cells |-> f.cells, message |-> SecNothing]
<1>1. g \in RxFrame /\ g.message = SecNothing
  BY DEF NetFrames, RxFrame, SecNothing, Msg, Kinds
<1>2. WlTake(n, f) \in {n, WlQueued(n, g)}
  BY DEF WlTake
<1> HIDE DEF g
<1> QED
  BY <1>1, <1>2, JoinKeeps

\* A set of natural numbers with 0 and every successor is all of them.
LEMMA SetInduction ==
    ASSUME NEW S \in SUBSET Nat, 0 \in S, \A m \in S : m + 1 \in S
    PROVE  S = Nat
<1> DEFINE T == Nat \ S
           Less == {ss \in Nat \X Nat : ss[1] < ss[2]}
<1> SUFFICES ASSUME T # {} PROVE FALSE
  OBVIOUS
<1>1. Less = OpToRel(<, Nat)
  BY DEF OpToRel
<1>2. IsWellFoundedOn(Less, Nat)
  BY <1>1, NatLessThanWellFounded
<1>3. T \subseteq Nat
  OBVIOUS
<1>4. \E x \in T : \A y \in T : ~(<<y, x>> \in Less)
  <2> HIDE DEF T, Less
  <2> QED BY <1>2, <1>3, WFMin
<1>5. PICK x \in T : \A y \in T : ~(<<y, x>> \in Less)
  BY <1>4
<1>6. x \in Nat /\ x # 0 /\ x - 1 \in Nat
  OBVIOUS
<1>7. <<x - 1, x>> \in Less
  BY <1>6
<1>8. x - 1 \in S
  BY <1>5, <1>6, <1>7
<1> QED
  BY <1>6, <1>8

(***************************************************************************)
(* The machine's poll of the card, as many rounds of it as one tick has.   *)
(***************************************************************************)

Fit(s) == s.wire \in Seq(NetFrames) /\ (card = "wl54cf" => Link(s.nic, station))
Polling(f, N, s) ==
    /\ f = [i \in 0..N |-> f[i]]
    /\ \A i \in 0..N : f[i] = IF i = 0 THEN s ELSE PollRound(f[i - 1])

\* One frame the less waits, and the card may have it.
LEMMA RoundFits ==
    ASSUME NEW s, Fit(s)
    PROVE  Fit(PollRound(s))
<1> DEFINE f == Head(s.wire)
           t == PollStep(s)
<1>1. CASE s.wire = <<>> \/ ~Polls(s.nic)
  BY <1>1 DEF PollRound
<1>2. CASE ~(s.wire = <<>> \/ ~Polls(s.nic))
  <2>1. PollRound(s) = t
    BY <1>2 DEF PollRound
  <2>2. t.wire = Tail(s.wire) /\ t.nic = Take(s.nic, f)
    BY DEF PollStep
  <2>3. f \in NetFrames /\ Tail(s.wire) \in Seq(NetFrames)
    BY <1>2, HeadTailProperties DEF Fit
  <2> HIDE DEF f, t
  <2>4. ASSUME card = "wl54cf" PROVE Link(Take(s.nic, f), station)
    <3>1. Take(s.nic, f) = WlTake(s.nic, f)
      BY <2>4 DEF Take
    <3> QED BY <2>3, <2>4, <3>1, TakeKeeps DEF Fit
  <2>5. Fit(t)
    BY <2>2, <2>3, <2>4 DEF Fit
  <2> QED BY <2>1, <2>5
<1> QED
  BY <1>1, <1>2

\* The rounds of a tick, one after the other.
LEMMA PollingExists ==
    ASSUME NEW s, NEW N \in Nat
    PROVE  \E f : Polling(f, N, s)
<1> DEFINE T == {m \in Nat : \E f : Polling(f, m, s)}
<1>1. 0 \in T
  <2> DEFINE f == [i \in 0..0 |-> s]
  <2>1. Polling(f, 0, s)
    BY DEF Polling
  <2> QED
    BY <2>1
<1>2. ASSUME NEW m \in T PROVE m + 1 \in T
  <2>0. m \in Nat /\ m + 1 \in Nat
    OBVIOUS
  <2>1. PICK f : Polling(f, m, s)
    OBVIOUS
  <2> DEFINE y == PollRound(f[m])
             g == [i \in 0..m + 1 |-> IF i = m + 1 THEN y ELSE f[i]]
  <2>2. y = PollRound(f[m])
    OBVIOUS
  <2> HIDE DEF y
  <2>3. \A i \in 0..m + 1 : g[i] = IF i = m + 1 THEN y ELSE f[i]
    OBVIOUS
  <2>4. g = [i \in 0..m + 1 |-> g[i]]
    OBVIOUS
  <2> HIDE DEF g
  <2>5. ASSUME NEW i \in 0..m + 1
        PROVE  g[i] = IF i = 0 THEN s ELSE PollRound(g[i - 1])
    <3>1. CASE i = m + 1
      <4>1. i # 0 /\ i - 1 = m /\ m \in 0..m + 1 /\ m # m + 1
        BY <2>0, <3>1
      <4>2. g[i - 1] = f[m] /\ g[i] = y
        BY <2>3, <3>1, <4>1
      <4> QED
        BY <2>2, <4>1, <4>2
    <3>2. CASE i # m + 1
      <4>1. i \in 0..m /\ g[i] = f[i]
        BY <2>0, <2>3, <3>2
      <4>2. f[i] = IF i = 0 THEN s ELSE PollRound(f[i - 1])
        BY <2>1, <4>1 DEF Polling
      <4>3. i # 0 => i - 1 \in 0..m + 1 /\ i - 1 # m + 1
        BY <2>0, <3>2
      <4>4. i # 0 => g[i - 1] = f[i - 1]
        BY <2>3, <4>3
      <4> QED
        BY <4>1, <4>2, <4>4
    <3> QED
      BY <3>1, <3>2
  <2>6. Polling(g, m + 1, s)
    BY <2>4, <2>5 DEF Polling
  <2> QED
    BY <2>0, <2>6
<1>3. T = Nat
  <2>1. T \in SUBSET Nat
    OBVIOUS
  <2> HIDE DEF T
  <2> QED
    BY <1>1, <1>2, <2>1, SetInduction
<1> QED
  BY <1>3

\* The poll of one tick.
LEMMA PollFits ==
    ASSUME NEW s, Fit(s), NEW N \in Nat
    PROVE  Fit(Poll(s, N))
<1> DEFINE Rounds(f) == [k \in 0..N |-> IF k = 0 THEN s ELSE PollRound(f[k - 1])]
           r == CHOOSE f : f = Rounds(f)
<1>2. Poll(s, N) = r[N]
  BY DEF Poll
<1>3. PICK f : Polling(f, N, s)
  BY PollingExists
<1>4. f = Rounds(f)
  <2>1. ASSUME NEW i \in 0..N PROVE f[i] = Rounds(f)[i]
    BY <1>3 DEF Polling
  <2>2. f = [i \in 0..N |-> f[i]]
    BY <1>3 DEF Polling
  <2>3. Rounds(f) = [i \in 0..N |-> Rounds(f)[i]]
    OBVIOUS
  <2> HIDE DEF Rounds
  <2> QED
    BY <2>1, <2>2, <2>3
<1>5. r = Rounds(r)
  <2> HIDE DEF Rounds
  <2> QED BY <1>4
<1> HIDE DEF r
<1>6. \A i \in 0..N : r[i] = IF i = 0 THEN s ELSE PollRound(r[i - 1])
  BY <1>5
<1> DEFINE T == {m \in Nat : m <= N => Fit(r[m])}
<1>7. 0 \in T
  BY <1>6
<1>8. ASSUME NEW m \in T PROVE m + 1 \in T
  <2>1. SUFFICES ASSUME m + 1 <= N PROVE Fit(r[m + 1])
    OBVIOUS
  <2>2. m \in Nat /\ m + 1 \in 0..N /\ m + 1 # 0 /\ (m + 1) - 1 = m /\ Fit(r[m])
    BY <2>1
  <2>3. r[m + 1] = PollRound(r[m])
    BY <1>6, <2>2
  <2> QED
    BY <2>2, <2>3, RoundFits
<1>9. T = Nat
  <2>1. T \in SUBSET Nat
    OBVIOUS
  <2> HIDE DEF T
  <2> QED
    BY <1>7, <1>8, <2>1, SetInduction
<1>10. Fit(r[N])
  BY <1>9
<1> QED
  BY <1>2, <1>10

(***************************************************************************)
(* The actions.                                                            *)
(***************************************************************************)

\* A station that has heard a message known of the handshake, or holds more keys.
LEMMA HoldsOfMore ==
    ASSUME NEW n, NEW st, NEW more, Link(n, st), more.secret = st.secret,
           st.heard \subseteq more.heard, \A m \in more.heard : Known(n.sec, m),
           st.keys.pairwise \subseteq more.keys.pairwise, st.keys.group \subseteq more.keys.group
    PROVE  Link(n, more)
BY StationGrows DEF Link

\* The card as the machine is built.
LEMMA SecureInit ==
    ASSUME NetInit
    PROVE  SecureInv
<1>1. card \in NicKinds /\ wire \in Seq(NetFrames) /\ made \in [frames : Nat, config : Nat]
  BY DEF NetInit
<1>2. station \in StationRec /\ station.heard = {}
  <2> DEFINE none == {}
             k == [pairwise |-> none, group |-> none]
             a == [heard |-> none, secret |-> TRUE, keys |-> k]
             b == [a EXCEPT !.secret = FALSE]
  <2>1. station \in {a, b}
    BY DEF NetInit, NoStation
  <2>2. none \in SUBSET Msg /\ none \in SUBSET Nat
    OBVIOUS
  <2> HIDE DEF none
  <2>3. k \in [pairwise : SUBSET Nat, group : SUBSET Nat]
    BY <2>2
  <2> HIDE DEF k
  <2>4. a \in StationRec /\ a.heard = none
    BY <2>2, <2>3 DEF StationRec
  <2> HIDE DEF a
  <2>5. b \in StationRec /\ b.heard = none
    BY <2>4 DEF StationRec
  <2> HIDE DEF b
  <2> QED BY <2>1, <2>4, <2>5 DEF none
<1>3. ASSUME card = "wl54cf" PROVE Link(nic, station)
  <2>1. PICK m \in {"open", "wpa", "wpa2"} : nic = WlCard(m)
    BY <1>3 DEF NetInit
  <2> DEFINE q == <<>>
             s == SecFixture(m)
             n == [sec |-> s, stage |-> "rom", helper |-> FALSE, header |-> FALSE, payload |-> FALSE,
                   cause |-> {}, mask |-> {}, host |-> {}, mac |-> {}, authenticated |-> FALSE,
                   associated |-> FALSE, radio |-> TRUE, response |-> "none", rx |-> q, out |-> q]
             none == SecNothing
  <2>2. nic = WlReset(n)
    BY <2>1 DEF WlCard
  <2>3. n.sec = s /\ n.rx = q /\ {"sec", "rx", "host"} \subseteq DOMAIN n
    OBVIOUS
  <2>4. q \in Seq(RxFrame) /\ Queued(s, q)
    BY DEF Queued
  <2>5. none \in Msg
    BY DEF SecNothing, Msg, Kinds
  <2>6. s = [mode |-> m, stage |-> 0, pending |-> none, authorized |-> FALSE, pairwise |-> FALSE,
             group |-> FALSE, ptk |-> 0, anonce |-> 0, replay |-> 0]
    BY DEF SecFixture
  <2> HIDE DEF none, n, q, s
  <2>7. /\ s \in SecRec /\ s.stage = 0 /\ s.pending = none /\ s.authorized = FALSE
        /\ s.pairwise = FALSE /\ s.group = FALSE
    BY <2>5, <2>6 DEF SecRec
  <2>8. Staged(s, station)
    BY <2>7 DEF Staged
  <2>9. Handshake(s, station)
    BY <1>2, <2>7, <2>8 DEF Handshake, none
  <2>10. Link(n, station)
    BY <2>3, <2>4, <2>9 DEF Link
  <2> QED
    BY <1>2, <2>2, <2>10, CardResets
<1> QED
  BY <1>1, <1>2, <1>3 DEF SecureInv

\* What the three other cards' drivers leave alone.
Elsewhere == /\ card # "wl54cf" /\ UNCHANGED <<card, wire, station>>
             /\ made' \in {made, [made EXCEPT !.config = @ + 1]}

\* Their steps are none of the access point's.
LEMMA OthersElsewhere ==
    ASSUME NeNext \/ ElNext \/ XiNext
    PROVE  Elsewhere
<1>1. ASSUME NeNext PROVE Elsewhere
  <2>1. CASE NeOpen
    BY <2>1 DEF NeOpen, Quiet, Elsewhere
  <2>2. CASE NeClose
    BY <2>2 DEF NeClose, Reconfigures, Elsewhere
  <2>3. CASE NeService
    BY <2>3 DEF NeService, Quiet, Elsewhere
  <2>4. CASE NeAcknowledge
    BY <2>4 DEF NeAcknowledge, Quiet, Elsewhere
  <2>5. CASE NeLook
    BY <2>5 DEF NeLook, Quiet, Elsewhere
  <2>6. CASE NeFetch
    BY <2>6 DEF NeFetch, Quiet, Elsewhere
  <2>7. CASE NeRelease
    BY <2>7 DEF NeRelease, Quiet, Elsewhere
  <2>8. CASE NeSend
    BY <2>8 DEF NeSend, Quiet, Elsewhere
  <2> QED
    BY <1>1, <2>1, <2>2, <2>3, <2>4, <2>5, <2>6, <2>7, <2>8 DEF NeNext
<1>2. ASSUME ElNext PROVE Elsewhere
  <2>1. CASE ElOpen
    BY <2>1 DEF ElOpen, Quiet, Elsewhere
  <2>2. CASE ElConfigure
    BY <2>2 DEF ElConfigure, Reconfigures, Elsewhere
  <2>3. CASE ElService
    BY <2>3 DEF ElService, Quiet, Elsewhere
  <2>4. CASE ElFetch
    BY <2>4 DEF ElFetch, Quiet, Elsewhere
  <2>5. CASE ElDiscard
    BY <2>5 DEF ElDiscard, Quiet, Elsewhere
  <2>6. CASE ElBeginSend
    BY <2>6 DEF ElBeginSend, Elsewhere
  <2>7. CASE ElSend
    BY <2>7 DEF ElSend, Quiet, Elsewhere
  <2> QED
    BY <1>2, <2>1, <2>2, <2>3, <2>4, <2>5, <2>6, <2>7 DEF ElNext
<1>3. ASSUME XiNext PROVE Elsewhere
  <2>1. CASE XiStart
    BY <2>1 DEF XiStart, Elsewhere
  <2>2. CASE XiConfigure
    BY <2>2 DEF XiConfigure, Reconfigures, Elsewhere
  <2>3. CASE XiService
    BY <2>3 DEF XiService, Quiet, Elsewhere
  <2>4. CASE XiFetch
    BY <2>4 DEF XiFetch, Quiet, Elsewhere
  <2>5. CASE XiReceived
    BY <2>5 DEF XiReceived, Quiet, Elsewhere
  <2>6. CASE XiInformed
    BY <2>6 DEF XiInformed, Elsewhere
  <2>7. CASE XiSend
    BY <2>7 DEF XiSend, Quiet, Elsewhere
  <2> QED
    BY <1>3, <2>1, <2>2, <2>3, <2>4, <2>5, <2>6, <2>7 DEF XiNext
<1> QED
  BY <1>1, <1>2, <1>3

\* A step of the driver that leaves the supplicant and the network alone.
Stays == /\ UNCHANGED <<card, wire, station>>
         /\ made' \in {made, [made EXCEPT !.config = @ + 1]}

\* Such a step keeps what the handshake shows if it keeps the link.
LEMMA StaysSecure ==
    ASSUME SecureInv, Stays, card = "wl54cf" => Link(nic', station)
    PROVE  SecureInv'
<1>1. made' \in [frames : Nat, config : Nat]
  BY DEF SecureInv, Stays
<1> QED
  BY <1>1 DEF SecureInv, Stays

\* What the driver does with the card, from the firmware's first block to a frame of data.
LEMMA DriverStays ==
    ASSUME SecureInv, card = "wl54cf",
           WlDownload \/ WlOpen \/ WlConfigure \/ WlService \/ WlAcknowledge \/ WlReply \/ WlSendData
    PROVE  Stays /\ Link(nic', station)
<1>1. station \in StationRec /\ Link(nic, station)
  BY DEF SecureInv
<1>2. CASE WlDownload
  <2>1. PICK op \in {"payload", "data", "end"} : nic' = WlAsk(nic, op, 0)
    BY <1>2 DEF WlDownload
  <2>2. Link(nic', station)
    BY <1>1, <2>1, AskKeeps
  <2>3. Stays
    BY <1>2 DEF WlDownload, Quiet, Stays
  <2> QED BY <2>2, <2>3
<1>3. CASE WlOpen
  <2> DEFINE a == WlSetMask(nic, {"COMMAND", "EVENT"})
             b == WlAsk(a, "mac", WlEvery)
             c == WlAck(b, {"RESPONSE"})
             d == WlAsk(c, "authenticate", 0)
  <2>1. nic' = WlAck(d, {"RESPONSE"})
    BY <1>3 DEF WlOpen
  <2>2. Link(a, station)
    BY <1>1, RegistersKeep
  <2> HIDE DEF a
  <2>3. Link(b, station)
    BY <1>1, <2>2, AskKeeps
  <2> HIDE DEF b
  <2>4. Link(c, station)
    BY <2>3, RegistersKeep
  <2> HIDE DEF c
  <2>5. Link(d, station)
    BY <1>1, <2>4, AskKeeps
  <2> HIDE DEF d
  <2>6. Link(nic', station)
    BY <2>1, <2>5, RegistersKeep
  <2>7. Stays
    BY <1>3 DEF WlOpen, Quiet, Stays
  <2> QED BY <2>6, <2>7
<1>4. CASE WlConfigure
  <2>1. Stays
    BY <1>4 DEF WlConfigure, Reconfigures, Stays
  <2>2. CASE nic' = WlReset(nic)
    BY <1>1, <2>1, <2>2, CardResets
  <2>3. CASE nic' # WlReset(nic)
    <3> DEFINE Asks == {<<"associate", nic.sec.mode>>, <<"deauthenticate", 0>>, <<"authenticate", 0>>,
                        <<"radio", FALSE>>, <<"radio", TRUE>>, <<"mac", {"rx", "promiscuous"}>>, <<"nogroup", 0>>}
    <3>1. PICK c \in Asks : nic' = WlAsk(nic, c[1], c[2])
      BY <1>4, <2>3 DEF WlConfigure
    <3>2. c[1] \in {"associate", "deauthenticate", "authenticate", "radio", "mac", "nogroup"}
      <4>1. PICK op \in {"associate", "deauthenticate", "authenticate", "radio", "mac", "nogroup"} :
              \E arg : c = <<op, arg>>
        BY <3>1, ZenonT(60)
      <4>2. PICK arg : c = <<op, arg>>
        BY <4>1
      <4> QED BY <4>2
    <3> HIDE DEF Asks
    <3>3. Link(nic', station)
      BY <1>1, <3>1, <3>2, AskKeeps
    <3> QED BY <2>1, <3>3
  <2> QED BY <2>2, <2>3
<1>5. CASE WlService
  <2>1. Link(nic', station)
    BY <1>1, <1>5, PollKeeps DEF WlService
  <2>2. Stays
    BY <1>5 DEF WlService, Quiet, Stays
  <2> QED BY <2>1, <2>2
<1>6. CASE WlAcknowledge
  <2>1. Link(nic', station)
    BY <1>1, <1>6, RegistersKeep DEF WlAcknowledge
  <2>2. Stays
    BY <1>6 DEF WlAcknowledge, Quiet, Stays
  <2> QED BY <2>1, <2>2
<1>7. CASE WlReply
  <2> DEFINE Answer(m) == [eapol |-> TRUE, replay |-> m.replay, pairwise |-> m.kind # "group",
                           empty |-> m.kind # "first", key |-> IF station.secret THEN m.nonce ELSE 0]
  <2>1. PICK m \in station.heard : nic' = WlRing(nic, {"TX"}, WlNoCommand, Answer(m))
    BY <1>7 DEF WlReply
  <2>2. Answers(Answer(m), m, station)
    BY DEF Answers
  <2> HIDE DEF Answer
  <2>3. Offers({"TX"}, WlNoCommand, Answer(m), station)
    BY <2>2 DEF Offers
  <2>4. Link(nic', station)
    BY <1>1, <2>1, <2>3, RingKeeps
  <2>5. Stays
    BY <1>7 DEF WlReply, Quiet, Stays
  <2> QED BY <2>4, <2>5
<1>8. CASE WlSendData
  <2> DEFINE p == [eapol |-> FALSE, id |-> SendId]
             n == WlRing(nic, {"TX"}, WlNoCommand, p)
  <2>1. nic' = [n EXCEPT !.out = <<>>]
    BY <1>8 DEF WlSendData, Leaves
  <2>2. p.eapol = FALSE
    OBVIOUS
  <2> HIDE DEF p
  <2>3. Offers({"TX"}, WlNoCommand, p, station)
    BY <2>2 DEF Offers
  <2>4. Link(n, station)
    BY <1>1, <2>3, RingKeeps
  <2> HIDE DEF n
  <2>5. Link(nic', station)
    BY <2>1, <2>4, RegistersKeep
  <2>6. Stays
    BY <1>8 DEF WlSendData, Quiet, Stays
  <2> QED BY <2>5, <2>6
<1> QED
  BY <1>2, <1>3, <1>4, <1>5, <1>6, <1>7, <1>8

\* A frame read from the card: the supplicant hears a message of the handshake.
LEMMA ReceivedSecure ==
    ASSUME SecureInv, WlReceived
    PROVE  SecureInv'
<1> DEFINE n == WlPoll(nic)
           f == Head(n.rx)
           heard == station.heard \cup {f.message}
           more == [station EXCEPT !.heard = heard]
<1>1. /\ station \in StationRec /\ card = "wl54cf" /\ Link(nic, station)
      /\ UNCHANGED <<card, wire, made>>
  BY DEF SecureInv, WlReceived
<1>2. Link(n, station)
  BY <1>1, PollKeeps
<1>3. CASE n.rx = <<>>
  <2>1. nic' = n /\ station' = station
    BY <1>3 DEF WlReceived
  <2> HIDE DEF n
  <2> QED BY <1>1, <1>2, <2>1 DEF SecureInv
<1>4. CASE n.rx # <<>>
  <2>1. /\ nic' = WlRing(n, {"RX"}, WlNoCommand, 0)
        /\ station' = station \/ (f.message # SecNothing /\ station' = more)
    BY <1>4 DEF WlReceived
  <2>2. f \in RxFrame /\ (f.message = SecNothing \/ Known(n.sec, f.message))
    BY <1>2, <1>4, PopKeeps
  <2> HIDE DEF n, f
  <2>3. f.message \in Msg
    BY <2>2 DEF RxFrame
  <2>4. \A m \in station.heard : Known(n.sec, m)
    BY <1>2 DEF Link, Handshake
  <2>5. /\ more \in StationRec /\ more.heard = heard /\ more.secret = station.secret
        /\ more.keys = station.keys
    BY <1>1, <2>3 DEF StationRec
  <2>6. station' \in StationRec /\ Link(n, station')
    <3>1. CASE station' = station
      BY <1>1, <1>2, <3>1
    <3>2. CASE station' = more /\ f.message # SecNothing
      <4>1. \A m \in heard : Known(n.sec, m)
        BY <2>2, <2>4, <3>2
      <4>2. station.heard \subseteq heard
        OBVIOUS
      <4> HIDE DEF more, heard
      <4>3. Link(n, more)
        BY <1>2, <2>5, <4>1, <4>2, HoldsOfMore
      <4> QED BY <2>5, <3>2, <4>3
    <3> QED BY <2>1, <3>1, <3>2
  <2>7. Offers({"RX"}, WlNoCommand, 0, station')
    BY DEF Offers
  <2>8. Link(nic', station')
    BY <2>1, <2>6, <2>7, RingKeeps
  <2> QED BY <1>1, <2>6, <2>8 DEF SecureInv
<1> QED
  BY <1>3, <1>4

\* A key the station installs.
LEMMA InstallSecure ==
    ASSUME SecureInv, WlInstall
    PROVE  SecureInv'
<1>1. /\ station \in StationRec /\ card = "wl54cf" /\ Link(nic, station)
      /\ UNCHANGED <<card, wire, made>>
  BY DEF SecureInv, WlInstall
<1>2. PICK m \in station.heard, which \in {"pairwise", "group"} :
        /\ nic' = WlAsk(nic, which, m.nonce)
        /\ station' = [station EXCEPT !.keys[which] = @ \cup {m.nonce}]
  BY DEF WlInstall
<1>3. m.nonce \in Nat
  BY <1>1 DEF StationRec, Msg
<1>4. /\ station' \in StationRec /\ station'.heard = station.heard /\ station'.secret = station.secret
      /\ station.keys.pairwise \subseteq station'.keys.pairwise
      /\ station.keys.group \subseteq station'.keys.group
      /\ m.nonce \in station'.keys[which]
  <2>1. CASE which = "pairwise"
    BY <1>1, <1>2, <1>3, <2>1 DEF StationRec
  <2>2. CASE which = "group"
    BY <1>1, <1>2, <1>3, <2>2 DEF StationRec
  <2> QED BY <2>1, <2>2
<1>5. \A x \in station'.heard : Known(nic.sec, x)
  BY <1>1, <1>4 DEF Link, Handshake
<1>6. Link(nic, station')
  BY <1>1, <1>4, <1>5, HoldsOfMore
<1>7. Link(nic', station')
  BY <1>2, <1>4, <1>6, AskKeeps
<1> QED
  BY <1>1, <1>4, <1>7 DEF SecureInv

\* The network and the machine.
LEMMA ArriveSecure ==
    ASSUME SecureInv, Arrive
    PROVE  SecureInv'
<1>1. PICK f \in Traffic[card] : wire' = Append(wire, NetFrame(made.frames + 1, f.to, f.cells))
  BY DEF Arrive
<1> DEFINE g == NetFrame(made.frames + 1, f.to, f.cells)
<1>2. f \in [to : Receivers, cells : Nat]
  BY NetAssumption DEF SecureInv
<1>3. g \in NetFrames
  BY <1>2 DEF NetFrame, NetFrames, SecureInv
<1> HIDE DEF g
<1>4. wire' \in Seq(NetFrames)
  BY <1>1, <1>3, AppendProperties DEF SecureInv, g
<1>5. made' \in [frames : Nat, config : Nat]
  BY DEF Arrive, SecureInv
<1> QED
  BY <1>4, <1>5 DEF Arrive, SecureInv

\* The machine polls the card, whichever it is.
LEMMA TickSecure ==
    ASSUME SecureInv, Tick
    PROVE  SecureInv'
<1> DEFINE ready == IF card = "xi825" THEN XiTick(nic) ELSE nic
           s == [nic |-> ready, wire |-> wire, owed |-> owed, wrong |-> wrong]
           t == Poll(s, Batch)
<1>1. nic' = t.nic /\ wire' = t.wire /\ UNCHANGED <<card, made, station>>
  BY DEF Tick
<1>2. Fit(s)
  BY DEF Fit, SecureInv
<1>3. Batch \in Nat
  BY NeAssumption, ElAssumption, XiAssumption, WlAssumption DEF Batch, SecureInv, NicKinds
<1> HIDE DEF s
<1>4. Fit(t)
  BY <1>2, <1>3, PollFits
<1> HIDE DEF t
<1> QED
  BY <1>1, <1>4 DEF Fit, SecureInv

\* Every step of the network, the machine and the drivers.
LEMMA SecureStep ==
    ASSUME SecureInv, [NetNext]_netVars
    PROVE  SecureInv'
<1>1. CASE Arrive
  BY <1>1, ArriveSecure
<1>2. CASE Tick
  BY <1>2, TickSecure
<1>3. CASE NeNext \/ ElNext \/ XiNext
  <2>1. Elsewhere
    BY <1>3, OthersElsewhere
  <2> QED BY <2>1, StaysSecure DEF Elsewhere, Stays
<1>4. CASE WlReceived
  BY <1>4, ReceivedSecure
<1>5. CASE WlInstall
  BY <1>5, InstallSecure
<1>6. CASE WlNext /\ ~WlReceived /\ ~WlInstall
  <2>1. card = "wl54cf"
    BY <1>6 DEF WlNext, WlDownload, WlOpen, WlConfigure, WlService, WlAcknowledge, WlReply, WlSendData
  <2>2. Stays /\ Link(nic', station)
    BY <1>6, <2>1, DriverStays DEF WlNext
  <2> QED BY <2>2, StaysSecure
<1>7. CASE UNCHANGED netVars
  BY <1>7 DEF netVars, SecureInv
<1> QED
  BY <1>1, <1>2, <1>3, <1>4, <1>5, <1>6, <1>7 DEF NetNext

\* Data passes the access point of the WL54CF only once the station has shown that it knows
\* the secret, has had the last message of this association's handshake and holds its keys,
\* however late the station answers and whatever earlier associations left: wifi_security.c:160.
THEOREM DataIsSecured == NetSpec => []SecureBeforeData
<1>1. NetInit => SecureInv
  BY SecureInit
<1>2. SecureInv /\ [NetNext]_netVars => SecureInv'
  BY SecureStep
<1>3. SecureInv => SecureBeforeData
  BY SecureGives
<1> QED
  BY <1>1, <1>2, <1>3, PTL DEF NetSpec
================================================================================
