-------------------------------- MODULE NandGuest ------------------------------
(***************************************************************************)
(* The guest's NAND code, the warm reset that can cut it off between any   *)
(* two register accesses, and the image file (src/machine_be300.c,         *)
(* src/devices/nand_window.c, src/be300_devices.c).  A script is what the  *)
(* ROM, the loader or nanddisk.dll does for one operation: its register    *)
(* accesses, what they should bring about, and the values they should read *)
(* back.  The warm reset restarts the CPU and leaves the chip as it is.    *)
(***************************************************************************)
EXTENDS Nand

CONSTANTS
    Images,         \* files a machine starts from: [oob, cells, pages]
    Patterns,       \* what is programmed: sequences of up to PageCells cells
    Routes,         \* of {"xfer", "dio", "port"}
    MaxOps,         \* operations begun
    MaxErrors       \* warm resets and failed saves

Flash == [Pages -> [0..PageCells - 1 -> SUBSET Bits]]
ASSUME GuestAssumption ==
    /\ Images \subseteq [oob : BOOLEAN, cells : Flash, pages : Nat]
    /\ \A data \in Patterns : Len(data) \in 0..PageCells /\ data \in [1..Len(data) -> SUBSET Bits]
    /\ Routes \subseteq {"xfer", "dio", "port"}
    /\ MaxOps \in Nat /\ MaxErrors \in Nat

VARIABLES
    chip,
    image,      \* the file: [oob, cells, pages]
    script, pc, \* the operation under way, or NoScript; accesses made so far
    got,        \* what it has read
    flash,      \* the cells as the operations carried out leave them
    ops,        \* operations begun so far
    errors      \* warm resets and failed saves so far
nandVars == <<chip, image, script, pc, got, flash, ops, errors>>

NoScript == [route |-> "none", does |-> "none", page |-> 0, data |-> <<>>, steps |-> <<>>,
             confirm |-> 0, refused |-> FALSE]

NandStart ==
    /\ image \in Images
    /\ chip = NandInit(image.oob, image.cells, image.pages)
    /\ flash = image.cells
    /\ script = NoScript /\ pc = 0 /\ got = <<>> /\ ops = 0 /\ errors = 0

--------------------------------------------------------------------------------
(***************************************************************************)
(* One register access: the chip after it, and what it reads.              *)
(***************************************************************************)
W(reg, v) == <<"W", reg, v>>
R(reg) == <<"R", reg, NoValue>>

Access(n, a) ==
    LET v == a[3] IN
    CASE a[2] = "XferCmd"     -> XferCmd(n, v)
      [] a[2] = "XferAddr"    -> IF a[1] = "R" THEN XferData(n) ELSE XferAddr(n, v)
      [] a[2] = "XferAck"     -> XferAck(n)
      [] a[2] = "XferKick"    -> [n EXCEPT !.ready = FALSE]
      [] a[2] = "XferMode"    -> XferMode(n, v)
      [] a[2] = "XferEcc"     -> XferEcc(n, v)
      [] a[2] = "Stream"      -> IF a[1] = "R" THEN StreamRead(n) ELSE StreamWrite(n, v)
      [] a[2] = "BootCtrl"    -> IF v = 0 THEN BootReset(n) ELSE n
      [] a[2] = "BootCmd"     -> BootCmd(n, v)
      [] a[2] = "BootAddr"    -> BootAddr(n, v)
      [] a[2] = "BootMode"    -> BootMode(n, v)
      [] a[2] = "DioCtrl"     -> [n EXCEPT !.dio = v]
      [] a[2] = "Dio"         -> IF a[1] = "R" THEN DioRead(n) ELSE DioWrite(n, v)
      [] a[2] = "Command"     -> LegacyCommand(n, v)
      [] a[2] = "Address"     -> LegacyAddress(n, v)
      [] a[2] = "Data"        -> IF n.state = "program" THEN ProgramAppend(n, v) ELSE n
      [] a[2] = "DmaState"    -> DmaStateWritten(n)
      [] a[2] = "Dma"         -> DmaRead(n, v)
      [] a[2] = "RestoreMode" -> RestoreMode(n, v)
      [] a[2] = "Window"      -> IF a[1] = "R" THEN RestoreRead(n) ELSE RestoreWrite(n, v)
      [] OTHER                -> n

Value(n, a) ==
    CASE a[2] = "XferAddr" -> IF n.xdata = <<>> THEN NoValue ELSE Head(n.xdata)
      [] a[2] = "Result"   -> n.xbuf[1]
      [] a[2] = "Clean"    -> IF n.status2 THEN Refused ELSE Good
      [] a[2] = "Stream"   -> StreamValue(n)
      [] a[2] = "Dio"      -> DioValue(n)
      [] a[2] = "Status"   -> IF n.state = "status" THEN n.stat ELSE NoValue
      [] a[2] = "Window"   -> RestoreValue(n)
Values(n, a) ==
    IF a[2] = "Dma" THEN [i \in 1..a[3] |-> StreamCell(n, n.scur + i - 1)]
    ELSE IF a[1] = "R" THEN <<Value(n, a)>> ELSE <<>>

--------------------------------------------------------------------------------
(***************************************************************************)
(* The scripts.                                                            *)
(***************************************************************************)
Times(k, a) == [i \in 1..k |-> a]
XCommand(cmd) == <<W("XferCmd", 3), W("XferAddr", cmd), W("XferAck", 0)>>
XRow(bytes) == <<W("XferCmd", 6)>> \o [i \in DOMAIN bytes |-> W("XferAddr", bytes[i])]
               \o <<W("XferAck", 0)>>
DioLine(line, v) == <<W("DioCtrl", line), W("Dio", v)>>
DioRow(bytes) == <<W("DioCtrl", "ale")>> \o [i \in DOMAIN bytes |-> W("Dio", bytes[i])]
PortRow(bytes) == [i \in DOMAIN bytes |-> W("Address", bytes[i])]
SendCommand(route, cmd) ==
    CASE route = "xfer" -> XCommand(cmd)
      [] route = "dio"  -> DioLine("cle", cmd)
      [] OTHER          -> <<W("Command", cmd)>>
SendRow(route, bytes) ==
    CASE route = "xfer" -> XRow(bytes)
      [] route = "dio"  -> DioRow(bytes)
      [] OTHER          -> PortRow(bytes)
\* D000 gives back a command byte before it gives the status.
AskStatus(route) ==
    SendCommand(route, "STATUS") \o
    (CASE route = "xfer" -> <<R("XferAddr")>>
       [] route = "dio"  -> <<R("Dio"), R("Dio")>>
       [] OTHER          -> <<R("Status")>>)
SendData(route, data) ==
    LET to == IF route = "dio" THEN "Dio" ELSE "Data"
        port == [i \in DOMAIN data |-> W(to, data[i])]
        front == SubSeq(data, 1, IF Len(data) < BurstCells THEN Len(data) ELSE BurstCells)
        back == SubSeq(data, BurstCells + 1, Len(data))
    IN CASE route = "xfer" ->
              <<W("XferMode", 7)>> \o [i \in DOMAIN front |-> W("Stream", front[i])]
              \o <<W("XferMode", 6)>> \o [i \in DOMAIN back |-> W("Stream", back[i])]
         [] route = "dio"  -> <<W("DioCtrl", "data")>> \o port
         [] OTHER          -> port

Op(route, does, page, data, before, after) ==
    [route |-> route, does |-> does, page |-> page, data |-> data,
     steps |-> before \o after, confirm |-> Len(before),
     refused |-> chip.oob /\ Bad(flash, Block(page))]
Program(route, p, data) ==
    Op(route, "program", p, data,
       SendCommand(route, "SEQIN") \o SendRow(route, <<0, p, 0>>)
         \o SendData(route, data) \o SendCommand(route, "PAGEPROG"), AskStatus(route))
\* On the legacy ports the row follows a column cycle.
EraseBlock(route, b) ==
    Op(route, "erase", b * BlockPages, <<>>,
       SendCommand(route, "ERASE1")
         \o SendRow(route, IF route = "xfer" THEN <<b * BlockPages, 0>> ELSE <<0, b * BlockPages, 0>>)
         \o SendCommand(route, "ERASE2"), AskStatus(route))

XRead(p) == XCommand("READ0") \o XRow(<<0, p, 0>>) \o <<W("XferKick", 0)>>
\* The ROM and the loader: 520 bytes, the last 8 by mode 4, the parity by mode 1.
ReadBurst(p) ==
    Op("xfer", "burst", p, <<>>, <<>>,
       XRead(p) \o <<W("XferMode", 5)>> \o Times(BurstCells, R("Stream"))
         \o <<W("XferMode", 4), R("Result"), W("XferMode", 1),
              W("XferEcc", Parity(chip, p)), R("Clean"), W("XferMode", 0)>>)
\* nanddisk.dll: the DMA state word, then all of the page, by hand or by DMA.
ReadPage(p) ==
    Op("xfer", "read", p, <<>>, <<>>,
       <<W("DmaState", 0)>> \o XRead(p) \o <<W("XferMode", 5)>>
         \o Times(PageCells, R("Stream")) \o <<W("XferMode", 0)>>)
ReadDma(p, k) ==
    Op("xfer", "dma", p, <<k>>, <<>>,
       <<W("DmaState", 0)>> \o XRead(p) \o <<W("XferMode", 5), <<"R", "Dma", k>>, W("XferMode", 0)>>)
ReadBoot(p) ==
    Op("boot", "read", p, <<>>, <<>>,
       <<W("BootCtrl", 0), W("BootCtrl", 1), W("BootCmd", 6), W("BootAddr", 0), W("BootAddr", p),
         W("BootAddr", 0), W("BootMode", 5)>> \o Times(PageCells, R("Stream")) \o <<W("BootCmd", 0)>>)
ReadDio(p, cmd) ==
    Op("dio", cmd, p, <<>>, <<>>,
       DioLine("cle", cmd) \o DioRow(<<0, p, 0>>) \o <<W("DioCtrl", "data")>> \o Times(2, R("Dio")))
ReadWindow ==
    Op("window", "read520", 0, <<>>, <<>>, <<W("RestoreMode", 5)>> \o Times(BurstCells, R("Window")))

Scripts ==
    {Program(r, p, data) : r \in Routes, p \in Pages, data \in Patterns}
    \cup {EraseBlock(r, b) : r \in Routes, b \in 0..Blocks - 1}
    \cup {ReadBurst(p) : p \in Pages} \cup {ReadPage(p) : p \in Pages}
    \cup {ReadDma(p, k) : p \in Pages, k \in {1, PageCells + 1}} \cup {ReadBoot(p) : p \in Pages}
    \cup (IF "dio" \in Routes
          THEN {ReadDio(p, cmd) : p \in Pages, cmd \in {"READ0", "READ1", "READOOB"}} ELSE {})
    \cup {ReadWindow}

--------------------------------------------------------------------------------
Begin ==
    /\ script = NoScript /\ script' \in Scripts
    /\ ops < MaxOps /\ ops' = ops + 1
    /\ pc' = 0 /\ got' = <<>>
    /\ UNCHANGED <<chip, image, flash, errors>>

\* What the confirming access is to bring about.
Carried(m, s) ==
    IF s.refused THEN m
    ELSE IF s.does = "program" THEN ProgramPage(m, s.page, [c \in 0..PageCells - 1 |->
                  IF c < Len(s.data) THEN s.data[c + 1] ELSE Bits], Len(s.data), chip.oob)
    ELSE ErasePages(m, Block(s.page))

Step ==
    /\ pc < Len(script.steps)
    /\ LET a == script.steps[pc + 1]
       IN chip' = Access(chip, a) /\ got' = got \o Values(chip, a)
    /\ pc' = pc + 1
    /\ flash' = IF pc' = script.confirm THEN Carried(flash, script) ELSE flash
    /\ UNCHANGED <<image, script, ops, errors>>

Finish ==
    /\ script # NoScript /\ pc = Len(script.steps)
    /\ script' = NoScript /\ pc' = 0 /\ got' = <<>>
    /\ UNCHANGED <<chip, image, flash, ops, errors>>

WarmReset ==
    /\ script # NoScript /\ pc > 0 /\ errors < MaxErrors /\ errors' = errors + 1
    /\ script' = NoScript /\ pc' = 0 /\ got' = <<>>
    /\ UNCHANGED <<chip, image, flash, ops>>

\* be300_sync_nand_image: with the spare bytes the whole chip; without them
\* the file keeps its length unless a page past its end has been programmed.
Synced(n, file) ==
    IF ~n.dirty THEN file
    ELSE IF n.oob THEN [file EXCEPT !.cells = n.cells]
    ELSE LET past == \E p \in Pages : p >= file.pages /\ n.cells[p] # ErasedPage
             to == IF past THEN Cardinality(Pages) ELSE file.pages
         IN [file EXCEPT !.pages = to,
                         !.cells = [p \in Pages |-> IF p < to THEN n.cells[p] ELSE ErasedPage]]

\* be300_destroy, and the next machine from the file.
Restart ==
    /\ script = NoScript
    /\ \E works \in BOOLEAN :
         /\ ~works => errors < MaxErrors
         /\ errors' = IF works THEN errors ELSE errors + 1
         /\ image' = IF works THEN Synced(chip, image) ELSE image
         /\ flash' = IF works THEN flash ELSE image.cells
    /\ chip' = NandInit(image'.oob, image'.cells, image'.pages)
    /\ UNCHANGED <<script, pc, got, ops>>

NandNext == Begin \/ Step \/ Finish \/ WarmReset \/ Restart
NandSpec == NandStart /\ [][NandNext]_nandVars

--------------------------------------------------------------------------------
(***************************************************************************)
(* The cells change with the confirming access of a completed script and   *)
(* with nothing else: not with what an operation cut off by a warm reset   *)
(* left behind in any of the engines, not in a bad block, and not across a *)
(* restart (nand_commit_program, nand_commit_erase, be300_sync_nand_image).*)
(***************************************************************************)
NandAsCommanded == chip.cells = flash

(***************************************************************************)
(* A finished operation has read what it is to read: the page, in order    *)
(* and from the right column, the clean result of a matching parity, the   *)
(* outcome of a program or erase; and no read has stalled the bus          *)
(* (nand_stream_byte, nand_stream_read, XFER_MODE, nand_legacy_address).   *)
(***************************************************************************)
PageIs(p, first, last) == [i \in 1..last - first + 1 |-> Cell(chip, p, first + i - 1)]
Expected(s) ==
    CASE s.does \in {"program", "erase"} ->
           LET outcome == IF s.refused THEN Refused ELSE Good
           IN IF s.route = "dio" THEN <<Echo, outcome>> ELSE <<outcome>>
      [] s.does = "burst"   -> PageIs(s.page, 0, PageCells - 1) \o <<Good>>
      [] s.does = "read"    -> PageIs(s.page, 0, PageCells - 1)
      [] s.does = "read520" -> PageIs(s.page, 0, BurstCells - 1)
      [] s.does = "dma"     -> [i \in 1..s.data[1] |->
                                  Cell(chip, s.page + (i - 1) \div PageCells, (i - 1) % PageCells)]
      [] s.does = "READ0"   -> PageIs(s.page, 0, 1)
      [] s.does = "READ1"   -> PageIs(s.page, 1, 1) \o <<Bits>>
      [] s.does = "READOOB" -> PageIs(s.page, 2, 3)
ReadsDeliver ==
    /\ ~chip.stall
    /\ script # NoScript /\ pc = Len(script.steps) => got = Expected(script)
================================================================================
