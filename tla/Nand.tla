---------------------------------- MODULE Nand ---------------------------------
(***************************************************************************)
(* The NAND chip of src/hw/nand.c and the four ways the guest reaches it:  *)
(* the transfer engine (A400-A4FF), the ROM's boot engine (C000-C0FF), the *)
(* direct I/O port (D000/D002), and the command and address registers      *)
(* (AC00/AC04); and the page window of src/hw/nand_restore.c.  A page is   *)
(* PageCells cells: 0 and 1 its data, 2 and 3 the halves of its spare      *)
(* bytes.  A cell holds the set of its bits that are one: erasing gives    *)
(* Bits, programming can only take bits away.                              *)
(*   oob, cells, alloc   the image, with real spare bytes or without       *)
(*   state, page, col    what the chip is doing, the latched address       *)
(*   pbuf, plen          the program buffer (it starts at column 0)        *)
(*   xphase .. xbuf      the transfer engine's registers                   *)
(*   sact .. stall       the stream behind the B000 window                 *)
(*   bmode, baddr        the boot engine                                   *)
(*   dio, echo, cyc, xlen, xcur   direct I/O and the legacy address cycles *)
(*   rbuf, rbase, rpos, rlim      the restore page window                  *)
(***************************************************************************)
EXTENDS Integers, Sequences, FiniteSets

CONSTANTS
    Blocks, BlockPages,     \* 1024 blocks of 32 pages
    TagPages                \* pages of a block with synthetic tags (5)

ASSUME ChipAssumption == Blocks \in Nat \ {0} /\ BlockPages \in Nat \ {0} /\ TagPages \in Nat

Pages == 0 .. Blocks * BlockPages - 1
DataCells == 2
PageCells == 4
BurstCells == PageCells - 1         \* 520 of the 528 bytes
Block(p) == p \div BlockPages
PagesOf(b) == b * BlockPages .. (b + 1) * BlockPages - 1

Bits == {1, 2}
Tagged == {1}                       \* spare bytes AA 55 0F
IdTag(b) == {-10 - b}               \* the synthetic tag of an allocated block
BlankTag == {-9}
Good == {-1}                        \* status C0
Refused == {-2}                     \* status C1
Maker == {-3}
Echo == {-4}                        \* the byte last written to D000
NoValue == {-5}

ErasedPage == [c \in 0..PageCells - 1 |-> Bits]
BlankChip == [p \in Pages |-> ErasedPage]
NoAddr == [i \in 1..3 |-> 0]

NandInit(oob, cells, pages) ==
    [oob |-> oob, cells |-> cells, dirty |-> FALSE,
     alloc |-> [b \in 0..Blocks - 1 |-> b * BlockPages < pages],
     state |-> "idle", page |-> 0, col |-> 0, pbuf |-> ErasedPage, plen |-> 0,
     stat |-> Good, ready |-> TRUE,
     xphase |-> 0, xbyte |-> "none", xcmd |-> "READ0", xaddr |-> NoAddr, xcnt |-> 0,
     xdata |-> <<>>, xmode |-> 0, status2 |-> FALSE, xbuf |-> <<{}, {}>>,
     sact |-> FALSE, spage |-> 0, scol |-> 0, scur |-> 0, slim |-> 0, sbase |-> 0,
     burst |-> FALSE, stall |-> FALSE,
     bmode |-> 0, baddr |-> <<>>,
     dio |-> "data", echo |-> FALSE, cyc |-> 0, xlen |-> 0, xcur |-> 0,
     rbuf |-> ErasedPage, rbase |-> 0, rpos |-> 0, rlim |-> 0]

--------------------------------------------------------------------------------
(***************************************************************************)
(* The cells.                                                              *)
(***************************************************************************)
\* A block is bad when its first or second page is marked and not tagged.
Bad(cells, b) == \E p \in PagesOf(b) : /\ p - b * BlockPages < 2
                                       /\ cells[p][2] \notin {Bits, Tagged}
Usable(n, p) == p \in Pages /\ ~(n.oob /\ Bad(n.cells, Block(p)))

\* Without spare bytes in the image, the tag of a block is made up.
SpareCell(n, p, c) ==
    IF n.oob THEN n.cells[p][c]
    ELSE IF c # 2 \/ p % BlockPages >= TagPages THEN Bits
    ELSE IF n.alloc[Block(p)] THEN IdTag(Block(p)) ELSE BlankTag
Cell(n, p, c) ==
    IF p \notin Pages THEN Bits
    ELSE IF c < DataCells THEN n.cells[p][c] ELSE SpareCell(n, p, c)

ProgramPage(cells, p, words, len, oob) ==
    [cells EXCEPT ![p] =
        [c \in DOMAIN @ |-> IF c < len /\ (oob \/ c < DataCells)
                            THEN @[c] \cap words[c] ELSE @[c]]]
ErasePages(cells, b) == [p \in DOMAIN cells |-> IF p \in PagesOf(b) THEN ErasedPage ELSE cells[p]]

CommitProgram(n) ==
    IF n.page \notin Pages THEN n
    ELSE IF ~Usable(n, n.page) THEN [n EXCEPT !.stat = Refused]
    ELSE [n EXCEPT !.cells = ProgramPage(@, n.page, n.pbuf, n.plen, n.oob),
                   !.dirty = @ \/ n.plen > 0,
                   !.alloc[Block(n.page)] = @ \/ n.plen > 0]
CommitErase(n) ==
    IF n.page \notin Pages THEN n
    ELSE IF ~Usable(n, n.page) THEN [n EXCEPT !.stat = Refused]
    ELSE [n EXCEPT !.cells = ErasePages(@, Block(n.page)), !.dirty = TRUE,
                   !.alloc[Block(n.page)] = FALSE]

\* What a command does whichever way it came.
Opens == [READ0 |-> "data", READ1 |-> "data", READOOB |-> "oob", READID |-> "id",
          STATUS |-> "status", SEQIN |-> "program", ERASE1 |-> "erase"]
\* As if 0x80 left the program buffer as it was.
Opened_KeepsBuffer(n, cmd) ==
    [n EXCEPT !.state = Opens[cmd],
              !.col = IF cmd \in {"READ0", "SEQIN"} THEN 0 ELSE IF cmd = "READ1" THEN 1 ELSE @]
Opened(n, cmd) ==
    LET o == [n EXCEPT !.state = Opens[cmd],
                !.col = IF cmd \in {"READ0", "SEQIN"} THEN 0 ELSE IF cmd = "READ1" THEN 1 ELSE @]
    IN IF cmd = "SEQIN" THEN [o EXCEPT !.pbuf = ErasedPage, !.plen = 0] ELSE o
Confirmed(n, cmd) ==
    LET g == [n EXCEPT !.stat = Good]
        c == IF cmd = "PAGEPROG" /\ n.state = "program" THEN CommitProgram(g)
             ELSE IF cmd = "ERASE2" /\ n.state = "erase" THEN CommitErase(g) ELSE g
    IN [c EXCEPT !.state = "idle", !.ready = TRUE]

--------------------------------------------------------------------------------
(***************************************************************************)
(* The transfer engine: phase 3 is a command, phase 6 its address; the     *)
(* acknowledge register carries it out.                                    *)
(***************************************************************************)
XferCmd(n, phase) == [n EXCEPT !.xphase = phase, !.xcnt = IF phase \in {3, 6} THEN 0 ELSE @]

Addressed == {"READ0", "READ1", "READOOB", "SEQIN"}
EraseRow(n) == IF n.xcnt < 2 THEN n.page ELSE n.xaddr[1]
EraseStart(n) == Block(EraseRow(n)) * BlockPages
LatchAddr(n) ==
    IF n.xcmd \in Addressed /\ n.xcnt >= 3
    THEN [n EXCEPT !.page = n.xaddr[2], !.col = n.xaddr[1]]
    ELSE IF n.xcmd = "ERASE1" /\ n.xcnt >= 2 THEN [n EXCEPT !.page = EraseStart(n)]
    ELSE n

XferAddr(n, v) ==
    IF n.xphase # 6 THEN [n EXCEPT !.xbyte = v]
    ELSE LatchAddr([n EXCEPT !.xcnt = IF @ < 3 THEN @ + 1 ELSE 3,
           !.xaddr = IF n.xcnt < 3 THEN [@ EXCEPT ![n.xcnt + 1] = v]
                     ELSE [i \in 1..3 |-> IF i = 3 THEN v ELSE @[i + 1]]])

XferCommand(n, cmd) ==
    LET t == [n EXCEPT !.xcmd = cmd]
        clear == [t EXCEPT !.xdata = <<>>]
        fresh == [clear EXCEPT !.xcnt = 0, !.xaddr = NoAddr]
        status(m) == [m EXCEPT !.ready = TRUE, !.xdata = <<m.stat>>]
    IN CASE cmd = "STATUS"       -> status(Opened(t, cmd))
         [] cmd = "READID"       -> [Opened(fresh, cmd) EXCEPT !.ready = TRUE]
         [] cmd \in DOMAIN Opens \ {"STATUS", "READID"} -> Opened(fresh, cmd)
         [] cmd = "PAGEPROG"     -> status(Confirmed(t, cmd))
         [] cmd = "ERASE2"       ->
              status(Confirmed(IF n.state = "erase" THEN [t EXCEPT !.page = EraseStart(n)] ELSE t, cmd))
         [] cmd = "RESET"        -> [clear EXCEPT !.state = "idle", !.ready = TRUE, !.stat = Good]
         [] OTHER                -> [clear EXCEPT !.ready = TRUE]

XferAck(n) ==
    CASE n.xphase = 3 -> XferCommand(n, n.xbyte)
      [] n.xphase = 6 ->
           LET r == [n EXCEPT !.ready = TRUE]
           IN IF n.xcmd = "READID" THEN [r EXCEPT !.xdata = <<Maker, Maker>>]
              ELSE IF n.xcmd = "STATUS" THEN [r EXCEPT !.xdata = <<n.stat>>]
              ELSE IF n.xcmd \in Addressed
                   THEN [r EXCEPT !.page = n.xaddr[2], !.col = n.xaddr[1]]
              ELSE IF n.xcmd = "ERASE1" THEN [r EXCEPT !.page = EraseStart(n)] ELSE r
      [] OTHER -> n
XferData(n) == [n EXCEPT !.xdata = IF @ = <<>> THEN @ ELSE Tail(@)]

--------------------------------------------------------------------------------
(***************************************************************************)
(* The stream window and the transfer modes.                               *)
(***************************************************************************)
\* As if a stream that runs over the end of a page started that page again.
StreamCell_SamePage(n, i) == Cell(n, n.spage, (n.scol + i) % PageCells)
StreamCell(n, i) ==
    LET at == n.scol + i IN Cell(n, n.spage + at \div PageCells, at % PageCells)
StreamAt(n, limit) ==
    [n EXCEPT !.spage = n.xaddr[2], !.scol = n.xaddr[1], !.scur = 0,
              !.sbase = n.xaddr[2] * PageCells + n.xaddr[1],
              !.slim = limit, !.sact = TRUE]
WriteWindow(n, base, limit) ==
    [n EXCEPT !.sbase = base, !.scur = 0, !.slim = limit, !.sact = FALSE]

\* Mode 4: the rest of the page, into the result registers.
ResultMode(n) ==
    LET o == IF ~n.sact /\ n.xcnt >= 3 THEN StreamAt(n, n.slim) ELSE n
    IN IF ~o.sact THEN [o EXCEPT !.xbuf = <<{}, {}>>]
       ELSE [o EXCEPT !.slim = PageCells - o.scol,
                      !.xbuf = [i \in 1..2 |-> StreamCell(o, o.scur + i - 1)]]

XferMode(n, mode) ==
    LET m == [n EXCEPT !.xmode = mode, !.ready = TRUE, !.burst = @ \/ mode = 1]
    IN CASE mode \in {0, 1} -> [WriteWindow(m, 0, 0) EXCEPT !.xbuf = <<{}, {}>>, !.status2 = FALSE]
         [] mode = 4 -> ResultMode(m)
         [] mode = 5 -> StreamAt(m, (IF m.burst THEN BurstCells ELSE PageCells) - m.xaddr[1])
         [] mode = 6 -> WriteWindow(m, BurstCells, 1)
         [] mode = 7 -> WriteWindow(LatchAddr(m), 0, BurstCells)
         [] OTHER    -> m

\* The parity the checker computes over data and first spare bytes; the six
\* words arrive in mode 1 and give a clean or an unclean result.
Parity(n, p) == [c \in 0..BurstCells - 1 |-> Cell(n, p, c)]
XferEcc(n, words) ==
    IF n.xmode # 1 THEN n
    ELSE [n EXCEPT !.ready = TRUE,
                   !.status2 = n.oob /\ n.spage \in Pages /\ words # Parity(n, n.spage)]

StreamOver(n) == n.slim # 0 /\ n.scur >= n.slim
StreamRead(n) ==
    IF ~n.sact THEN n
    ELSE [n EXCEPT !.scur = @ + 1,
                   !.stall = @ \/ (StreamOver(n) /\ n.burst /\ n.xmode = 5)]
StreamValue(n) == IF ~n.sact \/ StreamOver(n) THEN Bits ELSE StreamCell(n, n.scur)
StreamWrite(n, v) ==
    IF ~(n.xmode \in {6, 7} /\ n.slim # 0 /\ n.scur < n.slim) THEN n
    ELSE LET i == n.sbase + n.scur
         IN [n EXCEPT !.pbuf[i] = v, !.plen = IF i + 1 > @ THEN i + 1 ELSE @, !.scur = @ + 1]

\* The companion's DMA: as many cells as asked for, over page ends.
DmaRead(n, len) == IF n.sact THEN [n EXCEPT !.scur = @ + len] ELSE n
DmaStateWritten(n) == [n EXCEPT !.burst = FALSE]

--------------------------------------------------------------------------------
(***************************************************************************)
(* The boot engine.                                                        *)
(***************************************************************************)
BootReset(n) == [n EXCEPT !.bmode = 0, !.baddr = <<>>, !.sact = FALSE, !.slim = 0]
BootCmd(n, v) == IF v \in {3, 6} THEN [n EXCEPT !.baddr = <<>>]
                 ELSE IF v = 0 THEN BootReset(n) ELSE n
BootAddr(n, v) == [n EXCEPT !.baddr = IF Len(@) < 3 THEN Append(@, v) ELSE Append(Tail(@), v)]
BootMode(n, mode) ==
    IF mode = 5 /\ Len(n.baddr) >= 3
    THEN [n EXCEPT !.bmode = mode, !.spage = n.baddr[2], !.scol = n.baddr[1], !.scur = 0,
                   !.sbase = n.baddr[2] * PageCells + n.baddr[1],
                   !.slim = PageCells - n.baddr[1], !.sact = TRUE]
    ELSE [n EXCEPT !.bmode = mode]

--------------------------------------------------------------------------------
(***************************************************************************)
(* Commands and addresses on the legacy ports.                             *)
(***************************************************************************)
SetupTransfer(n) ==
    [n EXCEPT !.xcur = 0,
              !.xlen = CASE n.state = "data" -> IF n.col < DataCells THEN DataCells - n.col ELSE 0
                         [] n.state = "oob"  -> PageCells - DataCells
                         [] n.state = "id"   -> 2
                         [] OTHER            -> 0]
LegacyCommand(n, cmd) ==
    LET t == [n EXCEPT !.cyc = 0, !.xcur = 0, !.ready = FALSE]
    IN CASE cmd = "READID"                 -> [SetupTransfer(Opened(t, cmd)) EXCEPT !.ready = TRUE]
         [] cmd = "STATUS"                 -> [Opened(t, cmd) EXCEPT !.ready = TRUE]
         [] cmd \in DOMAIN Opens \ {"READID", "STATUS"} -> Opened(t, cmd)
         [] cmd \in {"PAGEPROG", "ERASE2"} -> Confirmed(t, cmd)
         [] OTHER                          -> [t EXCEPT !.state = "idle", !.ready = TRUE]

ReadIsSetUp(n) == n.cyc >= 3 /\ n.state \in {"data", "oob"}
\* The second cycle is the row's low byte; a column byte keeps the half.
LegacyAddress(n, v) ==
    LET a == [n EXCEPT !.cyc = @ + 1,
                !.col  = IF n.cyc = 0 /\ n.state = "data" THEN (IF @ >= 1 THEN 1 ELSE 0) + v ELSE @,
                !.page = IF n.cyc = 1 THEN v ELSE @]
    IN IF ReadIsSetUp(a) THEN [SetupTransfer(a) EXCEPT !.ready = TRUE] ELSE a
ProgramAppend(n, v) ==
    IF n.plen >= PageCells THEN n ELSE [n EXCEPT !.pbuf[n.plen] = v, !.plen = @ + 1]

DioCommand(n, cmd) == [LegacyCommand(n, cmd) EXCEPT !.echo = cmd # "READ0"]
DioAddress(n, v) == LET a == LegacyAddress(n, v)
                    IN [a EXCEPT !.echo = v # 0 /\ ~ReadIsSetUp(a)]
DioData(n, v) == [IF n.state = "program" THEN ProgramAppend(n, v) ELSE n EXCEPT !.echo = v # {}]
DioWrite(n, v) == CASE n.dio = "cle" -> DioCommand(n, v)
                    [] n.dio = "ale" -> DioAddress(n, v)
                    [] OTHER         -> DioData(n, v)
DioMoves(n) == ~n.echo /\ n.state \in {"data", "oob", "id"} /\ n.xcur < n.xlen
DioRead(n) == IF DioMoves(n) THEN [n EXCEPT !.xcur = @ + 1] ELSE [n EXCEPT !.echo = FALSE]
DioValue(n) ==
    CASE n.echo -> Echo
      [] ~n.echo /\ n.state = "status" -> n.stat
      [] DioMoves(n) -> IF n.state = "id" THEN Maker
                        ELSE IF n.state = "oob" THEN SpareCell(n, n.page, DataCells + n.xcur)
                        ELSE Cell(n, n.page, n.col + n.xcur)
      [] OTHER -> Bits

--------------------------------------------------------------------------------
(***************************************************************************)
(* The restore window.  Its command registers C14 and C20 lie among the    *)
(* panel's, which nand_restore_handles_offset leaves to the LCD: no        *)
(* command, address or confirm reaches it, and last_cmd stays READ0.       *)
(***************************************************************************)
RestoreMode(n, mode) ==
    LET m == [n EXCEPT !.rpos = 0]
    IN CASE mode = 4 -> [m EXCEPT !.rbase = BurstCells, !.rlim = 1]
         [] mode = 5 -> [m EXCEPT !.rbuf = [c \in DOMAIN @ |-> Cell(n, 0, c)],
                                  !.rbase = 0, !.rlim = BurstCells]
         [] mode = 6 -> [m EXCEPT !.rbase = DataCells, !.rlim = PageCells - DataCells]
         [] mode = 7 -> [m EXCEPT !.rbase = 0, !.rlim = DataCells]
         [] OTHER    -> m
RestoreOver(n) == n.rpos >= n.rlim
RestoreValue(n) == IF RestoreOver(n) THEN Bits ELSE n.rbuf[n.rbase + n.rpos]
RestoreRead(n) == IF RestoreOver(n) THEN n ELSE [n EXCEPT !.rpos = @ + 1]
RestoreWrite(n, v) ==
    IF RestoreOver(n) THEN n ELSE [n EXCEPT !.rbuf[n.rbase + n.rpos] = v, !.rpos = @ + 1]
================================================================================
