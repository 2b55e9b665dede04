------------------------------- MODULE Ethernet --------------------------------
(***************************************************************************)
(* The two Ethernet cards.  Both keep a receive buffer that the driver     *)
(* empties and a transmit buffer that it fills.                            *)
(***************************************************************************)
EXTENDS Naturals, Sequences

--------------------------------------------------------------------------------
(***************************************************************************)
(* The NE2000 of cf_ne2000.c: the DP8390's registers, its receive ring of  *)
(* pages and its remote DMA.  Memory is counted in pages and holds, for    *)
(* each page, which part of which frame lies there and the page the ring's *)
(* next frame begins at.                                                   *)
(***************************************************************************)
CONSTANTS
  NeStart, NeStop,    \* the first page of the receive ring and the one after it
  NeTx,               \* the first page of the transmit buffer
  NePages,            \* pages of memory
  NeBatch             \* frames one tick takes from the back end

ASSUME NeAssumption ==
  /\ {NeStart, NeStop, NeTx, NePages, NeBatch} \subseteq Nat
  /\ 0 < NeTx /\ NeTx + 1 < NeStart /\ NeStart + 2 < NeStop /\ NeStop <= NePages

NeEmpty == [id |-> 0, part |-> 0, next |-> 0, cells |-> 0]
NeProm == [NeEmpty EXCEPT !.id = 0, !.part = 1]

NeSeedProm(n) == [n EXCEPT !.mem = [p \in 0..NePages - 1 |-> IF p = 0 THEN NeProm ELSE NeEmpty]]

NeReset(n) ==
  NeSeedProm([n EXCEPT !.sta = FALSE, !.stp = TRUE, !.bnry = NeStart, !.curr = NeStart + 1,
                       !.pstart = NeStart, !.pstop = NeStop, !.tpsr = NeTx, !.tbcr = 0, !.isr = {"RST"},
                       !.rsar = 0, !.rbcr = 0, !.rcr = {}, !.imr = {}, !.rd = "abort", !.addr = 0, !.count = 0])

NeCard == NeReset([sta |-> FALSE, stp |-> TRUE, bnry |-> 0, curr |-> 0, pstart |-> 0, pstop |-> 0, tpsr |-> 0,
                   tbcr |-> 0, isr |-> {}, rsar |-> 0, rbcr |-> 0, rcr |-> {}, imr |-> {}, rd |-> "abort",
                   addr |-> 0, count |-> 0, par |-> "us", mem |-> [p \in 0..NePages - 1 |-> NeEmpty],
                   out |-> <<>>])

NeFirst(n) == IF n.pstart # 0 THEN n.pstart ELSE NeStart
NeAfter(n) == IF n.pstop > NeFirst(n) THEN n.pstop ELSE NeStop

\* The page k pages on, where the ring wraps.
NeNextPage(n, p, k) ==
  IF p + k < NeAfter(n) THEN p + k
  ELSE NeFirst(n) + ((p + k - NeFirst(n)) % (NeAfter(n) - NeFirst(n)))

NeInRing(n, p) == IF NeFirst(n) <= p /\ p < NeAfter(n) THEN p ELSE NeFirst(n)

NeHasSpace(n, pages) ==
  LET curr == NeInRing(n, n.curr)
      bnry == NeInRing(n, n.bnry)
  IN  (IF curr <= bnry THEN bnry - curr ELSE (NeAfter(n) - curr) + (bnry - NeFirst(n))) > pages

NeAccepts(n, f) ==
  /\ n.sta /\ ~n.stp /\ "MON" \notin n.rcr
  /\ CASE f.to = "all"   -> "AB" \in n.rcr
       [] f.to = "group" -> n.rcr \cap {"AM", "PRO"} # {}
       [] OTHER          -> "PRO" \in n.rcr \/ f.to = n.par

\* A frame and its header, written to the ring page after page.
NeStored(n, f) ==
  LET first == NeInRing(n, n.curr)
      next  == NeNextPage(n, first, f.cells)
      at    == {NeNextPage(n, first, k) : k \in 0..f.cells - 1}
      part(p) == CHOOSE k \in 0..f.cells - 1 : NeNextPage(n, first, k) = p
  IN  [n EXCEPT !.mem = [p \in DOMAIN @ |-> IF p \in at THEN [id |-> f.id, part |-> part(p) + 1, next |-> next,
                                                             cells |-> f.cells]
                                            ELSE @[p]],
                !.curr = next, !.isr = @ \cup {"PRX"}]

NeTake(n, f) ==
  IF ~NeAccepts(n, f) THEN n
  ELSE IF NeHasSpace(n, f.cells) THEN NeStored(n, f)
  ELSE [n EXCEPT !.isr = @ \cup {"OVW"}]

NeIrq(n) == n.isr \cap n.imr # {}

-----------------------------------------------------------------------------
(* The registers and the data port.                                          *)

\* The remote DMA has no more bytes to move.
NeRemoteDone(n) == IF n.count = 0 /\ n.rd # "abort" THEN [n EXCEPT !.isr = @ \cup {"RDC"}] ELSE n

\* The frame at the transmit page: what its cells hold, sent when long enough to be a frame.
NeTransmit(n) ==
  LET cell == n.mem[n.tpsr]
      whole == \A k \in 0..n.tbcr - 1 : n.mem[n.tpsr + k].id = cell.id /\ n.mem[n.tpsr + k].part = k + 1
      sent == IF whole THEN cell.id ELSE 0
  IN  [n EXCEPT !.out = IF n.tbcr > 0 THEN Append(@, sent) ELSE @, !.isr = @ \cup {"PTX"}]

\* The command register: start or stop, the remote DMA's direction, and transmission.
NeCommand(n, c) ==
  LET run == [n EXCEPT !.sta = c.sta, !.stp = c.stp, !.rd = c.rd,
                       !.isr = (@ \cup (IF c.stp THEN {"RST"} ELSE {})) \ (IF c.sta THEN {"RST"} ELSE {})]
      dma == IF c.rd \in {"read", "write"}
             THEN NeRemoteDone([run EXCEPT !.addr = n.rsar, !.count = n.rbcr]) ELSE run
  IN  IF c.txp THEN NeTransmit(dma) ELSE dma

NeAck(n, bits) == [n EXCEPT !.isr = @ \ bits]
NeSetRemote(n, page, pages) == [n EXCEPT !.rsar = page, !.rbcr = pages]
NeSetup(n, rcr, imr) == [n EXCEPT !.rcr = rcr, !.imr = imr]
NeSetRing(n, first, after, bnry, curr) ==
  [n EXCEPT !.pstart = first, !.pstop = after, !.bnry = bnry, !.curr = curr]
NeSetBoundary(n, page) == [n EXCEPT !.bnry = page]
NeSetTransmit(n, page, pages) == [n EXCEPT !.tpsr = page, !.tbcr = pages]
NeResetPort(n) == [n EXCEPT !.isr = @ \cup {"RST"}]

\* The data port does not know of the ring: the address runs on past its end.
NeMoved(n) == NeRemoteDone([n EXCEPT !.addr = @ + 1, !.count = IF @ > 0 THEN @ - 1 ELSE 0])
NeDataRead(n) == n.mem[n.addr % NePages]
NeDataWrite(n, cell) ==
  NeMoved(IF n.addr < NePages THEN [n EXCEPT !.mem[n.addr] = cell] ELSE n)

--------------------------------------------------------------------------------
(***************************************************************************)
(* The 3Com 3c589 of el3.c: a receive FIFO of whole frames and a transmit  *)
(* FIFO the driver fills and the card cuts into frames by the length at the*)
(* head of each.  A FIFO is counted in cells, the units one access moves.  *)
(***************************************************************************)
CONSTANTS
  ElFrames,     \* frames the receive FIFO holds
  ElFifo,       \* cells the transmit FIFO holds
  ElBatch,      \* frames one tick takes from the back end
  ElStatus      \* transmit statuses the card keeps

ASSUME ElAssumption == {ElFrames, ElFifo, ElBatch, ElStatus} \subseteq Nat \ {0}

ElNone == [id |-> 0, to |-> "us", cells |-> 0]
ElReset(n) ==
  [n EXCEPT !.latched = {}, !.mask = {}, !.show = {}, !.filter = {}, !.rxOn = FALSE, !.txOn = FALSE,
            !.tx = <<>>, !.txStatus = 0, !.head = 0, !.count = 0, !.pos = 0]
ElCard == ElReset([latched |-> {}, mask |-> {}, show |-> {}, filter |-> {}, rxOn |-> FALSE, txOn |-> FALSE,
                   tx |-> <<>>, txStatus |-> 0, head |-> 0, count |-> 0, pos |-> 0, station |-> "us",
                   rx |-> [i \in 0..ElFrames - 1 |-> ElNone], out |-> <<>>])

\* What the status register shows; a waiting frame shows for as long as it waits.
ElShown(n) ==
  LET st == n.latched \cup (IF n.rxOn /\ n.count > 0 THEN {"RX_COMPLETE"} ELSE {})
  IN  (st \cap n.show) \cup (IF st \cap n.mask # {} THEN {"INT_LATCH"} ELSE {})
ElIrq(n) == ElShown(n) \cap n.mask # {}

\* As if the reading position were left where the last frame ended.
ElPop_KeepsPos(n) == IF n.count = 0 THEN n
                     ELSE [n EXCEPT !.head = (@ + 1) % ElFrames, !.count = @ - 1]
ElPop(n) == IF n.count = 0 THEN n
            ELSE [n EXCEPT !.head = (@ + 1) % ElFrames, !.count = @ - 1, !.pos = 0]

\* The commands, and what their argument selects.
ElCommand(n, op, arg) ==
  CASE op = "TotalReset"   -> ElReset(n)
    [] op = "RxDisable"    -> [n EXCEPT !.rxOn = FALSE]
    [] op = "RxEnable"     -> [n EXCEPT !.rxOn = TRUE]
    [] op = "RxReset"      -> [n EXCEPT !.head = 0, !.count = 0, !.pos = 0, !.rxOn = FALSE]
    [] op = "RxDiscard"    -> ElPop(n)
    [] op = "TxEnable"     -> [n EXCEPT !.txOn = TRUE]
    [] op = "TxDisable"    -> [n EXCEPT !.txOn = FALSE]
    [] op = "TxReset"      -> [n EXCEPT !.tx = <<>>, !.txStatus = 0, !.txOn = FALSE]
    [] op = "Request"      -> [n EXCEPT !.latched = @ \cup {"INT_REQ"}]
    [] op = "AckIntr"      -> [n EXCEPT !.latched = @ \ arg]
    [] op = "SetIntrEnb"   -> [n EXCEPT !.mask = arg]
    [] op = "SetReadZeroMask" -> [n EXCEPT !.show = arg]
    [] op = "SetRxFilter"  -> [n EXCEPT !.filter = arg]

\* The frame at the head of the transmit FIFO is whole: its cells are as many as its header says.
ElWhole(tx) == tx # <<>> /\ Len(tx) >= 1 + tx[1].cells
ElSent(n) ==
  LET h == n.tx[1]
      body == SubSeq(n.tx, 2, 1 + h.cells)
      id == IF \A i \in DOMAIN body : body[i] = [id |-> h.id, part |-> i] THEN h.id ELSE 0
  IN  [n EXCEPT !.out = IF n.txOn /\ h.cells > 0 THEN Append(@, id) ELSE @,
                !.txStatus = IF h.tell /\ @ < ElStatus THEN @ + 1 ELSE @,
                !.latched = IF h.tell THEN @ \cup {"TX_COMPLETE"} ELSE @,
                !.tx = SubSeq(@, 2 + h.cells, Len(@))]
\* Each frame that leaves takes a cell at least.
ElFlush(n) ==
  LET sent[k \in 0..Len(n.tx)] ==
        IF k = 0 THEN n
        ELSE LET s == sent[k - 1] IN IF ElWhole(s.tx) THEN ElSent(s) ELSE s
  IN  sent[Len(n.tx)]

ElWriteFifo(n, cell) ==
  IF Len(n.tx) >= ElFifo THEN [n EXCEPT !.latched = @ \cup {"ADAPTER_FAILURE"}, !.tx = <<>>]
  ELSE ElFlush([n EXCEPT !.tx = Append(@, cell)])
ElFree(n) == ElFifo - Len(n.tx)

\* One status is taken; with none left the completion is over.
ElPopStatus(n) ==
  LET left == IF n.txStatus > 0 THEN n.txStatus - 1 ELSE 0
  IN  [n EXCEPT !.txStatus = left, !.latched = IF left = 0 THEN @ \ {"TX_COMPLETE"} ELSE @]

ElHead(n) == n.rx[n.head]
ElReadFifo(n) == IF n.count = 0 THEN [nic |-> n, cell |-> [id |-> 0, part |-> 0]]
                 ELSE [nic |-> [n EXCEPT !.pos = @ + 1], cell |-> [id |-> ElHead(n).id, part |-> n.pos + 1]]

ElAccepts(n, f) ==
  \/ "PROMISC" \in n.filter
  \/ f.to = n.station /\ "STATION" \in n.filter
  \/ f.to = "all" /\ "BROADCAST" \in n.filter
  \/ f.to = "group" /\ "MULTICAST" \in n.filter

ElTake(n, f) ==
  IF ~n.rxOn \/ ~ElAccepts(n, f) THEN n
  ELSE IF n.count = ElFrames THEN [n EXCEPT !.latched = @ \cup {"ADAPTER_FAILURE"}]
  ELSE [n EXCEPT !.rx[(n.head + n.count) % ElFrames] = f, !.count = @ + 1]
ElFull(n) == n.count = ElFrames
================================================================================
