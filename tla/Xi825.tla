--------------------------------- MODULE Xi825 ---------------------------------
(***************************************************************************)
(* The XI-825 PRISM card of xi825.c: commands that complete at once,       *)
(* frames and messages in buffers named by a FID, a queue of each that     *)
(* only the driver's acknowledgement advances, records that are staged and *)
(* then committed, and the link to the access point inside the card.       *)
(***************************************************************************)
EXTENDS Naturals, Sequences

CONSTANTS
  XiBuffers,        \* buffers the card has
  XiQueue,          \* frames, and messages, it queues
  XiFidFirst, XiFidLimit,  \* the FIDs it hands out, and the one it starts over at
  XiBatch           \* frames one tick takes from the back end

ASSUME XiAssumption ==
  /\ {XiBuffers, XiQueue, XiFidFirst, XiFidLimit, XiBatch} \subseteq Nat \ {0}
  /\ XiFidFirst + XiBuffers < XiFidLimit

XiSlots == 0..XiBuffers - 1
XiFree == [used |-> FALSE, fid |-> 0, cells |-> <<>>]
XiDefaults == [ssid |-> "any", port |-> "station", wep |-> "off", key |-> "none", promiscuous |-> "off"]

\* INIT: everything but the MAC address and the access point's security.
XiReset(n) ==
  [n EXCEPT !.ev = {}, !.inten = {}, !.enabled = FALSE, !.associated = FALSE, !.linkPending = FALSE,
            !.buffers = [i \in XiSlots |-> XiFree], !.staged = XiDefaults, !.committed = XiDefaults,
            !.nextFid = XiFidFirst, !.info = <<>>, !.rx = <<>>, !.infoFid = 0, !.rxFid = 0, !.allocFid = 0,
            !.select = 0, !.offset = 0, !.bapError = FALSE]
XiCard(ap) ==
  XiReset([ev |-> {}, inten |-> {}, enabled |-> FALSE, associated |-> FALSE, linkPending |-> FALSE,
           buffers |-> <<>>, staged |-> XiDefaults, committed |-> XiDefaults, nextFid |-> 0, info |-> <<>>,
           rx |-> <<>>, infoFid |-> 0, rxFid |-> 0, allocFid |-> 0, select |-> 0, offset |-> 0,
           bapError |-> FALSE, mac |-> "us", ap |-> ap, out |-> <<>>])
XiIrq(n) == n.ev \cap n.inten # {}

XiNamed(n, fid) == {i \in XiSlots : n.buffers[i].used /\ n.buffers[i].fid = fid}
XiRoom(n) == {i \in XiSlots : ~n.buffers[i].used}
XiLowest(S) == CHOOSE i \in S : \A j \in S : i <= j
XiHolds(n, fid) == n.buffers[XiLowest(XiNamed(n, fid))].cells

\* The next FID: the first from the given one on that names no buffer of bs.
XiFresh(bs, from) ==
  CHOOSE k \in from..from + XiBuffers :
    /\ \A i \in XiSlots : ~(bs[i].used /\ bs[i].fid = k)
    /\ \A j \in from..k - 1 : \E i \in XiSlots : bs[i].used /\ bs[i].fid = j

\* A buffer for these cells; the caller has found one free.
XiAllocate(n, cells) ==
  LET i  == XiLowest(XiRoom(n))
      bs == [n.buffers EXCEPT ![i] = [used |-> TRUE, fid |-> n.nextFid, cells |-> cells]]
      from == IF n.nextFid + 1 >= XiFidLimit THEN XiFidFirst ELSE n.nextFid + 1
  IN  [n EXCEPT !.buffers = bs, !.nextFid = XiFresh(bs, from)]
XiRelease(n, fid) ==
  [n EXCEPT !.buffers = [i \in XiSlots |-> IF i \in XiNamed(n, fid) THEN XiFree ELSE @[i]]]

\* A message for the driver, when the queue and the buffers have room for it.
XiInforms(n) == Len(n.info) < XiQueue /\ XiRoom(n) # {}
XiInfo(n, cells) ==
  IF ~XiInforms(n) THEN [n EXCEPT !.ev = @ \cup {"INFDROP"}]
  ELSE LET a == XiAllocate(n, cells)
           queue == Append(n.info, n.nextFid)
       IN  [a EXCEPT !.info = queue, !.infoFid = queue[1], !.ev = @ \cup {"INFO"}]

-----------------------------------------------------------------------------
(* The link.                                                                 *)

XiCanAssociate(n) ==
  /\ n.ap \in {"open", "wep"}
  /\ (n.committed.wep = "on") = (n.ap = "wep")
  /\ n.ap = "wep" => n.committed.key = "right"
  /\ n.enabled /\ n.committed.port = "station" /\ n.committed.ssid \in {"any", "BE300"}

XiLink(n) == <<"link", XiCanAssociate(n)>>

\* As if the link changed whether or not the driver could be told.
XiTick_Untold(n) ==
  IF ~n.linkPending /\ XiCanAssociate(n) = n.associated THEN n
  ELSE [XiInfo(n, XiLink(n)) EXCEPT !.associated = XiCanAssociate(n), !.linkPending = FALSE]
\* The link changes only when the message that says so is queued.
XiTick(n) ==
  IF ~n.linkPending /\ XiCanAssociate(n) = n.associated THEN n
  ELSE LET told == XiInfo(n, XiLink(n))
       IN  IF ~XiInforms(n) THEN told
           ELSE [told EXCEPT !.associated = XiCanAssociate(n), !.linkPending = FALSE]

XiAccepts(n, f) == n.associated /\ (f.to \in {"all", "group", n.mac} \/ n.committed.promiscuous = "on")
XiTake(n, f) ==
  IF ~XiAccepts(n, f) \/ Len(n.rx) = XiQueue \/ XiRoom(n) = {} THEN n
  ELSE LET a == XiAllocate(n, [k \in 1..f.cells |-> [id |-> f.id, part |-> k]])
           queue == Append(n.rx, n.nextFid)
       IN  [a EXCEPT !.rx = queue, !.rxFid = queue[1], !.ev = @ \cup {"RX"}]
XiFull(n) == Len(n.rx) >= XiQueue

-----------------------------------------------------------------------------
(* Commands, events and the buffer access path.                              *)

\* A command is over; its result, which no later access depends on, is left out.
XiOver(n) == [n EXCEPT !.ev = @ \cup {"CMD"}]
XiInit(n) == XiOver(XiReset(n))
XiEnable(n) == XiOver([n EXCEPT !.enabled = TRUE, !.linkPending = TRUE])
XiDisable(n) == XiOver([n EXCEPT !.enabled = FALSE, !.linkPending = n.associated])

\* A buffer of so many cells, unless the driver has not yet taken the last one.
XiAlloc(n, cells) ==
  IF "ALLOC" \in n.ev \/ XiRoom(n) = {} THEN XiOver(n)
  ELSE LET a == XiAllocate(n, [k \in 1..cells |-> [id |-> 0, part |-> k]])
       IN  XiOver([a EXCEPT !.allocFid = n.nextFid, !.ev = @ \cup {"ALLOC"}])

\* The buffer's frame is sent; the buffer goes back to the driver or is released.
XiTransmit(n, fid, reclaim) ==
  IF XiNamed(n, fid) = {} \/ "ALLOC" \in n.ev THEN XiOver(n)
  ELSE LET cells == XiHolds(n, fid)
           id == IF \A k \in DOMAIN cells : cells[k] = [id |-> cells[1].id, part |-> k] THEN cells[1].id ELSE 0
           sent == [n EXCEPT !.out = IF n.associated THEN Append(@, id) ELSE @]
       IN  XiOver(IF reclaim THEN [sent EXCEPT !.allocFid = fid, !.ev = @ \cup {"ALLOC"}]
                   ELSE XiRelease(sent, fid))

XiInquire(n, what) ==
  XiOver(IF what = "link" THEN [n EXCEPT !.linkPending = TRUE] ELSE XiInfo(n, <<what>>))

\* Reading a record forgets what was staged; writing commits it if its header is right.
XiAccess(n, rid, write) ==
  IF ~write THEN XiOver([n EXCEPT !.staged[rid] = n.committed[rid]])
  ELSE IF n.staged[rid] = "torn" THEN XiOver(n)
  ELSE XiOver([n EXCEPT !.committed[rid] = n.staged[rid]])
XiStage(n, rid, value) == [n EXCEPT !.staged[rid] = value]

\* An acknowledged frame or message leaves its queue, and the next one is announced.
XiAckInfo(n, value) ==
  LET left == [n EXCEPT !.ev = @ \ value]
      next == IF "INFO" \in value /\ n.info # <<>>
              THEN [XiRelease(left, n.info[1]) EXCEPT !.info = Tail(@)] ELSE left
  IN  IF next.info # <<>> THEN [next EXCEPT !.infoFid = next.info[1], !.ev = @ \cup {"INFO"}] ELSE next
XiAck(n, value) ==
  LET left == XiAckInfo(n, value)
      next == IF "RX" \in value /\ n.rx # <<>>
              THEN [XiRelease(left, n.rx[1]) EXCEPT !.rx = Tail(@)] ELSE left
  IN  IF next.rx # <<>> THEN [next EXCEPT !.rxFid = next.rx[1], !.ev = @ \cup {"RX"}] ELSE next

\* The buffer access path: an error stays until the next seek.
XiSeek(n, fid, offset) ==
  [n EXCEPT !.select = fid, !.offset = offset,
            !.bapError = XiNamed(n, fid) = {} \/ offset >= Len(XiHolds(n, fid))]
XiBapOk(n) == ~n.bapError /\ XiNamed(n, n.select) # {} /\ n.offset < Len(XiHolds(n, n.select))
XiBapRead(n) ==
  IF XiBapOk(n) THEN [nic |-> [n EXCEPT !.offset = @ + 1], cell |-> XiHolds(n, n.select)[n.offset + 1]]
  ELSE [nic |-> [n EXCEPT !.bapError = TRUE], cell |-> [id |-> 0, part |-> 0]]
XiBapWrite(n, cell) ==
  IF XiBapOk(n)
  THEN [n EXCEPT !.buffers[XiLowest(XiNamed(n, n.select))].cells[n.offset + 1] = cell, !.offset = @ + 1]
  ELSE [n EXCEPT !.bapError = TRUE]
===============================================================================
