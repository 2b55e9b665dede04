-------------------------------- MODULE NetCards --------------------------------
(***************************************************************************)
(* A network card in the CF socket, between the back end's queue of frames *)
(* (wire), which the machine's loop polls between batches of guest         *)
(* instructions, and the guest's driver for that card, which goes through  *)
(* its registers one access at a time.  A behaviour is of one card.        *)
(***************************************************************************)
EXTENDS Ethernet, Xi825, Wl54cf, FiniteSets

CONSTANTS Traffic,      \* for each card, what the network sends: whom a frame is for, its cells
          MaxFrames,  \* for each card, how many frames the network sends
          MaxConfig   \* for each card, how often the driver reconfigures it

VARIABLES card, nic, wire, drv,
          made,       \* frames sent by the network and reconfigurations so far
          owed,       \* frames the card has taken and the driver not yet had
          wrong,      \* the driver was given, or the network sent, another frame than it should be
          told,       \* what the driver was last told of the link
          station     \* the supplicant: the handshake messages it heard, whether it knows the
                      \* access point's secret, and the nonces whose keys it installed
netVars == <<card, nic, wire, drv, made, owed, wrong, told, station>>

NicKinds == {"ne2000", "3c589", "xi825", "wl54cf"}
Receivers == {"us", "all", "group", "other"}
ASSUME NetAssumption ==
  /\ Traffic \in [NicKinds -> SUBSET [to : Receivers, cells : Nat]]
  /\ MaxFrames \in [NicKinds -> Nat] /\ MaxConfig \in [NicKinds -> Nat]
NoDriver == [pc |-> "closed", cells |-> <<>>, next |-> 0, curr |-> 0, bits |-> {}, fid |-> 0, frame |-> 0]
Rest == [NoDriver EXCEPT !.pc = "idle"]
NoStation == [heard |-> {}, secret |-> TRUE, keys |-> [pairwise |-> {}, group |-> {}]]

NetInit ==
  /\ card \in NicKinds
  /\ \/ card = "ne2000" /\ nic = NeCard
     \/ card = "3c589" /\ nic = ElCard
     \/ card = "xi825" /\ nic \in {XiCard("open"), XiCard("wep")}
     \/ card = "wl54cf" /\ nic \in {WlCard(m) : m \in {"open", "wpa", "wpa2"}}
  /\ station \in {NoStation} \cup (IF card = "wl54cf" THEN {[NoStation EXCEPT !.secret = FALSE]} ELSE {})
  /\ wire = <<>> /\ drv = NoDriver /\ made = [frames |-> 0, config |-> 0]
  /\ owed = <<>> /\ wrong = FALSE /\ told = FALSE

NetFrame(id, to, cells) == [id |-> id, to |-> to, cells |-> cells]
Arrive ==
  /\ made.frames < MaxFrames[card]
  /\ \E f \in Traffic[card] : wire' = Append(wire, NetFrame(made.frames + 1, f.to, f.cells))
  /\ made' = [made EXCEPT !.frames = @ + 1]
  /\ UNCHANGED <<card, nic, drv, owed, wrong, told, station>>

-----------------------------------------------------------------------------
(* The machine's poll of the card.                                           *)

Take(n, f) == CASE card = "ne2000" -> NeTake(n, f) [] card = "3c589" -> ElTake(n, f)
                [] card = "xi825" -> XiTake(n, f)  [] card = "wl54cf" -> WlTake(n, f)
Wants(n, f) == CASE card = "ne2000" -> NeAccepts(n, f) [] card = "3c589" -> n.rxOn /\ ElAccepts(n, f)
                 [] card = "xi825" -> XiAccepts(n, f)  [] card = "wl54cf" -> WlAccepts(n, f)
\* The card's poll leaves frames in the back end while the card can hold no more.
Polls(n) == CASE card = "ne2000" -> TRUE [] card = "3c589" -> ~ElFull(n)
              [] card = "xi825" -> ~XiFull(n) [] card = "wl54cf" -> n.associated /\ ~WlFull(n)
Batch == CASE card = "ne2000" -> NeBatch [] card = "3c589" -> ElBatch
           [] card = "xi825" -> XiBatch [] card = "wl54cf" -> WlQueue
\* A loss the driver or the one who configured the card can know of.
Reported(n) == CASE card = "ne2000" -> "OVW" \in n.isr [] card = "xi825" -> XiRoom(n) = {} [] OTHER -> FALSE

\* The frames waiting in the card for the driver, as the driver would find them.
NeWalk(n, p, k) ==
  LET walk[q \in DOMAIN n.mem, left \in 0..k] ==
        IF q = n.curr \/ left = 0 THEN <<>>
        ELSE LET h == n.mem[q]
                 whole == \A i \in 0..h.cells - 1 : LET c == n.mem[NeNextPage(n, q, i)]
                                                    IN  c.id = h.id /\ c.part = i + 1
             IN  <<IF h.part = 1 /\ whole THEN h.id ELSE 0>> \o walk[h.next, left - 1]
  IN  walk[p, k]
FramesOf(s) == LET isFrame(f) == f.message = SecNothing IN SelectSeq(s, isFrame)
Waiting(n) ==
  CASE card = "ne2000" -> IF drv.pc = "closed" THEN owed ELSE NeWalk(n, drv.next, NePages)
    [] card = "3c589" -> [i \in 1..n.count |-> n.rx[(n.head + i - 1) % ElFrames].id]
    [] card = "xi825" -> [i \in 1..Len(n.rx) |-> XiHolds(n, n.rx[i])[1].id]
    [] card = "wl54cf" -> [i \in 1..Len(FramesOf(n.rx)) |-> FramesOf(n.rx)[i].id]

\* One frame from the back end: whether the card has it, and whether it was lost unreported.
PollStep(s) ==
  LET f == Head(s.wire)
      n == Take(s.nic, f)
      kept == Len(Waiting(n)) > Len(Waiting(s.nic))
  IN  [nic |-> n, wire |-> Tail(s.wire), owed |-> IF kept THEN Append(s.owed, f.id) ELSE s.owed,
       wrong |-> s.wrong \/ (Wants(s.nic, f) /\ ~kept /\ ~Reported(n))]
PollRound(s) == IF s.wire = <<>> \/ ~Polls(s.nic) THEN s ELSE PollStep(s)
Poll(s, left) == LET rounds[k \in 0..left] == IF k = 0 THEN s ELSE PollRound(rounds[k - 1])
                 IN  rounds[left]

Tick ==
  LET ready == IF card = "xi825" THEN XiTick(nic) ELSE nic
      s == Poll([nic |-> ready, wire |-> wire, owed |-> owed, wrong |-> wrong], Batch)
  IN  /\ nic' = s.nic /\ wire' = s.wire /\ owed' = s.owed /\ wrong' = s.wrong
      /\ UNCHANGED <<card, drv, made, told, station>>

-----------------------------------------------------------------------------
(* What the drivers have in common.                                          *)

At(pc) == drv.pc = pc
Quiet == UNCHANGED <<card, wire, made, told, station>>
SendId == MaxFrames[card] + 1
\* The card has sent what it was to send; n.out is what left in this step.
Leaves(n, due) == nic' = [n EXCEPT !.out = <<>>] /\ wrong' = (wrong \/ n.out # due)
NetCell(id, part) == [id |-> id, part |-> part]

\* The driver has the cells of a whole frame: they must be the frame it was owed.
GotFrame(cells) ==
  LET right == owed # <<>> /\ \A k \in DOMAIN cells : cells[k].id = Head(owed) /\ cells[k].part = k
  IN  wrong' = (wrong \/ ~right) /\ owed' = IF owed = <<>> THEN owed ELSE Tail(owed)
Reconfigures == At("idle") /\ made.config < MaxConfig[card] /\ made' = [made EXCEPT !.config = @ + 1]

-----------------------------------------------------------------------------
(* ne2000: the ring is read by remote DMA, in pieces that end at its end.    *)

NeRun(n, rd, txp) == NeCommand(n, [sta |-> TRUE, stp |-> FALSE, rd |-> rd, txp |-> txp])

NeOpen ==
  /\ card = "ne2000" /\ At("closed")
  /\ \E rcr \in {{"AB"}, {"AB", "AM"}} :
       nic' = NeRun(NeSetup(NeSetRing(nic, NeStart, NeStop, NeStart, NeStart + 1), rcr, {"PRX", "OVW", "PTX"}),
                    "abort", FALSE)
  /\ drv' = [NoDriver EXCEPT !.pc = "idle", !.next = NeStart + 1]
  /\ owed' = <<>> /\ Quiet /\ UNCHANGED wrong

NeClose ==
  /\ card = "ne2000" /\ Reconfigures
  /\ nic' = NeCommand(NeResetPort(nic), [sta |-> FALSE, stp |-> TRUE, rd |-> "abort", txp |-> FALSE])
  /\ drv' = NoDriver
  /\ UNCHANGED <<card, wire, owed, wrong, told, station>>

NeService ==
  /\ card = "ne2000" /\ At("idle") /\ NeIrq(nic)
  /\ drv' = [drv EXCEPT !.bits = nic.isr, !.pc = "ack"]
  /\ UNCHANGED <<nic, owed, wrong>> /\ Quiet
NeAcknowledge ==
  /\ card = "ne2000" /\ At("ack")
  /\ nic' = NeAck(nic, drv.bits)
  /\ drv' = [drv EXCEPT !.pc = IF drv.bits \cap {"PRX", "OVW"} # {} THEN "look" ELSE "idle"]
  /\ UNCHANGED <<owed, wrong>> /\ Quiet
NeLook ==
  /\ card = "ne2000" /\ At("look")
  /\ drv' = [drv EXCEPT !.curr = nic.curr, !.pc = IF nic.curr = drv.next THEN "idle" ELSE "header"]
  /\ UNCHANGED <<nic, owed, wrong>> /\ Quiet
\* One page by remote DMA; the driver begins a new piece where the ring wraps.
NeFetched(k) ==
  LET page == NeNextPage(nic, drv.next, k)
      set == NeRun(NeSetRemote(nic, page, 1), "read", FALSE)
  IN  [cell |-> NeDataRead(set), nic |-> NeMoved(set)]
NeFetch ==
  /\ card = "ne2000" /\ (At("header") \/ At("body"))
  /\ LET got == NeFetched(Len(drv.cells))
         cells == Append(drv.cells, got.cell)
     IN  /\ nic' = got.nic
         /\ drv' = [drv EXCEPT !.cells = cells, !.pc = IF Len(cells) < cells[1].cells THEN "body" ELSE "done"]
  /\ UNCHANGED <<owed, wrong>> /\ Quiet
NeRelease ==
  /\ card = "ne2000" /\ At("done")
  /\ LET next == drv.cells[1].next
     IN  /\ nic' = NeSetBoundary(nic, IF next = NeStart THEN NeStop - 1 ELSE next - 1)
         /\ drv' = [drv EXCEPT !.next = next, !.cells = <<>>, !.pc = "look"]
  /\ GotFrame(drv.cells) /\ Quiet

NeUpload(n, id, cells) ==
  LET set == NeRun(NeSetRemote(n, NeTx, cells), "write", FALSE)
      c(k) == [NeEmpty EXCEPT !.id = id, !.part = k]
  IN  IF cells = 1 THEN NeDataWrite(set, c(1)) ELSE NeDataWrite(NeDataWrite(set, c(1)), c(2))
NeSend ==
  /\ card = "ne2000" /\ At("idle")
  /\ \E cells \in 1..2 :
       Leaves(NeRun(NeSetTransmit(NeUpload(nic, SendId, cells), NeTx, cells), "abort", TRUE), <<SendId>>)
  /\ UNCHANGED <<drv, owed>> /\ Quiet
NeNext == NeOpen \/ NeClose \/ NeService \/ NeAcknowledge \/ NeLook \/ NeFetch \/ NeRelease \/ NeSend

-----------------------------------------------------------------------------
(* 3c589: a frame is read cell by cell and then discarded.                   *)

ElOpen ==
  /\ card = "3c589" /\ At("closed")
  /\ \E filter \in {{"STATION", "BROADCAST"}, {"STATION", "MULTICAST"}} :
       LET c1 == ElCommand(ElCommand(nic, "TotalReset", {}), "SetRxFilter", filter)
           c2 == ElCommand(ElCommand(c1, "RxEnable", {}), "TxEnable", {})
           every == {"RX_COMPLETE", "TX_COMPLETE", "ADAPTER_FAILURE", "INT_REQ"}
       IN  nic' = ElCommand(ElCommand(c2, "SetReadZeroMask", every), "SetIntrEnb", every)
  /\ drv' = Rest /\ owed' = <<>>
  /\ Quiet /\ UNCHANGED wrong
\* The driver stops the receiver, resets it, or stops and restarts the transmitter.
ElConfigure ==
  /\ card = "3c589" /\ Reconfigures
  /\ \/ nic' = ElCommand(nic, "RxDisable", {}) /\ drv' = NoDriver /\ UNCHANGED owed
     \/ nic' = ElCommand(ElCommand(nic, "RxReset", {}), "RxEnable", {}) /\ owed' = <<>> /\ UNCHANGED drv
     \/ nic' = ElCommand(ElCommand(nic, "TxReset", {}), "TxEnable", {}) /\ UNCHANGED <<drv, owed>>
     \/ nic' = ElCommand(nic, IF nic.txOn THEN "TxDisable" ELSE "TxEnable", {}) /\ UNCHANGED <<drv, owed>>
     \/ nic' = ElCommand(nic, "Request", {}) /\ UNCHANGED <<drv, owed>>
  /\ UNCHANGED <<card, wire, wrong, told, station>>
ElService ==
  /\ card = "3c589" /\ At("idle") /\ ElIrq(nic)
  /\ LET shown == ElShown(nic) IN
     IF "RX_COMPLETE" \in shown THEN drv' = [drv EXCEPT !.pc = "body", !.frame = ElHead(nic).cells] /\ nic' = nic
     ELSE drv' = drv /\ nic' = IF "TX_COMPLETE" \in shown THEN ElPopStatus(nic)
                              ELSE ElCommand(nic, "AckIntr", shown \ {"RX_COMPLETE"})
  /\ UNCHANGED <<owed, wrong>> /\ Quiet
ElFetch ==
  /\ card = "3c589" /\ At("body") /\ Len(drv.cells) < drv.frame
  /\ LET got == ElReadFifo(nic)
     IN  nic' = got.nic /\ drv' = [drv EXCEPT !.cells = Append(@, got.cell)]
  /\ UNCHANGED <<owed, wrong>> /\ Quiet
ElDiscard ==
  /\ card = "3c589" /\ At("body") /\ Len(drv.cells) = drv.frame
  /\ nic' = ElCommand(nic, "RxDiscard", {}) /\ drv' = Rest
  /\ GotFrame(drv.cells) /\ Quiet
\* The driver writes the length and the cells, having seen room for them.
ElBeginSend ==
  /\ card = "3c589" /\ At("idle") /\ ElFree(nic) >= 3
  /\ \E cells \in 1..2, tell \in BOOLEAN :
       /\ nic' = ElWriteFifo(nic, [id |-> SendId, cells |-> cells, tell |-> tell])
       /\ drv' = [drv EXCEPT !.pc = "send", !.frame = cells, !.next = 0]
  /\ UNCHANGED <<card, wire, made, owed, wrong, told, station>>
ElSend ==
  /\ card = "3c589" /\ At("send")
  /\ LET last == drv.next + 1 = drv.frame
     IN  /\ Leaves(ElWriteFifo(nic, NetCell(SendId, drv.next + 1)), IF last /\ nic.txOn THEN <<SendId>> ELSE <<>>)
         /\ drv' = IF last THEN Rest ELSE [drv EXCEPT !.pc = "send", !.next = @ + 1]
  /\ UNCHANGED owed /\ Quiet
ElNext == ElOpen \/ ElConfigure \/ ElService \/ ElFetch \/ ElDiscard \/ ElBeginSend \/ ElSend

-----------------------------------------------------------------------------
(* xi825: frames, messages and transmit buffers all through the access path. *)

XiEvents == {"RX", "INFO", "ALLOC", "INFDROP"}
XiStart ==
  /\ card = "xi825" /\ At("closed")
  /\ nic' = XiEnable([XiInit(nic) EXCEPT !.inten = XiEvents])
  /\ drv' = Rest /\ owed' = <<>> /\ told' = FALSE
  /\ UNCHANGED <<card, wire, made, wrong, station>>
\* The driver starts over, disables the port, asks for something or writes a record.
XiConfigure ==
  /\ card = "xi825" /\ Reconfigures
  /\ \/ drv' = NoDriver /\ nic' = nic
     \/ /\ drv' = drv
        /\ \/ nic' = XiDisable(nic) \/ nic' = XiEnable(nic)
           \/ nic' = XiInquire(nic, "link") \/ nic' = XiInquire(nic, "scan")
           \/ \E r \in {<<"ssid", "other">>, <<"wep", "on">>, <<"key", "right">>, <<"ssid", "torn">>} :
                nic' = XiAccess(XiStage(nic, r[1], r[2]), r[1], TRUE)
           \/ nic' = XiAccess(nic, "ssid", FALSE)
           \/ nic' = XiAlloc(nic, 2)
  /\ UNCHANGED <<card, wire, owed, wrong, told, station>>
XiService ==
  /\ card = "xi825" /\ At("idle") /\ XiIrq(nic)
  /\ \/ /\ "RX" \in nic.ev
        /\ nic' = XiSeek(nic, nic.rxFid, 0)
        /\ drv' = [drv EXCEPT !.pc = "body", !.fid = nic.rxFid, !.frame = Len(XiHolds(nic, nic.rxFid))]
     \/ /\ "INFO" \in nic.ev
        /\ nic' = XiSeek(nic, nic.infoFid, 0) /\ drv' = [drv EXCEPT !.pc = "info"]
     \/ /\ "ALLOC" \in nic.ev
        /\ nic' = XiAck(nic, {"ALLOC"}) /\ drv' = [drv EXCEPT !.pc = "buffer", !.fid = nic.allocFid]
     \/ /\ "INFDROP" \in nic.ev
        /\ nic' = XiInquire(XiAck(nic, {"INFDROP"}), "link") /\ drv' = drv
  /\ Quiet /\ UNCHANGED <<owed, wrong>>
XiFetch ==
  /\ card = "xi825" /\ At("body") /\ Len(drv.cells) < drv.frame
  /\ LET got == XiBapRead(nic) IN nic' = got.nic /\ drv' = [drv EXCEPT !.cells = Append(@, got.cell)]
  /\ UNCHANGED <<owed, wrong>> /\ Quiet
XiReceived ==
  /\ card = "xi825" /\ At("body") /\ Len(drv.cells) = drv.frame
  /\ nic' = XiAck(nic, {"RX"}) /\ drv' = Rest
  /\ GotFrame(drv.cells) /\ Quiet
XiInformed ==
  /\ card = "xi825" /\ At("info")
  /\ LET cells == XiHolds(nic, nic.select)
     IN  told' = IF cells[1] = "link" THEN cells[2] ELSE told
  /\ nic' = XiAck(nic, {"INFO"}) /\ drv' = Rest
  /\ UNCHANGED <<card, wire, made, owed, wrong, station>>
\* The buffer is filled and sent, returned to the driver by the event or released.
XiSend ==
  /\ card = "xi825" /\ At("buffer")
  /\ LET filled == XiBapWrite(XiBapWrite(XiSeek(nic, drv.fid, 0), NetCell(SendId, 1)), NetCell(SendId, 2))
     IN  \E reclaim \in BOOLEAN :
           Leaves(XiTransmit(filled, drv.fid, reclaim), IF nic.associated THEN <<SendId>> ELSE <<>>)
  /\ drv' = Rest /\ UNCHANGED owed /\ Quiet
XiNext == XiStart \/ XiConfigure \/ XiService \/ XiFetch \/ XiReceived \/ XiInformed \/ XiSend

-----------------------------------------------------------------------------
(* wl54cf: the firmware, the station commands, and the supplicant.           *)

WlRing(n, bits, c, p) == WlDoorbell(WlHostStatus(n, bits), bits, c, p)
WlAsk(n, op, arg) == WlRing(n, {"COMMAND"}, [op |-> op, whole |-> TRUE, arg |-> arg], 0)
WlDownload ==
  /\ card = "wl54cf" /\ At("closed") /\ nic.stage \in {"rom", "helper"}
  /\ \E op \in IF nic.payload THEN {"payload"} ELSE {"data", "end"} : nic' = WlAsk(nic, op, 0)
  /\ UNCHANGED <<drv, owed, wrong>> /\ Quiet
WlEvery == {"rx", "tx", "broadcast", "multicast"}
WlOpen ==
  /\ card = "wl54cf" /\ At("closed") /\ nic.stage = "station"
  /\ LET up == WlAck(WlAsk(WlSetMask(nic, {"COMMAND", "EVENT"}), "mac", WlEvery), {"RESPONSE"})
     IN  nic' = WlAck(WlAsk(up, "authenticate", 0), {"RESPONSE"})
  /\ drv' = Rest /\ UNCHANGED <<owed, wrong>> /\ Quiet
WlConfigure ==
  /\ card = "wl54cf" /\ Reconfigures
  /\ \/ /\ \E c \in {<<"associate", nic.sec.mode>>, <<"deauthenticate", 0>>, <<"authenticate", 0>>, <<"radio", FALSE>>,
                     <<"radio", TRUE>>, <<"mac", {"rx", "promiscuous"}>>, <<"nogroup", 0>>} : nic' = WlAsk(nic, c[1], c[2])
        /\ UNCHANGED <<drv, owed>>
     \/ nic' = WlReset(nic) /\ drv' = NoDriver /\ owed' = <<>>
  /\ UNCHANGED <<card, wire, wrong, told, station>>
WlService ==
  /\ card = "wl54cf" /\ At("idle") /\ WlIrq(nic)
  /\ nic' = WlPoll(nic) /\ drv' = [drv EXCEPT !.pc = "ack", !.bits = nic'.cause]
  /\ UNCHANGED <<owed, wrong>> /\ Quiet
WlAcknowledge ==
  /\ card = "wl54cf" /\ At("ack")
  /\ nic' = WlAck(nic, drv.bits)
  /\ drv' = IF "RX" \in drv.bits THEN [Rest EXCEPT !.pc = "take"] ELSE Rest
  /\ UNCHANGED <<owed, wrong>> /\ Quiet
\* The frame is read from the data port and popped; a handshake message is the supplicant's.
WlReceived ==
  /\ card = "wl54cf" /\ At("take")
  /\ drv' = Rest
  /\ LET n == WlPoll(nic) IN
     IF n.rx = <<>> THEN nic' = n /\ UNCHANGED <<owed, wrong, station>>
     ELSE LET f == Head(n.rx) IN
          /\ nic' = WlRing(n, {"RX"}, WlNoCommand, 0)
          /\ IF f.message = SecNothing
             THEN GotFrame([k \in 1..f.cells |-> NetCell(f.id, k)]) /\ UNCHANGED station
             ELSE station' = [station EXCEPT !.heard = @ \cup {f.message}] /\ UNCHANGED <<owed, wrong>>
  /\ UNCHANGED <<card, wire, made, told>>
\* The supplicant answers a message it heard, the latest or, late, an earlier one.
WlReply ==
  /\ card = "wl54cf" /\ At("idle")
  /\ \E m \in station.heard :
       nic' = WlRing(nic, {"TX"}, WlNoCommand,
                     [eapol |-> TRUE, replay |-> m.replay, pairwise |-> m.kind # "group", empty |-> m.kind # "first",
                      key |-> IF station.secret THEN m.nonce ELSE 0])
  /\ UNCHANGED <<drv, owed, wrong>> /\ Quiet
WlInstall ==
  /\ card = "wl54cf" /\ At("idle") /\ "RESPONSE" \notin nic.cause
  /\ \E m \in station.heard, which \in {"pairwise", "group"} :
       /\ which = "group" => m.kind # "first"
       /\ nic' = WlAsk(nic, which, m.nonce)
       /\ station' = [station EXCEPT !.keys[which] = @ \cup {m.nonce}]
  /\ UNCHANGED <<card, wire, drv, made, owed, wrong, told>>
WlSendData ==
  /\ card = "wl54cf" /\ At("idle")
  /\ Leaves(WlRing(nic, {"TX"}, WlNoCommand, [eapol |-> FALSE, id |-> SendId]),
            IF nic.associated /\ "tx" \in nic.mac /\ SecDataPasses(nic.sec) THEN <<SendId>> ELSE <<>>)
  /\ UNCHANGED <<drv, owed>> /\ Quiet
WlNext == \/ WlDownload \/ WlOpen \/ WlConfigure \/ WlService \/ WlAcknowledge \/ WlReceived
          \/ WlReply \/ WlInstall \/ WlSendData

NetNext == Arrive \/ Tick \/ NeNext \/ ElNext \/ XiNext \/ WlNext
NetSpec == NetInit /\ [][NetNext]_netVars

-----------------------------------------------------------------------------
(* Every frame the card took waits in it until the driver has read it, in    *)
(* the order taken and unmixed with others; the driver is given each one     *)
(* whole; a frame the card was set to receive and could not keep is          *)
(* reported; and what leaves is the frame the driver handed over: the ring   *)
(* of pages and its boundary (cf_ne2000.c:153), the FIFOs (el3.c:90), the    *)
(* buffers and their names (xi825.c:84) and the queue (wl54cf.c:348).        *)
FramesInOrder == ~wrong /\ Waiting(nic) = owed

\* What the last message about the link, read or not, said of it.
LinkTold ==
  LET links == {i \in DOMAIN nic.info : XiHolds(nic, nic.info[i])[1] = "link"}
  IN  IF links = {} THEN told
      ELSE XiHolds(nic, nic.info[CHOOSE i \in links : \A j \in links : j <= i])[2]

(* Nothing waits in a card unannounced: a frame raises the card's event, or  *)
(* the driver is on its way to look for it; a message and a handshake frame  *)
(* likewise; and the driver is told of each change of the link or the card   *)
(* still means to tell it, however full the queues were (xi825.c:182, 603,   *)
(* wl54cf.c:393, 481; el3.c:41).                                             *)
Announced ==
  /\ card = "ne2000" /\ At("idle") /\ owed # <<>> => nic.isr \cap {"PRX", "OVW"} # {} /\ NeIrq(nic)
  /\ card = "3c589" /\ At("idle") /\ owed # <<>> => "RX_COMPLETE" \in ElShown(nic) /\ ElIrq(nic)
  /\ card = "xi825" =>
       /\ nic.rx # <<>> => "RX" \in nic.ev /\ nic.rxFid = Head(nic.rx)
       /\ nic.info # <<>> => "INFO" \in nic.ev /\ nic.infoFid = Head(nic.info)
       /\ nic.linkPending \/ LinkTold = nic.associated
  /\ card = "wl54cf" /\ At("idle") =>
       /\ nic.rx # <<>> => "RX" \in nic.cause
       /\ nic.sec.pending # SecNothing /\ nic.associated /\ "rx" \in nic.mac => WlIrq(nic)

(* Data passes the access point of the WL54CF only after the handshake of    *)
(* this association: the supplicant has had its third message, and with WPA  *)
(* the group message, and the keys in place are this association's.  Late    *)
(* answers to earlier messages and earlier associations change nothing       *)
(* (wifi_security.c:160, 197).                                               *)
SecureBeforeData ==
  card = "wl54cf" /\ SecRobust(nic.sec) =>
    LET s == nic.sec
        heard(kind) == \E m \in station.heard : m.kind = kind /\ m.nonce = s.anonce
    IN  /\ s.authorized => station.secret /\ heard("third") /\ (s.mode = "wpa" => heard("group"))
        /\ s.pairwise => s.anonce \in station.keys.pairwise
        /\ s.group => s.anonce \in station.keys.group
=================================================================================
