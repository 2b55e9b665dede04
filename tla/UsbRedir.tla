--------------------------------- MODULE UsbRedir ------------------------------
(***************************************************************************)
(* src/usbredir_dev.c: the USB function controller (module Usbf) offered   *)
(* to a usbredir peer over a host stream (module HostChardev).             *)
(*                                                                         *)
(* The emulator is single-threaded.  usbredir_dev_tick runs between slices *)
(* of guest execution, one handler after the other: pc is where it is.     *)
(* The peer is concurrent, but what it sends during a tick is read by the  *)
(* next one, and its leaving shows in a tick only as a failing write; its  *)
(* actions are therefore taken at pc = "idle", and any write may fail.     *)
(*                                                                         *)
(* A handler that writes has several outcomes, so it is an operator from   *)
(* the state d of the file to the set of states it may leave.  Bytes on    *)
(* the stream are whole packets; a packet counts as delivered with its     *)
(* last byte.  Packets without an effect on the state of the device (get   *)
(* configuration, alt settings, standard requests, interrupt OUT) are one  *)
(* kind, "query".                                                          *)
(***************************************************************************)
EXTENDS Usbf, HostChardev

CONSTANTS
    QueueLen,   \* UR_QUEUE_LEN
    Scenarios   \* a behaviour keeps to one

Handlers == {"hello", "rx", "update", "ctrl", "out", "in", "intr", "flush"}
AllReqs  == {"reset", "config", "query", "class", "bulk_out", "bulk_in",
             "cancel", "start_intr", "stop_intr", "oversized"}
AllOps   == {"unit", "desc", "reset", "pulse", "out", "in", "ep0", "ep3"}

\* reqs: the kinds of request the peer makes; lens: lengths of bulk transfers;
\* ops: the groups of register accesses the guest makes; unplugs: the cable
\* may be pulled; fails: the handlers whose writes may fail; backlog: most
\* packets a full socket leaves in the transmit buffer; maxreq: requests of
\* one peer; maxpeers: peers that come one after the other.
ScenarioType ==
    [kind : AllKinds \ {"pty"}, reqs : SUBSET AllReqs, lens : SUBSET (0..3),
     ops : SUBSET AllOps, unplugs : BOOLEAN, fails : SUBSET Handlers,
     backlog : 0..2, maxreq : 0..4, maxpeers : 1..3]

ASSUME RedirAssumption ==
    /\ QueueLen \in Nat \ {0}
    /\ \A c \in Scenarios : c \in ScenarioType

VARIABLES
    d,      \* the file's state, its chardev and its controller; see RedirInit
    pc,     \* the handler the tick runs next, or "idle"
    toDev,  \* packets the peer has sent and the device has not read
    eof,    \* the peer has closed its end
    nreq,   \* requests the peer has made
    peers,  \* peers that have connected
    served, \* the request whose SETUP packet the guest read last
    sc      \* the scenario

vars == <<d, pc, toDev, eof, nreq, peers, served, sc>>

\* What the peer knows: whether it has sent its hello, whether it has got
\* one, whether the device is offered, the requests it waits for, those that
\* may or may not be answered, its control request, whether it polls the
\* interrupt endpoint; bad once a packet made no sense to it.
NewView == [greeted |-> FALSE, hello |-> FALSE, offered |-> FALSE,
            owed |-> {}, stale |-> {}, ctl |-> 0, intr |-> FALSE, bad |-> FALSE]

\* g after usbredir_dev_configure and usbredir_dev_bind.  wrapped is true
\* once queue_pop has decremented a count of zero; setup_id is the request
\* in the SETUP FIFO; view is the peer's.
RedirInit(kind) ==
    [u |-> UsbfInit, ch |-> [ChInit EXCEPT !.kind = kind,
                                           !.listening = kind \in ListenKinds],
     present |-> FALSE, rx |-> <<>>, tx |-> <<>>,
     hello |-> FALSE, connected |-> FALSE,
     ctrl_active |-> FALSE, ctrl_done |-> FALSE, ctrl_status |-> "ok", ctrl_id |-> 0,
     bulk_in |-> <<>>, bulk_out |-> <<>>, wrapped |-> FALSE,
     intr_receiving |-> FALSE, intr_due |-> TRUE, setup_id |-> 0, view |-> NewView]

--------------------------------------------------------------------------------
(* The peer's reading of the packets it gets.                              *)

Reply(id, status) == [t |-> "reply", id |-> id, status |-> status]
Note(t)           == [t |-> t, id |-> 0, status |-> "ok"]

Reads(v, m) ==
    LET ok == CASE m.t = "hello"      -> ~v.hello
                [] m.t = "connect"    -> v.hello /\ ~v.offered
                [] m.t = "disconnect" -> v.offered
                [] m.t = "reply"      -> v.hello /\ m.id \in v.owed \cup v.stale
                [] m.t = "intr"       -> v.intr
                [] m.t = "info"       -> v.hello
    IN  [v EXCEPT
          !.hello   = @ \/ m.t = "hello",
          !.offered = (@ \/ m.t = "connect") /\ m.t # "disconnect",
          !.stale   = (IF m.t = "disconnect" THEN @ \cup v.owed ELSE @) \ {m.id},
          !.owed    = IF m.t = "disconnect" THEN {} ELSE @ \ {m.id},
          !.ctl     = IF m.t = "disconnect" \/ m.id = @ THEN 0 ELSE @,
          !.intr    = (@ \/ m.status = "receiving")
                        /\ m.status # "stopped" /\ m.t # "disconnect",
          !.bad     = @ \/ ~ok]

ReadsAll(v, ms) ==
    LET f[i \in 0..Len(ms)] == IF i = 0 THEN v ELSE Reads(f[i - 1], ms[i])
    IN  f[Len(ms)]

--------------------------------------------------------------------------------
(* Calls into the controller: on_ctrl_done runs inside them.               *)

Access(e, v) ==
    LET w == [e EXCEPT !.u = [v EXCEPT !.done = <<>>]] IN
    IF v.done = <<>> \/ ~e.ctrl_active THEN w
    ELSE [w EXCEPT !.ctrl_done = TRUE, !.ctrl_status = v.done[Len(v.done)]]

BusReset(e) ==
    LET w == Access(e, HostBusReset(e.u)) IN Access(w, SetAddress(w.u, 1))

\* Variant: a reset that leaves the polling on
DropTransfers_KeepsPolling(e) ==
    [e EXCEPT !.bulk_in = <<>>, !.bulk_out = <<>>, !.ctrl_active = FALSE,
              !.ctrl_done = FALSE]

DropTransfers(e) ==
    [e EXCEPT !.bulk_in = <<>>, !.bulk_out = <<>>, !.ctrl_active = FALSE,
              !.ctrl_done = FALSE, !.intr_receiving = FALSE]

--------------------------------------------------------------------------------
(* Transmit.                                                               *)

\* Variant: the controller keeps its connection
QuietDisconnect_StaysAttached(e) ==
    IF ~e.connected THEN e ELSE DropTransfers([e EXCEPT !.connected = FALSE])

\* device_disconnect, with nobody to tell
QuietDisconnect(e) ==
    IF ~e.connected THEN e
    ELSE LET w == DropTransfers([e EXCEPT !.connected = FALSE]) IN
         Access(w, HostAttach(w.u, FALSE))

PeerLost(e) ==
    LET w == QuietDisconnect(e) IN
    [w EXCEPT !.ch = ChDropPeer(@), !.hello = FALSE, !.rx = <<>>, !.tx = <<>>]

\* flush_tx: all is written, or a part and the rest waits, or the write fails
FlushTx(e, h) ==
    LET sent(n) == [e EXCEPT !.tx = SubSeq(@, n + 1, Len(@)),
                             !.view = ReadsAll(@, SubSeq(e.tx, 1, n))]
    IN  {sent(n) : n \in {k \in 0..Len(e.tx) : Len(e.tx) - k <= sc.backlog}}
          \cup (IF h \in sc.fails /\ e.tx # <<>> THEN {PeerLost(e)} ELSE {})

\* send_packet, from handler h
Send(e, m, h) ==
    IF IsReady(e.ch) THEN FlushTx([e EXCEPT !.tx = Append(@, m)], h) ELSE {e}

SendBoth(e, m1, m2, h) == UNION {Send(w, m2, h) : w \in Send(e, m1, h)}

\* device_disconnect
Disconnect(e, tell, h) ==
    IF ~e.connected THEN {e}
    ELSE LET w   == DropTransfers([e EXCEPT !.connected = FALSE])
             all == IF tell THEN Send(w, Note("disconnect"), h) ELSE {w}
         IN  {Access(x, HostAttach(x.u, FALSE)) : x \in all}

--------------------------------------------------------------------------------
(* Receive.                                                                *)

\* usbf_host_control with a class request
HandleControl(e, id) ==
    IF ~e.connected THEN Send(e, Reply(id, "ioerror"), "rx")
    ELSE IF ~ControlAccepted(e.u) THEN Send(e, Reply(id, "stall"), "rx")
    ELSE {[Access(e, ClassRequest(e.u)) EXCEPT
             !.ctrl_active = TRUE, !.ctrl_done = FALSE, !.ctrl_id = id, !.setup_id = id]}

Xfer(p) == [id |-> p.id, len |-> p.len, off |-> 0]

HandleBulk(e, p) ==
    CASE ~e.connected -> Send(e, Reply(p.id, "ioerror"), "rx")
      [] e.connected /\ Len(e[p.t]) >= QueueLen -> Send(e, Reply(p.id, "ioerror"), "rx")
      [] OTHER -> {[e EXCEPT ![p.t] = Append(@, Xfer(p))]}

Ids(q)       == {q[i].id : i \in DOMAIN q}
Without(q, id) ==
    LET k == CHOOSE i \in DOMAIN q : /\ q[i].id = id
                                     /\ \A j \in 1..(i - 1) : q[j].id # id
    IN  SubSeq(q, 1, k - 1) \o SubSeq(q, k + 1, Len(q))

\* Variant: a cancelled control request that is not answered
HandleCancel_SilentControl(e, id) ==
    IF e.ctrl_active /\ e.ctrl_id = id
    THEN {[e EXCEPT !.ctrl_active = FALSE, !.ctrl_done = FALSE]} ELSE {e}

HandleCancel(e, id) ==
    LET done(w) == Send(w, Reply(id, "cancelled"), "rx") IN
    CASE e.ctrl_active /\ e.ctrl_id = id ->
            done([e EXCEPT !.ctrl_active = FALSE, !.ctrl_done = FALSE])
      [] ~(e.ctrl_active /\ e.ctrl_id = id) /\ id \in Ids(e.bulk_in) ->
            done([e EXCEPT !.bulk_in = Without(@, id)])
      [] /\ ~(e.ctrl_active /\ e.ctrl_id = id)
         /\ id \in Ids(e.bulk_out) \ Ids(e.bulk_in) ->
            done([e EXCEPT !.bulk_out = Without(@, id)])
      [] OTHER -> {e}

HandleConfig(e, id) ==
    CASE ~e.connected -> Send(e, Reply(id, "ioerror"), "rx")
      [] e.connected /\ ~ControlAccepted(e.u) -> Send(e, Reply(id, "stall"), "rx")
      [] OTHER -> SendBoth(Access(e, SetConfiguration(e.u, 1)),
                           Reply(id, "ok"), Note("info"), "rx")

HandlePacket(e, p) ==
    CASE p.t = "hello"  -> {[e EXCEPT !.hello = TRUE]}
      [] p.t = "reset"  -> {IF e.connected THEN BusReset(DropTransfers(e)) ELSE e}
      [] p.t = "config" -> HandleConfig(e, p.id)
      [] p.t = "query"  -> Send(e, Reply(p.id, "ok"), "rx")
      [] p.t = "class"  -> HandleControl(e, p.id)
      [] p.t \in {"bulk_out", "bulk_in"} -> HandleBulk(e, p)
      [] p.t = "cancel" -> HandleCancel(e, p.id)
      [] p.t = "start_intr" ->
            Send([e EXCEPT !.intr_receiving = @ \/ e.connected],
                 Reply(p.id, IF e.connected THEN "receiving" ELSE "inval"), "rx")
      [] p.t = "stop_intr" ->
            Send([e EXCEPT !.intr_receiving = FALSE], Reply(p.id, "stopped"), "rx")
      [] p.t = "oversized" -> {PeerLost(e)}

--------------------------------------------------------------------------------
(* The handlers of the tick.                                               *)

Want(e) == e.present /\ e.hello /\ IsReady(e.ch) /\ DescriptorsReady(e.u)

\* update_connection
UpdateConnection(e) ==
    CASE Want(e) /\ ~e.connected ->
            {[w EXCEPT !.connected = TRUE] :
               w \in SendBoth(BusReset(Access(e, HostAttach(e.u, TRUE))),
                              Note("info"), Note("connect"), "update")}
      [] ~Want(e) /\ e.connected -> Disconnect(e, IsReady(e.ch), "update")
      [] OTHER -> {e}

\* send_ctrl_reply
SendCtrlReply(e) ==
    IF ~(e.ctrl_active /\ e.ctrl_done) THEN {e}
    ELSE Send([e EXCEPT !.ctrl_active = FALSE, !.ctrl_done = FALSE],
              Reply(e.ctrl_id, e.ctrl_status), "ctrl")

\* queue_pop: a queue the reply has emptied by losing the peer goes below zero
QueuePop(e, q) ==
    IF e[q] = <<>> THEN [e EXCEPT !.wrapped = TRUE] ELSE [e EXCEPT ![q] = Tail(@)]

\* Variant: an overlong packet ends the transfer without an answer
ReplyAndPop_SilentBabble(e, q, status, h) ==
    IF status = "babble" THEN {QueuePop(e, q)}
    ELSE {QueuePop(w, q) : w \in Send(e, Reply(Head(e[q]).id, status), h)}

ReplyAndPop(e, q, status, h) ==
    {QueuePop(w, q) : w \in Send(e, Reply(Head(e[q]).id, status), h)}

\* One OUT token of service_endpoints; the payload is the byte 1.
Low(m, n) == IF m < n THEN m ELSE n
CanService(e, q) == e[q] # <<>> /\ IF q = "bulk_out" THEN CanHostOut(e.u) ELSE CanHostIn(e.u)
ServiceOut(e) ==
    LET x     == Head(e.bulk_out)
        chunk == Low(x.len - x.off, MaxPacket)
        w     == [Access(e, HostOut(e.u, [i \in 1..chunk |-> 1]))
                    EXCEPT !.bulk_out[1].off = @ + chunk]
    IN  IF x.off + chunk < x.len THEN {w} ELSE ReplyAndPop(w, "bulk_out", "ok", "out")

\* One IN token: a packet longer than what is asked for is cut and babble.
ServiceIn(e) ==
    LET x    == Head(e.bulk_in)
        n    == Len(Head(e.u.in))
        room == x.len - x.off
        w    == [Access(e, HostIn(e.u)) EXCEPT !.bulk_in[1].off = @ + Low(n, room)]
    IN  IF n > room THEN ReplyAndPop(w, "bulk_in", "babble", "in")
        ELSE IF n < MaxPacket \/ n = room THEN ReplyAndPop(w, "bulk_in", "ok", "in")
        ELSE {w}

\* the poll of the interrupt endpoint
ServiceIntr(e) ==
    IF ~(e.intr_receiving /\ e.intr_due) THEN {e}
    ELSE LET w == [e EXCEPT !.intr_due = FALSE] IN
         IF CanHostIntrIn(w.u)
         THEN Send(Access(w, HostIntrIn(w.u)), Note("intr"), "intr")
         ELSE {w}

--------------------------------------------------------------------------------
Init ==
    /\ sc \in Scenarios
    /\ d = RedirInit(sc.kind)
    /\ pc = "idle"
    /\ toDev = <<>>
    /\ eof = FALSE
    /\ nreq = 0
    /\ peers = 0
    /\ served = 0

Idle == pc = "idle"
Env  == <<toDev, eof, nreq, peers, served, sc>>

\* A packet of the peer: its id, and for bulk the length
Ask(t, id, len) == [t |-> t, id |-> id, len |-> len]
Packet0(t)      == Ask(t, 0, 0)

\* host_chardev_tick and host_chardev_ready.  A new connection may bring the
\* peer's hello with it.
NewPeer ==
    /\ peers < sc.maxpeers
    /\ peers' = peers + 1
    /\ nreq' = 0
    /\ eof' = FALSE

TickPoll ==
    /\ Idle
    /\ \E r1 \in ChTickResults(d.ch) :
         LET c1 == ChTick(d.ch, r1, 1) IN
         \E r2 \in ChReadyResults(c1) :
           LET c2 == ChReady(c1, r2) IN
           CASE ~IsReady(c2) ->
                  /\ d' = QuietDisconnect([d EXCEPT !.ch = c2])
                  /\ pc' = "idle"
                  /\ UNCHANGED <<toDev, eof, nreq, peers>>
             [] IsReady(c2) /\ IsReady(d.ch) ->
                  /\ d' = [d EXCEPT !.ch = c2]
                  /\ pc' = "hello"
                  /\ UNCHANGED <<toDev, eof, nreq, peers>>
             [] IsReady(c2) /\ ~IsReady(d.ch) ->
                  /\ NewPeer
                  /\ \E greeted \in BOOLEAN :
                       /\ toDev' = IF greeted THEN <<Packet0("hello")>> ELSE <<>>
                       /\ d' = [d EXCEPT !.ch = c2, !.view = [NewView EXCEPT !.greeted = greeted]]
                  /\ pc' = "hello"
    /\ UNCHANGED <<served, sc>>

\* Variant: every tick starts the session again
SessionStart_EveryTick(e) ==
    LET w == [e EXCEPT !.ch = ChTakeNewPeer(@), !.hello = FALSE] IN
    IF e.ch.new_peer THEN Send(w, Note("hello"), "hello") ELSE {w}

\* host_chardev_take_new_peer, and what a new peer starts with
SessionStart(e) ==
    IF ~e.ch.new_peer THEN {e}
    ELSE Send([e EXCEPT !.ch = ChTakeNewPeer(@), !.hello = FALSE,
                        !.rx = <<>>, !.tx = <<>>], Note("hello"), "hello")

\* The start of a session and the reading of the socket in drain_rx.  Bytes
\* that came before the end of file are dropped with it.
TickHello ==
    /\ pc = "hello"
    /\ \E e \in SessionStart(d) :
         IF eof \/ e.ch.fd = NoFd
         THEN d' = PeerLost(e) /\ pc' = "idle"
         ELSE d' = [e EXCEPT !.rx = @ \o toDev] /\ pc' = "rx"
    /\ toDev' = <<>>
    /\ UNCHANGED <<eof, nreq, peers, served, sc>>

\* the rest of drain_rx, one packet a step
TickRx ==
    /\ pc = "rx"
    /\ IF d.rx = <<>>
       THEN d' = d /\ pc' = "update"
       ELSE \E e \in HandlePacket([d EXCEPT !.rx = Tail(@)], Head(d.rx)) :
              /\ d' = e
              /\ pc' = IF e.ch.fd = NoFd THEN "idle" ELSE "rx"
    /\ UNCHANGED Env

TickUpdate ==
    /\ pc = "update"
    /\ d' \in UpdateConnection(d)
    /\ pc' = "ctrl"
    /\ UNCHANGED Env

TickCtrl ==
    /\ pc = "ctrl"
    /\ d' \in SendCtrlReply(d)
    /\ pc' = IF d'.connected THEN "out" ELSE "flush"
    /\ UNCHANGED Env

TickOut ==
    /\ pc = "out"
    /\ IF CanService(d, "bulk_out")
       THEN d' \in ServiceOut(d) /\ pc' = "out"
       ELSE d' = d /\ pc' = "in"
    /\ UNCHANGED Env

TickIn ==
    /\ pc = "in"
    /\ IF CanService(d, "bulk_in")
       THEN d' \in ServiceIn(d) /\ pc' = "in"
       ELSE d' = d /\ pc' = "intr"
    /\ UNCHANGED Env

TickIntr ==
    /\ pc = "intr"
    /\ d' \in ServiceIntr(d)
    /\ pc' = "flush"
    /\ UNCHANGED Env

TickFlush ==
    /\ pc = "flush"
    /\ d' \in FlushTx(d, "flush")
    /\ pc' = "idle"
    /\ UNCHANGED Env

Tick == \/ TickPoll \/ TickHello \/ TickRx \/ TickUpdate \/ TickCtrl
        \/ TickOut \/ TickIn \/ TickIntr \/ TickFlush

\* usbredir_dev_shutdown: nothing runs afterwards.
Shutdown ==
    /\ Idle
    /\ \E e \in IF IsReady(d.ch)
                THEN UNION {FlushTx(w, "flush") : w \in Disconnect(d, TRUE, "flush")}
                ELSE {d} :
         d' = [DropTransfers(e) EXCEPT !.ch = ChClose(@), !.rx = <<>>, !.tx = <<>>]
    /\ pc' = "off"
    /\ UNCHANGED Env

--------------------------------------------------------------------------------
(* The peer: usb-redir of QEMU.  It speaks once its hello is out, and has  *)
(* one control request at a time.                                          *)

PeerThere == Idle /\ IsReady(d.ch) /\ ~eof

Arrives(p) == toDev' = Append(toDev, p)

PeerGreets ==
    /\ PeerThere
    /\ ~d.view.greeted
    /\ d' = [d EXCEPT !.view.greeted = TRUE]
    /\ Arrives(Packet0("hello"))
    /\ UNCHANGED <<pc, eof, nreq, peers, served, sc>>

\* Requests that are answered
Owed(id) == [d EXCEPT !.view.owed = @ \cup {id}]
PeerAsks ==
    \/ \E t \in sc.reqs \cap {"config", "query", "start_intr", "stop_intr"} :
         Arrives(Ask(t, nreq + 1, 0)) /\ d' = Owed(nreq + 1)
    \/ /\ "class" \in sc.reqs /\ d.view.ctl = 0
       /\ Arrives(Ask("class", nreq + 1, 0))
       /\ d' = [Owed(nreq + 1) EXCEPT !.view.ctl = nreq + 1]
    \/ \E t \in sc.reqs \cap {"bulk_out", "bulk_in"} :
         \E n \in sc.lens :
            Arrives(Ask(t, nreq + 1, n)) /\ d' = Owed(nreq + 1)

\* Requests that are not.  A reset ends the peer's interest in what it has
\* asked for.
PeerTells ==
    \/ /\ "reset" \in sc.reqs
       /\ Arrives(Packet0("reset"))
       /\ d' = [d EXCEPT !.view.stale = @ \cup d.view.owed, !.view.owed = {}, !.view.ctl = 0]
    \/ /\ "cancel" \in sc.reqs
       /\ \E id \in d.view.owed : Arrives(Ask("cancel", id, 0))
       /\ d' = d
    \/ /\ "oversized" \in sc.reqs
       /\ Arrives(Packet0("oversized"))
       /\ d' = d

PeerRequests ==
    /\ PeerThere
    /\ d.view.greeted
    /\ nreq < sc.maxreq
    /\ nreq' = nreq + 1
    /\ PeerAsks \/ PeerTells
    /\ UNCHANGED <<pc, eof, peers, served, sc>>

PeerLeaves ==
    /\ PeerThere
    /\ eof' = TRUE
    /\ UNCHANGED <<d, pc, toDev, nreq, peers, served, sc>>

--------------------------------------------------------------------------------
(* The guest, between ticks, and the world.                                *)

Does(op, v) == /\ op \in sc.ops
               /\ d' = Access(d, v)

GuestBrings ==
    \/ \E b \in BOOLEAN :
         Does("unit", WriteUnitEn(d.u, b)) \/ Does("desc", WriteDesc(d.u, b))
    \/ Does("reset", UsbfReset(d.u))
    \/ Does("pulse", ResetPulse(d.u))

\* usb.dll reads OUT data, stages and commits IN and interrupt packets.
GuestReadsOut ==
    /\ Idle
    /\ d.u.out # <<>>
    /\ Does("out", ReadOutFifo(d.u))
    /\ UNCHANGED <<pc, Env>>

GuestSendsData ==
    \/ \E n \in 1..MaxPacket : Does("in", DmaTx(d.u, [i \in 1..n |-> 1]))
    \/ Does("in", Commit(d.u, {1}))
    \/ Does("ep3", WriteEp3Fifo(d.u, 1))
    \/ Does("ep3", Commit(d.u, {3}))

GuestStep ==
    /\ Idle
    /\ GuestBrings \/ GuestSendsData
    /\ UNCHANGED <<pc, Env>>

\* It reads a SETUP packet, then commits or stalls the status stage.
GuestReadsSetup ==
    /\ Idle
    /\ "SETUP" \in d.u.latched
    /\ Does("ep0", ReadSetupFifo(d.u))
    /\ served' = IF "SETUP" \in d'.u.latched THEN served ELSE d.setup_id
    /\ UNCHANGED <<pc, toDev, eof, nreq, peers, sc>>
GuestAnswersSetup ==
    /\ Idle
    /\ served # 0
    /\ Does("ep0", Commit(d.u, {0})) \/ Does("ep0", Ep0Stall(d.u))
    /\ served' = 0
    /\ UNCHANGED <<pc, toDev, eof, nreq, peers, sc>>

\* usbredir_dev_set_present
SetPresent ==
    /\ Idle
    /\ \E b \in IF sc.unplugs THEN BOOLEAN ELSE {TRUE} : d' = [d EXCEPT !.present = b]
    /\ UNCHANGED <<pc, Env>>

\* The poll interval and the redial interval end.
TimePasses ==
    /\ Idle
    /\ d' = [d EXCEPT !.intr_due = TRUE, !.ch.due = TRUE]
    /\ UNCHANGED <<pc, Env>>

Next == \/ Tick \/ Shutdown
        \/ PeerGreets \/ PeerRequests \/ PeerLeaves
        \/ GuestStep \/ GuestReadsOut \/ GuestReadsSetup \/ GuestAnswersSetup
        \/ SetPresent \/ TimePasses

Spec == Init /\ [][Next]_vars

\* The main loop alternates ticks and slices of guest execution, in which
\* usb.dll serves the endpoints that have something for it.
RedirFairness ==
    /\ WF_vars(Tick)
    /\ SF_vars(GuestReadsOut)
    /\ SF_vars(GuestReadsSetup)
    /\ SF_vars(GuestAnswersSetup)

--------------------------------------------------------------------------------
(* Properties.                                                             *)

Live == IsReady(d.ch) /\ ~eof

(***************************************************************************)
(* What the device tells one peer is a usbredir session: its hello comes   *)
(* first and once, the device is offered and withdrawn in alternation,     *)
(* every answer is to a request of this peer that had none yet, and        *)
(* interrupt packets come only while the peer has the polling on.          *)
(***************************************************************************)
PeerSeesProtocol == ~d.view.bad

(***************************************************************************)
(* A request that the peer waits for is in exactly one place: on its way,  *)
(* queued, with the guest, or answered in the transmit buffer.  Losing one *)
(* would hang the host's driver, and two holders would answer it twice.    *)
(* After a device_disconnect the host waits for nothing.                   *)
(***************************************************************************)
Asks(q, id)  == {i \in DOMAIN q : q[i].t # "cancel" /\ q[i].id = id}
Holders(id) ==
    ({"wire"} \X Asks(toDev, id)) \cup ({"rx"} \X Asks(d.rx, id))
      \cup ({"tx"} \X Asks(d.tx, id))
      \cup ({"in"} \X {i \in DOMAIN d.bulk_in : d.bulk_in[i].id = id})
      \cup ({"out"} \X {i \in DOMAIN d.bulk_out : d.bulk_out[i].id = id})
      \cup {<<"ctrl", 0>> : c \in {x \in {TRUE} : d.ctrl_active /\ d.ctrl_id = id}}
Withdrawing == \E i \in DOMAIN d.tx : d.tx[i].t = "disconnect"

OneHolder ==
    Live => \A id \in 1..sc.maxreq :
              /\ Cardinality(Holders(id)) <= 1
              /\ id \in d.view.owed => Holders(id) # {} \/ Withdrawing

(***************************************************************************)
(* Between ticks the controller is attached exactly while the device is    *)
(* connected, there is a peer then, and once the buffered packets are out  *)
(* that peer has been offered the device if and only if it is connected.   *)
(***************************************************************************)
ViewAgrees ==
    Idle => /\ d.connected = d.u.attached
            /\ d.connected => IsReady(d.ch)
            /\ Live /\ d.tx = <<>> => d.view.offered = d.connected

(***************************************************************************)
(* A transfer leaves a bulk queue with an answer, unless the device is     *)
(* disconnected or the host resets the bus.                                *)
(***************************************************************************)
Answers(id) == id \in {d'.tx[i].id : i \in DOMAIN d'.tx} \/ id \notin d'.view.owed
LeavesAnswered ==
    [][\A q \in {"bulk_in", "bulk_out"} :
         \A id \in Ids(d[q]) \ Ids(d'[q]) : ~d'.connected \/ Answers(id)]_vars

(***************************************************************************)
(* The device is offered by interface_info, ep_info and device_connect:    *)
(* the peer there is while it is connected has got them.                   *)
(***************************************************************************)
ConnectedMeansOffered ==
    Idle /\ Live /\ d.connected /\ d.tx = <<>> => d.view.offered

(***************************************************************************)
(* The transfer queues' counts never pass below zero: queue_push refuses   *)
(* the transfer that would take a count over UR_QUEUE_LEN.                 *)
(***************************************************************************)
CountInRange == ~d.wrapped

(***************************************************************************)
(* With a peer that has said hello, the cable in and the controller up     *)
(* with descriptors, the device is offered in the end.                     *)
(***************************************************************************)
Offerable == Live /\ d.view.greeted /\ d.present /\ DescriptorsReady(d.u)
EventuallyOffered == <>[]Offerable => <>[]d.view.offered

(***************************************************************************)
(* While the device stays configured and the guest reads, every bulk OUT   *)
(* transfer is answered, through any number of full-FIFO NAKs; and the     *)
(* same for class requests.                                                *)
(***************************************************************************)
Configured == Live /\ d.connected /\ d.u.config # 0
RequestsAnswered ==
    /\ <>[]Configured => <>[](d.bulk_out = <<>>)
    /\ <>[](Live /\ d.connected) => <>[](~d.ctrl_active)
================================================================================
