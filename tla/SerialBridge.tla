------------------------------ MODULE SerialBridge -----------------------------
(***************************************************************************)
(* src/pcconnect_bridge.c: the RS-232 cable of the dock, between a UART of *)
(* the guest and a host stream (module HostChardev).  A byte of the host   *)
(* goes from the socket to rx_pre_ring and from there, when the cable is   *)
(* in and the guest's UART is set up, to the UART's receive FIFO rx_ring;  *)
(* a byte of the guest goes to tx_ring and from there to the socket.       *)
(*                                                                         *)
(* The emulator is single-threaded: a tick (pc says where it is) runs      *)
(* between slices of guest execution.  Only the peer is concurrent.  The   *)
(* record s stands for pcc_br_state_t; the rings are sequences.  Pacing is *)
(* by a host clock the model does not have: when it is on, any number of   *)
(* bytes may be due.                                                       *)
(***************************************************************************)
EXTENDS HostChardev, Sequences

CONSTANTS
    Byte,         \* values of a byte
    IdleByte,     \* 0x55, what PCConnect.exe sends while it polls
    GuestFifo,    \* PCC_GUEST_RX_FIFO_CAP
    PreopenCap,   \* PCC_PREOPEN_FIFO_CAP
    RxCap,        \* PCC_RING_CAP
    TxCap,        \* PCC_TX_QUEUE_CAP
    PaceBacklog,  \* PCC_RX_PACE_BACKLOG_THRESHOLD
    Backlog,      \* bytes the peer may have in flight
    Modes         \* a behaviour keeps to one

\* wince: wince_mode; paced: a baud rate is set; flows: the directions in
\* which there is data.
ModeType == [kind : Kinds, wince : BOOLEAN, paced : BOOLEAN,
             flows : SUBSET {"in", "out"}]

ASSUME BridgeAssumption ==
    /\ IdleByte \in Byte
    /\ GuestFifo \in Nat \ {0} /\ PreopenCap \in Nat \ {0}
    /\ PreopenCap <= RxCap /\ PaceBacklog <= RxCap /\ PaceBacklog \in Nat \ {0}
    /\ RxCap \in Nat /\ TxCap \in Nat \ {0} /\ Backlog \in Nat \ {0}
    /\ Modes \subseteq ModeType

VARIABLES
    s,     \* the bridge
    pc,    \* where the tick is
    net,   \* bytes the peer has sent and the bridge has not read
    eof,   \* the peer has closed its end
    got,   \* the bytes the guest's last read returned; <<>> after a loss
    put,   \* the bytes the peer received last; <<>> after a loss
    mode   \* the configuration

vars == <<s, pc, net, eof, got, put, mode>>

Low(m, n) == IF m < n THEN m ELSE n

DataPath(b) == b.cable /\ b.link

--------------------------------------------------------------------------------
(* Variants, for testing the properties.                                   *)

\* a paced release that does not wake the guest
NoteReleased_Unpaced(b, n) ==
    IF mode.wince /\ ~b.pace /\ n > 0 /\ b.rx = <<>> THEN TRUE ELSE b.woken

\* a receiver that is only paused is treated as one not opened yet
QueueHostRxPre_WhenPaused(b, x) ==
    LET c == IF ~b.ready /\ Len(b.pre) >= PreopenCap
             THEN [b EXCEPT !.pre = Tail(@)] ELSE b
    IN  IF Len(c.pre) = RxCap THEN c ELSE [c EXCEPT !.pre = Append(@, x)]

\* a transmit queue that overwrites its oldest byte
QueueGuestTx_Overwrites(b, x) ==
    IF ~(DataPath(b) /\ IsReady(b.ch)) THEN b
    ELSE IF Len(b.tx) = TxCap THEN [b EXCEPT !.tx = Append(Tail(@), x)]
    ELSE [b EXCEPT !.tx = Append(@, x)]

--------------------------------------------------------------------------------
(* Helpers of the file.                                                    *)

\* clear_serial_queues
ClearQueues(b) ==
    [b EXCEPT !.rx = <<>>, !.pre = <<>>, !.tx = <<>>, !.pace = FALSE,
              !.woken = FALSE]

\* queue_host_rx_pre: until the guest has set its UART up only the newest
\* bytes are kept
QueueHostRxPre(b, x) ==
    LET c == IF ~b.configured /\ Len(b.pre) >= PreopenCap
             THEN [b EXCEPT !.pre = Tail(@)] ELSE b
    IN  IF Len(c.pre) = RxCap THEN c ELSE [c EXCEPT !.pre = Append(@, x)]

\* bridge_guest_rx_space, and what the ring before it holds
CanRelease(b) == Low(Len(b.pre), GuestFifo - Low(Len(b.rx), GuestFifo))

\* bridge_note_rx_released: the guest is woken when its FIFO was empty.
\* woken is true once rx_ready_cb has been called since then.
NoteReleased(b, n) ==
    IF mode.wince /\ n > 0 /\ b.rx = <<>> THEN TRUE ELSE b.woken

Move(b, n) ==
    [b EXCEPT !.rx = @ \o SubSeq(b.pre, 1, n),
              !.pre = SubSeq(@, n + 1, Len(@)),
              !.woken = NoteReleased(b, n)]

\* bridge_release_rx_paced: the bridges it may leave.  rx_pace_active, armed
\* by a long backlog, stays until the backlog is gone.
Release(b) ==
    IF ~(DataPath(b) /\ b.ready) THEN {b}
    ELSE LET c == [b EXCEPT !.pace = @ \/ (mode.paced /\ Len(b.pre) >= PaceBacklog)]
             r(n) == LET m == Move(c, n) IN
                     [m EXCEPT !.pace = c.pre = <<>> \/ m.pre # <<>>]
         IN  IF c.pace THEN {r(n) : n \in 0..CanRelease(c)}
                       ELSE {Move(c, CanRelease(c))}

\* on_peer_gone, and the PTY that is opened again after its end of file
PeerGone(b) == ClearQueues([b EXCEPT !.ch = ChDropPeer(@)])

\* host_chardev_take_new_peer, and what a new peer starts with
TakePeer(b) ==
    IF b.ch.new_peer
    THEN ClearQueues([b EXCEPT !.ch = ChTakeNewPeer(@)]) ELSE b

\* bridge_queue_guest_tx
TxOpen(b) == DataPath(b) /\ IsReady(b.ch)
QueueGuestTx(b, x) ==
    IF ~TxOpen(b) \/ Len(b.tx) = TxCap THEN b ELSE [b EXCEPT !.tx = Append(@, x)]

\* pcconnect_bridge_reset_guest_serial
ResetGuestSerial(b) ==
    [ClearQueues(b) EXCEPT !.link = FALSE, !.ready = FALSE,
                           !.configured = FALSE, !.drop_idle = mode.wince \/ @]

\* the part of pcconnect_bridge_set_cable_connected(false) that follows the test
CableOut(b) == [ResetGuestSerial(b) EXCEPT !.cable = FALSE]

--------------------------------------------------------------------------------
\* pcconnect_bridge_configure: a plain serial port is always connected.
Bridge(m) ==
    [ch |-> [ChInit EXCEPT !.kind = m.kind, !.listening = m.kind \in ListenKinds,
                           !.fd = IF m.kind = "pty" THEN 1 ELSE NoFd,
                           !.new_peer = m.kind = "pty"],
     cable |-> ~m.wince, link |-> ~m.wince, ready |-> ~m.wince,
     configured |-> ~m.wince, drop_idle |-> FALSE,
     rx |-> <<>>, pre |-> <<>>, tx |-> <<>>, pace |-> FALSE, woken |-> FALSE]

Init ==
    /\ mode \in Modes
    /\ s = Bridge(mode)
    /\ pc = "idle"
    /\ net = <<>>
    /\ eof = FALSE
    /\ got = <<>>
    /\ put = <<>>

\* Both directions lose what is queued.
Loses(b) == s' = b /\ got' = <<>> /\ put' = <<>>
Keeps(b) == s' = b /\ UNCHANGED <<got, put>>
\* the peer of a new descriptor has sent nothing yet
Socket(c) == IF c.ch.fd # s.ch.fd
             THEN net' = <<>> /\ eof' = FALSE ELSE UNCHANGED <<net, eof>>

\* bridge_tick_one as far as bridge_drain_tx
TickPoll ==
    /\ pc = "idle"
    /\ \E result \in ChTickResults(s.ch) :
         LET c == [s EXCEPT !.ch = ChTick(s.ch, result, 1)] IN
         /\ IF c.ch.new_peer THEN Loses(TakePeer(c)) ELSE Keeps(c)
         /\ Socket(c)
    /\ pc' = "tx"
    /\ UNCHANGED mode

\* bridge_finish_connect, at the start of both drains
FinishConnect(next, otherwise) ==
    \E result \in ChReadyResults(s.ch) :
        LET c == [s EXCEPT !.ch = ChReady(s.ch, result)] IN
        /\ IF c.ch.new_peer THEN Loses(TakePeer(c)) ELSE Keeps(c)
        /\ Socket(c)
        /\ pc' = IF IsReady(c.ch) THEN next ELSE otherwise

TickTx ==
    /\ pc = "tx"
    /\ IF s.ch.fd = NoFd
       THEN /\ s' = [s EXCEPT !.tx = <<>>]
            /\ put' = <<>>
            /\ pc' = "rx"
            /\ UNCHANGED <<got, net, eof>>
       ELSE FinishConnect("writing", "rx")
    /\ UNCHANGED mode

\* A write that takes some bytes is as many writes that take one.
TickWrites ==
    /\ pc = "writing"
    /\ s.tx # <<>>
    /\ put' = <<Head(s.tx)>>
    /\ s' = [s EXCEPT !.tx = Tail(@)]
    /\ UNCHANGED <<pc, net, eof, got, mode>>

\* nothing left, not due, or a full socket
TickWriteEnds ==
    /\ pc = "writing"
    /\ pc' = "rx"
    /\ UNCHANGED <<s, net, eof, got, put, mode>>

TickWriteFails ==
    /\ pc = "writing"
    /\ s.tx # <<>>
    /\ Loses(PeerGone(s))
    /\ net' = <<>>
    /\ eof' = FALSE
    /\ pc' = "rx"
    /\ UNCHANGED mode

\* the start of bridge_drain_rx
TickRx ==
    /\ pc = "rx"
    /\ IF s.ch.fd = NoFd THEN Keeps(s) /\ pc' = "last" /\ UNCHANGED <<net, eof>>
                         ELSE FinishConnect("first", "last")
    /\ UNCHANGED mode

\* the releases before and after the reading of the socket
TickRelease ==
    /\ pc \in {"first", "last"}
    /\ s' \in Release(s)
    /\ pc' = IF pc = "first" THEN "reading" ELSE "idle"
    /\ UNCHANGED <<net, eof, got, put, mode>>

\* A read; again, of one byte.  A byte may be lost only before the guest is
\* docked and its UART set up, or as an idle mark of a poll then under way.
Settled(b) == DataPath(b) /\ b.configured /\ ~b.drop_idle
Receive(b, x) ==
    IF ~DataPath(b) \/ (b.drop_idle /\ x = IdleByte) THEN b
    ELSE QueueHostRxPre([b EXCEPT !.drop_idle = FALSE], x)
TickReads ==
    /\ pc = "reading"
    /\ net # <<>> /\ Len(s.pre) < RxCap
    /\ s' = Receive(s, Head(net))
    /\ net' = Tail(net)
    /\ got' = IF Settled(s) THEN got ELSE <<>>
    /\ UNCHANGED <<pc, eof, put, mode>>

\* no space, or nothing to read
TickReadEnds ==
    /\ pc = "reading"
    /\ Len(s.pre) = RxCap \/ (net = <<>> /\ ~eof)
    /\ pc' = "last"
    /\ UNCHANGED <<s, net, eof, got, put, mode>>

\* end of file, or an error; the PTY may fail to open again
TickReadFails ==
    /\ pc = "reading"
    /\ Len(s.pre) # RxCap
    /\ LET c == PeerGone(s) IN
       \/ /\ net = <<>> /\ eof
          /\ Loses(IF mode.kind = "pty" THEN [c EXCEPT !.ch = ChReopenPty(@, 1)] ELSE c)
       \/ Loses(c)
    /\ net' = <<>>
    /\ eof' = FALSE
    /\ pc' = "last"
    /\ UNCHANGED mode

Tick == \/ TickPoll \/ TickTx \/ TickWrites \/ TickWriteEnds \/ TickWriteFails
        \/ TickRx \/ TickRelease \/ TickReads \/ TickReadEnds \/ TickReadFails

--------------------------------------------------------------------------------
(* The guest's UART and the dock, between ticks.                           *)

Idle == pc = "idle"

\* pcconnect_bridge_uart_rx_available, serial_bridge_uart_rx_count
GuestPolls ==
    /\ Idle
    /\ s' \in Release(s)
    /\ UNCHANGED <<pc, net, eof, got, put, mode>>

\* serial_bridge_uart_rx_pop
GuestReads ==
    /\ Idle
    /\ \E c \in Release(s) :
         IF DataPath(c) /\ c.ready /\ c.rx # <<>>
         THEN /\ got' = <<Head(c.rx)>>
              /\ s' = [c EXCEPT !.rx = Tail(@), !.woken = @ /\ Len(c.rx) > 1]
         ELSE s' = c /\ UNCHANGED got
    /\ UNCHANGED <<pc, net, eof, put, mode>>

\* bridge_guest_rx_fifo_reset
GuestResetsFifo ==
    /\ Idle
    /\ s' = [s EXCEPT !.rx = <<>>, !.woken = FALSE]
    /\ got' = <<>>
    /\ UNCHANGED <<pc, net, eof, put, mode>>

GuestWrites ==
    /\ Idle /\ "out" \in mode.flows
    /\ \E x \in Byte : Keeps(QueueGuestTx(s, x))
    /\ UNCHANGED <<pc, net, eof, mode>>

\* pcconnect_bridge_note_uart_config: 8N1 outside the divisor latch, or not
GuestSetsUart ==
    /\ Idle /\ mode.wince
    /\ \/ s' = [s EXCEPT !.ready = FALSE]
       \/ s' \in Release([s EXCEPT !.ready = TRUE, !.configured = TRUE])
    /\ UNCHANGED <<pc, net, eof, got, put, mode>>

GuestResets ==
    /\ Idle /\ mode.wince
    /\ Loses(ResetGuestSerial(s))
    /\ UNCHANGED <<pc, net, eof, mode>>

\* pcconnect_bridge_set_cable_connected
CablePulled ==
    /\ Idle /\ mode.wince
    /\ s.cable \/ s.link
    /\ Loses(CableOut(s))
    /\ UNCHANGED <<pc, net, eof, mode>>

CablePlugged ==
    /\ Idle /\ mode.wince
    /\ ~DataPath(s)
    /\ s' \in Release([s EXCEPT !.cable = TRUE, !.link = TRUE, !.drop_idle = TRUE])
    /\ UNCHANGED <<pc, net, eof, got, put, mode>>

Guest == \/ GuestPolls \/ GuestReads \/ GuestResetsFifo \/ GuestWrites
         \/ GuestSetsUart \/ GuestResets \/ CablePulled \/ CablePlugged

--------------------------------------------------------------------------------
(* The peer, at any time, and the redial timer.                            *)

PeerSends ==
    /\ "in" \in mode.flows
    /\ IsReady(s.ch) /\ ~eof
    /\ Len(net) < Backlog
    /\ \E x \in Byte : net' = Append(net, x)
    /\ UNCHANGED <<s, pc, eof, got, put, mode>>

PeerCloses ==
    /\ IsReady(s.ch) /\ ~eof
    /\ eof' = TRUE
    /\ UNCHANGED <<s, pc, net, got, put, mode>>

RedialDue ==
    /\ Idle
    /\ ~s.ch.due
    /\ s' = [s EXCEPT !.ch.due = TRUE]
    /\ UNCHANGED <<pc, net, eof, got, put, mode>>

Next == Tick \/ Guest \/ PeerSends \/ PeerCloses \/ RedialDue
Spec == Init /\ [][Next]_vars

--------------------------------------------------------------------------------
(* Properties.                                                             *)

(***************************************************************************)
(* Nothing is replayed across the dock: while the guest is not connected   *)
(* nothing is queued in either direction, and while the idle marks of the  *)
(* first polls are still being dropped nothing has reached the guest.      *)
(***************************************************************************)
NothingAcrossDock ==
    /\ ~DataPath(s) => s.rx = <<>> /\ s.pre = <<>> /\ s.tx = <<>>
    /\ s.drop_idle => s.rx = <<>> /\ s.pre = <<>>
    /\ s.ready => s.configured

(***************************************************************************)
(* Pacing, once a backlog has armed it, ends with that backlog: a later    *)
(* short frame is not slowed down by a burst of an earlier peer.           *)
(***************************************************************************)
PaceHasBacklog == s.pace => s.pre # <<>>

(***************************************************************************)
(* No wake is lost: while the guest's receive FIFO holds a byte it has     *)
(* been woken since the FIFO was last empty, whichever of the guest, the   *)
(* dock and the tick released the byte.                                    *)
(***************************************************************************)
WakeNotLost == mode.wince /\ s.rx # <<>> => s.woken

(***************************************************************************)
(* From the socket to the guest the bridge is a stream that loses nothing  *)
(* once the guest is docked and its UART set up, whatever is paced, paused *)
(* or full, unless the peer, the dock or the guest's FIFO is reset; and so *)
(* it is from the guest to the peer, from the moment a byte is queued.     *)
(***************************************************************************)
In  == INSTANCE Stream WITH items <- s.rx \o s.pre \o net, last <- got
Out == INSTANCE Stream WITH items <- s.tx, last <- put
InIsStream  == In!Spec
OutIsStream == Out!Spec
================================================================================
