-------------------------------- MODULE Stowaway -------------------------------
(***************************************************************************)
(* src/stowaway.c: the Stowaway keyboard in the serial dock.  The record k *)
(* stands for stowaway_state_t and g_stowaway_fn_refs; the two rings are   *)
(* sequences.  A key byte carries the number of the key event that made    *)
(* it, which the code does not have, so that a property can speak of the   *)
(* order of typing.                                                        *)
(*                                                                         *)
(* be300_stowaway_signal_uart_irq is called in the middle of operations,   *)
(* but twice has the effect of once: sig says that an operation called it, *)
(* and the machine acts on it when the operation ends (SerialDock).        *)
(***************************************************************************)
EXTENDS Naturals, Sequences

CONSTANTS
    Codes,     \* scancodes of keys
    KbdCap     \* STOWAWAY_RX_CAP

FnCode == "fn"           \* STOWAWAY_SCANCODE_FN
Ack0   == "ack0"         \* STOWAWAY_PROBE_ACK_0
Ack1   == "ack1"         \* STOWAWAY_PROBE_ACK_1
ModemEventLimit == 2     \* STOWAWAY_MODEM_EVENT_LIMIT

ASSUME StowawayAssumption ==
    /\ KbdCap \in Nat /\ KbdCap >= 2
    /\ Codes \cap {FnCode, Ack0, Ack1} = {}

KeyByte(c, up, n) == [code |-> c, up |-> up, n |-> n]
IsKey(b) == b.code \notin {Ack0, Ack1}

\* stowaway_uart_reset, and stowaway_configure when refs is zero
KbdReset(refs) ==
    [connected |-> FALSE, wait |-> FALSE, delta |-> FALSE, delivered |-> 0,
     dtr |-> FALSE, rts |-> FALSE, ackp |-> FALSE, acks |-> 0,
     rx |-> <<>>, pend |-> <<>>, fnrefs |-> refs, sig |-> FALSE]

\* A full ring overwrites its oldest byte.
Enqueue(q, b) == Append(IF Len(q) = KbdCap THEN Tail(q) ELSE q, b)

\* stowaway_queue_byte followed by the signal, as every caller does
Receive(k, b) == [k EXCEPT !.rx = Enqueue(@, b), !.sig = TRUE]

\* stowaway_flush_pending_keys
FlushPending(k) ==
    LET both == k.rx \o k.pend
        kept == IF Len(both) <= KbdCap THEN both
                ELSE SubSeq(both, Len(both) - KbdCap + 1, Len(both))
    IN  [k EXCEPT !.rx = kept, !.pend = <<>>, !.sig = @ \/ k.pend # <<>>]

\* stowaway_uart_rx_pop of a byte that is there
KbdPop(k) ==
    LET b == Head(k.rx)
        p == [k EXCEPT !.rx = Tail(@)]
        connected == [p EXCEPT !.connected = TRUE, !.ackp = FALSE, !.acks = 0]
    IN  CASE ~k.ackp -> p
          [] k.ackp /\ b.code = Ack0 /\ k.acks = 0 -> [p EXCEPT !.acks = 1]
          [] k.ackp /\ b.code = Ack1 /\ k.acks = 1 -> FlushPending(connected)
          [] OTHER -> [p EXCEPT !.ackp = FALSE, !.acks = 0]

\* stowaway_uart_rx_clear
KbdClear(k) == [k EXCEPT !.rx = <<>>, !.ackp = FALSE, !.acks = 0]

\* stowaway_uart_note_port_config
KbdPortConfig(k) == KbdReset(k.fnrefs)

\* stowaway_uart_note_modem_wait
KbdModemWait(k) == [k EXCEPT !.wait = TRUE]

\* stowaway_queue_probe_ack
QueueProbeAck(k) ==
    IF k.ackp THEN k
    ELSE [Receive(Receive(k, KeyByte(Ack0, FALSE, 0)), KeyByte(Ack1, FALSE, 0))
            EXCEPT !.ackp = TRUE, !.acks = 0]

\* stowaway_uart_note_modem_control
KbdModemControl(k, dtr, rts) ==
    LET c == [k EXCEPT !.dtr = dtr, !.rts = rts,
                       !.connected = @ /\ dtr, !.ackp = @ /\ dtr,
                       !.acks = IF dtr THEN @ ELSE 0]
    IN  IF dtr /\ rts /\ ~k.rts THEN QueueProbeAck(c) ELSE c

\* stowaway_uart_take_modem_wait_request
WaitRequested(k) == k.wait /\ k.delivered < ModemEventLimit
KbdTakeWait(k) == [k EXCEPT !.delivered = @ + 1]

\* stowaway_uart_take_modem_delta
KbdTakeDelta(k) == [k EXCEPT !.delta = FALSE]

\* stowaway_queue_key: refused, a wake, held back, or received
KeyRefused(k) == ~(k.connected /\ k.dtr) /\ ~k.wait
\* a variant for testing the properties: keys overtake the probe's answer
QueueKey_NotHeldByProbe(k, b) ==
    CASE KeyRefused(k) -> k
      [] ~(k.connected /\ k.dtr) /\ k.wait -> [Receive(k, b) EXCEPT !.delta = TRUE]
      [] k.connected /\ k.dtr /\ ~k.rts -> [k EXCEPT !.pend = Enqueue(@, b)]
      [] OTHER -> Receive(k, b)
QueueKey(k, b) ==
    CASE KeyRefused(k) -> k
      [] ~(k.connected /\ k.dtr) /\ k.wait -> [Receive(k, b) EXCEPT !.delta = TRUE]
      [] k.connected /\ k.dtr /\ (~k.rts \/ k.ackp) -> [k EXCEPT !.pend = Enqueue(@, b)]
      [] OTHER -> Receive(k, b)

(***************************************************************************)
(* stowaway_queue_mapped_key.  A value v is a scancode and whether it is   *)
(* sent with Fn held; n numbers the key event.                             *)
(***************************************************************************)
PressMapped(k, v, n) ==
    LET one == [k EXCEPT !.fnrefs = @ + 1] IN
    CASE ~v.fn -> QueueKey(k, KeyByte(v.code, FALSE, n))
      [] v.fn /\ k.fnrefs = 0 /\ KeyRefused(k) -> k
      [] v.fn /\ k.fnrefs = 0 /\ ~KeyRefused(k) ->
           QueueKey(QueueKey(one, KeyByte(FnCode, FALSE, n)), KeyByte(v.code, FALSE, n))
      [] OTHER -> QueueKey(one, KeyByte(v.code, FALSE, n))

\* a variant: a refused release returns before the count is taken down
ReleaseMapped_StopsAtRefusal(k, v, n) ==
    LET up == QueueKey(k, KeyByte(v.code, TRUE, n)) IN
    CASE ~v.fn \/ k.fnrefs = 0 \/ KeyRefused(k) -> up
      [] v.fn /\ k.fnrefs = 1 /\ ~KeyRefused(k) ->
           QueueKey([up EXCEPT !.fnrefs = 0], KeyByte(FnCode, TRUE, n))
      [] OTHER -> [up EXCEPT !.fnrefs = @ - 1]
ReleaseMapped(k, v, n) ==
    LET up == QueueKey(k, KeyByte(v.code, TRUE, n)) IN
    CASE ~v.fn \/ k.fnrefs = 0 -> up
      [] v.fn /\ k.fnrefs = 1 ->
           QueueKey([up EXCEPT !.fnrefs = 0], KeyByte(FnCode, TRUE, n))
      [] OTHER -> [up EXCEPT !.fnrefs = @ - 1]
================================================================================
