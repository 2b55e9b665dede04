------------------------------- MODULE SerialDock ------------------------------
(***************************************************************************)
(* src/devices/serial_dock.c: the serial dock as the companion chip shows  *)
(* it.  AA008004 holds two interrupt sub-sources, the socket and the modem *)
(* events, with a mask; AA001054 the causes of the modem sub-source; both  *)
(* reach the CPU through GIRQ0 source 4, whose source word and the output  *)
(* enable AA000008 decide whether the line is live.                        *)
(*                                                                         *)
(* The record d stands for the fields pcconnect_*, stowaway_* and          *)
(* serial_dock_* of be300_vrc4173_latch.  kind is the configuration: the   *)
(* PC Connect cable or the Stowaway keyboard.  edge is the latch of the    *)
(* GIU: the line has risen since the guest last took its interrupt.        *)
(***************************************************************************)
EXTENDS Stowaway

Subs == {"socket", "modem"}    \* BE300_COMMMODE_PENDING_MASK
Causes == {4, 5}               \* BE300_COMMMODE_MODEM_EVENT_BITS

\* be300_register_vrc4173_latch: AA008004 is seeded with both sub-sources unmasked
DockInit(kind) ==
    [kind |-> kind, docked |-> kind = "keyboard", pending |-> {}, mask |-> Subs,
     events |-> {}, modemsent |-> FALSE, wake |-> 0, pccard |-> kind = "keyboard",
     armed |-> FALSE, due |-> FALSE, live |-> FALSE, irq |-> FALSE, edge |-> FALSE,
     cable |-> FALSE]

\* be300_pcconnect_commmode_unmasked
Unmasked(d) == d.pending \cap d.mask # {}

\* be300_pcconnect_irq_update
IrqWanted(d) == Unmasked(d) /\ d.live
IrqUpdate(d) ==
    [d EXCEPT !.irq = IrqWanted(d), !.edge = @ \/ (IrqWanted(d) /\ ~d.irq)]

\* be300_pcconnect_irq_reedge
Reedge(d) == [d EXCEPT !.edge = @ \/ (d.irq /\ IrqWanted(d))]

\* variants for testing the properties
RaiseModem_NoReedge(d) ==
    IrqUpdate([d EXCEPT !.pending = @ \cup {"modem"}, !.events = Causes])

\* What be300_stowaway_signal_uart_irq, be300_stowaway_raise_modem_event,
\* be300_pcconnect_uart_irq_ready and both level checks end in.
RaiseModem(d) ==
    Reedge(IrqUpdate([d EXCEPT !.pending = @ \cup {"modem"}, !.events = Causes]))

\* be300_pcconnect_uart_irq_ready
UartIrqReady(d) == IF d.kind = "cable" /\ d.docked THEN RaiseModem(d) ELSE d

\* be300_pcconnect_raise_dock_edge, without force as all its callers
DockEdge(d) ==
    IF d.kind = "cable" /\ d.armed /\ d.due /\ d.pending = {} /\ ~d.docked
    THEN IrqUpdate([d EXCEPT !.docked = TRUE, !.pccard = TRUE, !.cable = TRUE,
                             !.pending = {"socket"}])
    ELSE d

(***************************************************************************)
(* be300_pcconnect_maybe_raise_dock_edge: for the keyboard, the modem      *)
(* event that the driver's wait asks for.  Latch and keyboard change.      *)
(***************************************************************************)
WaitDue(d, k) ==
    d.kind = "keyboard" /\ "modem" \notin d.pending /\ d.events = {} /\ WaitRequested(k)
DockCheck(d, k) ==
    IF WaitDue(d, k) THEN RaiseModem([d EXCEPT !.docked = TRUE]) ELSE DockEdge(d)
KbdCheck(d, k) == IF WaitDue(d, k) THEN KbdTakeWait(k) ELSE k

\* be300_pcconnect_maybe_raise_uart_rx_level and its twin for the keyboard:
\* n is the number of bytes the UART holds
RxLevel(d, n) ==
    CASE ~d.docked /\ d.kind = "cable" -> d
      [] (d.docked \/ d.kind = "keyboard") /\ n = 0 -> [d EXCEPT !.wake = 0]
      [] OTHER -> IF d.pending # {} \/ n = d.wake THEN d
                  ELSE RaiseModem([d EXCEPT !.wake = n])

\* be300_pcconnect_poll, after the dock check
PollLevel(d, n) ==
    IF d.kind = "cable" THEN RxLevel(d, n) ELSE Reedge(IrqUpdate(RxLevel(d, n)))

(***************************************************************************)
(* be300_pcconnect_note_comm_write of a write to AA008004: ones in the low *)
(* byte acknowledge, the high byte is the mask.  Acknowledging the socket  *)
(* brings the modem event of the inserted cable.                           *)
(***************************************************************************)
StatusWritten_Swallowed(d, ack, mask) ==
    [d EXCEPT !.pending = @ \ ack, !.mask = mask,
              !.modemsent = @ \/ "socket" \in d.pending \cap ack]
StatusWritten(d, ack, mask) ==
    LET acked == [d EXCEPT !.pending = @ \ ack, !.mask = mask]
        socketAcked == "socket" \in d.pending \cap ack
    IN  IF socketAcked /\ d.kind = "cable" /\ d.docked /\ ~d.modemsent
        THEN [acked EXCEPT !.pending = @ \cup {"modem"}, !.events = Causes,
                           !.modemsent = TRUE]
        ELSE acked
\* maskset: the written mask enables something, so the dock is checked
StatusWrite(d, k, ack, mask) ==
    LET w == StatusWritten(d, ack, mask)
        e == IF mask # {} THEN DockCheck(w, k) ELSE w
    IN  IF "socket" \in d.pending \cap ack /\ Unmasked(w)
        THEN Reedge(IrqUpdate(e)) ELSE IrqUpdate(e)
KbdStatusWrite(d, k, ack, mask) ==
    IF mask # {} THEN KbdCheck(StatusWritten(d, ack, mask), k) ELSE k

\* be300_commmode_event_ack: ones written to AA001054
EventAck_NoUpdate(d, bits) ==
    [d EXCEPT !.events = @ \ bits, !.pending = @ \ {"modem"}]
EventAck(d, bits) ==
    IF bits = {} THEN d
    ELSE IrqUpdate([d EXCEPT !.events = @ \ bits, !.pending = @ \ {"modem"}])

\* be300_commmode_status_read, be300_commmode_socket_read
DockLooked(d) == IF d.kind = "cable" THEN DockEdge(d) ELSE d

\* be300_pcconnect_pccard_status_read, with no card in the CF socket
PccardSeen(d) == [d EXCEPT !.pccard = @ /\ ~d.docked]

\* be300_girq0_refresh_lines after a write to AA000008 or to the source word
SetLive(d, live) == IrqUpdate([d EXCEPT !.live = live])

\* be300_pcconnect_reset_for_cpu_reset; the insertion of the cable is armed
\* again, the keyboard stays docked
CpuReset_KeepsPending(d) ==
    [d EXCEPT !.docked = d.kind = "keyboard", !.events = {}, !.modemsent = FALSE,
              !.wake = 0, !.armed = d.kind = "cable", !.due = FALSE, !.irq = FALSE]
CpuReset(d) ==
    [d EXCEPT !.docked = d.kind = "keyboard", !.pending = {}, !.events = {},
              !.modemsent = FALSE, !.wake = 0, !.pccard = d.kind = "keyboard",
              !.armed = d.kind = "cable", !.due = FALSE, !.irq = FALSE]
================================================================================
