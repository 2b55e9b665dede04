---------------------------------- MODULE Usbf ---------------------------------
(***************************************************************************)
(* The USB function controller of src/hw/usbf.c, the device the guest's    *)
(* usb.dll drives by registers and the bus side (usbredir_dev.c) drives by *)
(* the usbf_host_* calls.  Each register access and each bus-side call is  *)
(* an operator on the record u that stands for usbf_state_t, so that the   *)
(* module that composes the two sides can call them from its handlers.     *)
(*                                                                         *)
(* What is abstracted.  A status register is the set of its bits; the      *)
(* three INTSTAT/INTMASK/INTCLR registers share one set of event names and *)
(* are told apart by IntReg.  The EP2 receive FIFO is the sequence of its  *)
(* unread bytes, each marked when it is the last of its packet (the ring   *)
(* of slots with its read position is in module UsbOutPath); the EP1 FIFO *)
(* is the sequence of its packets.  The DMA registers are arguments of the *)
(* start command, the DMA'd bytes any bytes of guest RAM.  Registers that  *)
(* are only stored and read back are left out.                             *)
(*                                                                         *)
(* The two callbacks are fields: irq_changed makes the machine recompute   *)
(* the interrupt level, so u.irq is the level at the last call; ctrl_done  *)
(* leaves its status in u.done until the bus side takes it.                *)
(***************************************************************************)
EXTENDS Naturals, Sequences, FiniteSets

CONSTANTS
    Byte,        \* byte values
    MaxPacket,   \* USBF_EP_MAX_PACKET
    OutSlots,    \* USBF_OUT_SLOTS
    InSlots,     \* USBF_IN_SLOTS
    SetupLen     \* bytes in the SETUP FIFO

ASSUME UsbfAssumption ==
    /\ Byte # {}
    /\ MaxPacket \in Nat \ {0}
    /\ OutSlots \in Nat \ {0}
    /\ InSlots \in Nat \ {0}
    /\ SetupLen \in Nat \ {0}

IntReg == << {"EP1_EMPTY"},
             {"SETUP", "EP2_OUT", "SETUP_OVR", "STATUS_RDY"},
             {"BUS_RESET", "CONFIG", "STATUS_DONE"} >>
IntEvents == IntReg[1] \cup IntReg[2] \cup IntReg[3]
TopEvents == {"RX_DONE", "TX_DONE", "OUT_READY", "TX_REQ", "CORE"}

Packet == UNION {[1..n -> Byte] : n \in 0..MaxPacket}

--------------------------------------------------------------------------------
(* Interrupt status.                                                       *)

\* EP1 empty and EP2 data pending are levels, the rest is latched.
IntStat(u) ==
    u.latched
        \cup (IF u.in = <<>> /\ ~u.ep1_off THEN {"EP1_EMPTY"} ELSE {})
        \cup (IF u.out # <<>> THEN {"EP2_OUT"} ELSE {})

CorePending(u) == IntStat(u) \ u.intmask # {}

TopStat(u) ==
    u.top_latched
        \cup (IF u.ep1_req /\ Len(u.in) < InSlots THEN {"TX_REQ"} ELSE {})
        \cup (IF u.out # <<>> THEN {"OUT_READY"} ELSE {})
        \cup (IF CorePending(u) THEN {"CORE"} ELSE {})

IrqPending(u) == u.unit_en /\ TopStat(u) \cap u.top_en # {}

Notify(u) == [u EXCEPT !.irq = IrqPending(u)]

--------------------------------------------------------------------------------
(* Variants of the handlers, for testing the properties.                   *)

\* unplugging leaves the received data to the next attachment
FlushFifos_KeepsOut(u) ==
    [u EXCEPT !.in = <<>>, !.in_stage = <<>>,
              !.ep3_stage = <<>>, !.ep3 = <<>>, !.setup_pos = 0]

\* a short read discards what it did not fetch
DmaRx_DropsRest(u, n) ==
    Notify([u EXCEPT !.out = <<>>, !.top_latched = @ \cup {"RX_DONE"}])

\* a second request takes the place of the first without an answer
ClassRequest_Replaces(u) ==
    IF u.attached /\ u.unit_en /\ u.desc_ok
    THEN Notify([u EXCEPT !.setup_pos = 0, !.ctrl_pending = TRUE,
                          !.latched = @ \cup {"SETUP", "SETUP_OVR", "STATUS_RDY"}])
    ELSE u

\* a receive FIFO that counts one packet too many
CanHostOut_OneLess(u) ==
    /\ u.attached
    /\ u.config # 0
    /\ Cardinality({i \in DOMAIN u.out : u.out[i].last}) + 1 < OutSlots

\* an IN token that frees a slot without usbf_notify
HostIn_NoNotify(u) == [u EXCEPT !.in = Tail(@)]

--------------------------------------------------------------------------------
(* Common parts of the handlers.                                           *)

FlushFifos(u) ==
    [u EXCEPT !.out = <<>>, !.in = <<>>, !.in_stage = <<>>,
              !.ep3_stage = <<>>, !.ep3 = <<>>, !.setup_pos = 0]

FinishControl(u, status) ==
    IF u.ctrl_pending
    THEN [u EXCEPT !.ctrl_pending = FALSE, !.done = Append(u.done, status)]
    ELSE u

UsbfInit ==
    [unit_en |-> FALSE, top_latched |-> {}, top_en |-> {}, ep1_off |-> FALSE,
     latched |-> {}, intmask |-> IntEvents, ep1_req |-> FALSE,
     address |-> 0, config |-> 0, desc_ok |-> FALSE,
     setup_pos |-> 0, ctrl_pending |-> FALSE, done |-> <<>>,
     out |-> <<>>, in_stage |-> <<>>, in |-> <<>>,
     ep3_stage |-> <<>>, ep3 |-> <<>>, attached |-> FALSE, irq |-> FALSE]

\* usbf_reset: the bus connection survives, and so does what the bus side
\* has not yet been told.
UsbfReset(u) ==
    LET v == FinishControl(u, "stall") IN
    Notify([UsbfInit EXCEPT !.attached = u.attached, !.done = v.done])

OutCount(u) == Cardinality({i \in DOMAIN u.out : u.out[i].last})

--------------------------------------------------------------------------------
(* Guest side: usbf_read and usbf_write.                                   *)

\* usbf_queue_in: the staged packet is dropped when both slots are full.
QueueIn(u) ==
    IF Len(u.in) < InSlots
    THEN [u EXCEPT !.in = Append(@, u.in_stage), !.in_stage = <<>>]
    ELSE [u EXCEPT !.in_stage = <<>>]

\* usbf_dma, memory to EP1: a full packet needs no commit.
DmaTx(u, p) ==
    LET v == [u EXCEPT !.in_stage = p]
        w == IF Len(p) = MaxPacket THEN QueueIn(v) ELSE v
    IN  Notify([w EXCEPT !.top_latched = @ \cup {"TX_DONE"}])

\* usbf_dma, EP2 to memory: up to n bytes, across packets.
DmaRxCount(u, n) == IF n < Len(u.out) THEN n ELSE Len(u.out)
DmaRx(u, n) ==
    Notify([u EXCEPT !.out = SubSeq(@, DmaRxCount(u, n) + 1, Len(@)),
                     !.top_latched = @ \cup {"RX_DONE"}])

\* USBF_OUT_FIFO: usbf_out_byte
ReadOutFifo(u) ==
    Notify([u EXCEPT !.out = IF @ = <<>> THEN @ ELSE Tail(@)])

\* USBF_SETUP_FIFO: the last byte clears the SETUP event.
ReadSetupFifo(u) ==
    IF u.setup_pos >= SetupLen THEN u
    ELSE LET v == [u EXCEPT !.setup_pos = @ + 1] IN
         IF v.setup_pos = SetupLen
         THEN Notify([v EXCEPT !.latched = @ \ {"SETUP"}])
         ELSE v

\* USBF_EP_COMMIT: any of the three endpoints, in this order.
CommitEp0(u) ==
    FinishControl([u EXCEPT !.latched = @ \cup {"STATUS_DONE"}], "ok")
CommitEp3(u) == [u EXCEPT !.ep3 = <<u.ep3_stage>>, !.ep3_stage = <<>>]
Commit(u, eps) ==
    LET a == IF 0 \in eps THEN CommitEp0(u) ELSE u
        b == IF 1 \in eps THEN QueueIn(a) ELSE a
        d == IF 3 \in eps THEN CommitEp3(b) ELSE b
    IN  Notify(d)

\* USBF_RESET: the configuration and the interrupt masks survive.
ResetPulse(u) ==
    Notify([FlushFifos(FinishControl(u, "stall"))
              EXCEPT !.latched = {}, !.top_latched = {}, !.ep1_off = FALSE])

\* USBF_EP0_CTRL with the stall bit
Ep0Stall(u) == Notify(FinishControl(u, "stall"))

\* USBF_EP3_FIFO
WriteEp3Fifo(u, b) ==
    Notify([u EXCEPT !.ep3_stage = IF Len(@) < MaxPacket THEN Append(@, b) ELSE @])

WriteUnitEn(u, b)     == Notify([u EXCEPT !.unit_en = b])
WriteTopClr(u, bits)  == Notify([u EXCEPT !.top_latched = @ \ bits])
WriteTopEn(u, bits)   == Notify([u EXCEPT !.top_en = bits])
WriteEp1Off(u)        == Notify([u EXCEPT !.ep1_off = TRUE])
WriteEp1Ctrl(u, b)    == Notify([u EXCEPT !.ep1_req = b])
ClearEp1Fill(u)       == Notify([u EXCEPT !.in_stage = <<>>])
\* USBF_INTCLRi: a bit written as 0 clears its event.
WriteIntClr(u, i, keep) ==
    Notify([u EXCEPT !.latched = @ \ (IntReg[i] \ keep)])
WriteIntMask(u, i, bits) ==
    Notify([u EXCEPT !.intmask = (@ \ IntReg[i]) \cup (bits \cap IntReg[i])])
\* The descriptor RAM: whether the bytes usbf_descriptors_ready looks at
\* are those of a device and a configuration descriptor.
WriteDesc(u, ok)      == [u EXCEPT !.desc_ok = ok]

--------------------------------------------------------------------------------
(* Bus side: usbf_host_*.                                                  *)

DescriptorsReady(u) == u.unit_en /\ u.desc_ok

Unplugged(u) ==
    [FlushFifos(FinishControl(u, "stall")) EXCEPT !.address = 0, !.config = 0]

HostAttach(u, b) ==
    IF u.attached = b THEN u
    ELSE LET v == [u EXCEPT !.attached = b] IN
         Notify(IF b THEN v ELSE Unplugged(v))

HostBusReset(u) ==
    Notify([Unplugged(u) EXCEPT !.latched = @ \cup {"BUS_RESET"}])

\* usbf_host_control
ControlAccepted(u) == u.attached /\ DescriptorsReady(u)
SetAddress(u, a) ==
    IF ControlAccepted(u) THEN [u EXCEPT !.address = a] ELSE u
SetConfiguration(u, n) ==
    IF ControlAccepted(u)
    THEN Notify([u EXCEPT !.config = n, !.latched = @ \cup {"CONFIG"}])
    ELSE u
\* A class request goes to the guest; one still there is stalled first.
ClassRequest(u) ==
    IF ControlAccepted(u)
    THEN Notify([FinishControl(u, "stall")
                   EXCEPT !.setup_pos = 0, !.ctrl_pending = TRUE,
                          !.latched = @ \cup {"SETUP", "SETUP_OVR", "STATUS_RDY"}])
    ELSE u

Marked(p) == [i \in DOMAIN p |-> [b |-> p[i], last |-> i = Len(p)]]

CanHostOut(u) == u.attached /\ u.config # 0 /\ OutCount(u) < OutSlots
HostOut(u, p) ==
    IF p = <<>> THEN u ELSE Notify([u EXCEPT !.out = @ \o Marked(p)])

CanHostIn(u) == u.attached /\ u.config # 0 /\ u.in # <<>>
HostIn(u) == Notify([u EXCEPT !.in = Tail(@)])

CanHostIntrIn(u) == u.attached /\ u.config # 0 /\ u.ep3 # <<>>
HostIntrIn(u) == Notify([u EXCEPT !.ep3 = <<>>])

--------------------------------------------------------------------------------
SetupPositions == 0..SetupLen

UsbfType ==
    [unit_en : BOOLEAN, top_latched : SUBSET TopEvents, top_en : SUBSET TopEvents,
     ep1_off : BOOLEAN, latched : SUBSET IntEvents, intmask : SUBSET IntEvents,
     ep1_req : BOOLEAN, address : Nat, config : Nat, desc_ok : BOOLEAN,
     setup_pos : SetupPositions, ctrl_pending : BOOLEAN,
     done : Seq({"ok", "stall"}),
     out : Seq([b : Byte, last : BOOLEAN]), in_stage : Seq(Byte),
     in : Seq(Seq(Byte)), ep3_stage : Seq(Byte), ep3 : Seq(Seq(Byte)),
     attached : BOOLEAN, irq : BOOLEAN]

\* The limits of the buffers
UsbfBounds(u) ==
    /\ OutCount(u) <= OutSlots
    /\ Len(u.in) <= InSlots
    /\ Len(u.ep3) <= 1
    /\ Len(u.in_stage) <= MaxPacket
    /\ Len(u.ep3_stage) <= MaxPacket
================================================================================
