------------------------------- MODULE UsbfMachine -----------------------------
(***************************************************************************)
(* The USB function controller with both its sides: a guest that may make  *)
(* any register access at any time, in any order, and a bus side that may  *)
(* make any usbf_host_* call.  The guest is not assumed to follow the      *)
(* protocol of usb.dll: the properties hold of the controller itself.      *)
(***************************************************************************)
EXTENDS Usbf

CONSTANTS
    TopEnChoices,  \* values the guest writes to USBF_TOP_EN and USBF_TOP_CLR
    MaskChoices,   \* events the guest masks
    KeepChoices,   \* events an USBF_INTCLRi write leaves alone
    Workloads      \* sets of groups of operations; a behaviour keeps to one

\* In a "watch" workload the data differ and got, taken and session are kept.
AllGroups == {"out", "in", "intr", "control", "power", "address", "irq", "watch"}

ASSUME MachineAssumption ==
    /\ Byte \subseteq Nat
    /\ TopEnChoices \subseteq SUBSET TopEvents
    /\ MaskChoices \subseteq SUBSET IntEvents
    /\ KeepChoices \subseteq SUBSET IntEvents
    /\ Workloads \subseteq SUBSET AllGroups

VARIABLES
    u,        \* usbf_state_t
    got,      \* the bytes the guest's last read of EP2 returned
    taken,    \* the packets the host's last IN token returned
    session,  \* changes when the FIFOs are flushed
    owed,     \* class requests accepted and not yet answered
    groups    \* the workload

vars == <<u, got, taken, session, owed, groups>>

Init ==
    /\ u = UsbfInit
    /\ got = <<>>
    /\ taken = <<>>
    /\ session = 0
    /\ owed = 0
    /\ groups \in Workloads

Observe == "watch" \in groups
\* Packets that show a byte lost, doubled or moved.
Ascending(p) == \A i, j \in DOMAIN p : i < j => p[i] < p[j]
Datum   == CHOOSE b \in Byte : TRUE
Data    == IF Observe THEN Byte ELSE {Datum}
DataPackets ==
    IF Observe THEN {p \in Packet : Ascending(p)}
    ELSE {[i \in 1..n |-> Datum] : n \in {0, MaxPacket}}

Bytes(out) == [i \in DOMAIN out |-> out[i].b]

\* An access leads to v; the bus side is told of v's completions at once.
Unreported == [u EXCEPT !.done = <<>>]
Becomes(v) ==
    /\ u' = v
    /\ owed' = owed - Len(v.done)
    /\ UNCHANGED groups

Plain(v)   == Becomes(v) /\ UNCHANGED <<got, taken, session>>
Flushes(v) == /\ Becomes(v)
              /\ session' = IF Observe THEN 1 - session ELSE session
              /\ UNCHANGED <<got, taken>>

--------------------------------------------------------------------------------
(* The guest.                                                              *)

GuestReadsOut ==
    /\ "out" \in groups
    /\ \/ \E n \in 1..MaxPacket :
            /\ got' = IF Observe /\ u.out # <<>>
                      THEN SubSeq(Bytes(u.out), 1, DmaRxCount(u, n)) ELSE got
            /\ Becomes(DmaRx(Unreported, n))
       \/ /\ got' = IF Observe /\ u.out # <<>>
                    THEN SubSeq(Bytes(u.out), 1, 1) ELSE got
          /\ Becomes(ReadOutFifo(Unreported))
    /\ UNCHANGED <<taken, session>>

GuestFillsIn ==
    \/ /\ "in" \in groups
       /\ \/ \E p \in DataPackets : Plain(DmaTx(Unreported, p))
          \/ Plain(ClearEp1Fill(Unreported))
          \/ \E b \in BOOLEAN : Plain(WriteEp1Ctrl(Unreported, b))
    \/ /\ "intr" \in groups
       /\ \E b \in Data : Plain(WriteEp3Fifo(Unreported, b))

GuestCommits ==
    \E eps \in SUBSET {0, 1, 3} :
        /\ 0 \in eps => "control" \in groups
        /\ 1 \in eps => "in" \in groups
        /\ 3 \in eps => "intr" \in groups
        /\ Plain(Commit(Unreported, eps))

GuestServesSetup ==
    /\ "control" \in groups
    /\ Plain(ReadSetupFifo(Unreported)) \/ Plain(Ep0Stall(Unreported))

GuestHandlesIrq ==
    /\ "irq" \in groups
    /\ \/ \E bits \in TopEnChoices :
            Plain(WriteTopClr(Unreported, bits)) \/ Plain(WriteTopEn(Unreported, bits))
       \/ \E i \in 1..3, bits \in MaskChoices : Plain(WriteIntMask(Unreported, i, bits))
       \/ \E i \in 1..3, keep \in KeepChoices : Plain(WriteIntClr(Unreported, i, keep))

GuestPowers ==
    /\ "power" \in groups
    /\ \/ \E b \in BOOLEAN :
            Plain(WriteUnitEn(Unreported, b)) \/ Plain(WriteDesc(Unreported, b))
       \/ {"in", "irq"} \subseteq groups /\ Plain(WriteEp1Off(Unreported))
       \/ Flushes(ResetPulse(Unreported))
       \/ Flushes(UsbfReset(Unreported))

--------------------------------------------------------------------------------
(* The bus.                                                                *)

HostPlugs ==
    \E b \in BOOLEAN :
        IF b = u.attached THEN Plain(HostAttach(Unreported, b))
        ELSE IF b THEN Plain(HostAttach(Unreported, b))
        ELSE Flushes(HostAttach(Unreported, b))

HostResets ==
    /\ u.attached
    /\ Flushes(HostBusReset(Unreported))

HostConfigures ==
    \E n \in {0, 1} :
        \/ "address" \in groups /\ Plain(SetAddress(Unreported, n))
        \/ Plain(SetConfiguration(Unreported, n))

HostRequests ==
    /\ "control" \in groups
    /\ LET v == ClassRequest(Unreported) IN
       /\ u' = v
       /\ owed' = owed + (IF ControlAccepted(u) THEN 1 ELSE 0) - Len(v.done)
    /\ UNCHANGED <<got, taken, session, groups>>

HostSends ==
    /\ "out" \in groups
    /\ CanHostOut(u)
    /\ \E p \in DataPackets : Plain(HostOut(Unreported, p))

HostTakes ==
    \/ /\ CanHostIn(u)
       /\ taken' = IF Observe THEN <<Head(u.in)>> ELSE taken
       /\ Becomes(HostIn(Unreported))
       /\ UNCHANGED <<got, session>>
    \/ /\ CanHostIntrIn(u)
       /\ Plain(HostIntrIn(Unreported))

Guest == \/ GuestReadsOut \/ GuestFillsIn \/ GuestCommits \/ GuestServesSetup
         \/ GuestHandlesIrq \/ GuestPowers
Host  == \/ HostPlugs \/ HostResets \/ HostConfigures \/ HostRequests
         \/ HostSends \/ HostTakes

Next == Guest \/ Host
Spec == Init /\ [][Next]_vars

--------------------------------------------------------------------------------
(* Properties.                                                             *)

TypeOK ==
    /\ u \in UsbfType
    /\ UsbfBounds(u)
    /\ got \in Seq(Byte)
    /\ taken \in Seq(Seq(Byte))
    /\ session \in {0, 1}
    /\ groups \in Workloads

(***************************************************************************)
(* The interrupt level the machine was last told of is the level of the    *)
(* registers now: no register write, read with a side effect or bus event  *)
(* changes usbf_irq_pending without usbf_notify.  An event that raises the *)
(* level unnoticed would leave the guest's transfer waiting for ever.      *)
(***************************************************************************)
IrqLineCurrent == u.irq = IrqPending(u)

(***************************************************************************)
(* Every class request the controller accepted is answered through         *)
(* ctrl_done exactly once, or is still with the guest: resets, unplugging, *)
(* a second request and the guest's own commit or stall neither lose an    *)
(* answer nor give two.                                                    *)
(***************************************************************************)
AnsweredOnce == owed = IF u.ctrl_pending THEN 1 ELSE 0

(***************************************************************************)
(* Nothing of one attachment is left for the next: while no host is        *)
(* attached there is no OUT data, no request, no address and no            *)
(* configuration.                                                          *)
(***************************************************************************)
NothingLeftWhenDetached ==
    ~u.attached => /\ u.out = <<>> /\ ~u.ctrl_pending
                   /\ u.address = 0 /\ u.config = 0

(***************************************************************************)
(* The bulk OUT endpoint is a pipe of bytes from the bus to the guest,     *)
(* over any mixture of DMA and FIFO-port reads, and the bulk IN endpoint a *)
(* pipe of packets from the guest to the bus, in the watched workloads.    *)
(***************************************************************************)
Watched(q) == IF Observe THEN q ELSE <<>>
OutPipe == INSTANCE Pipe WITH Item <- Byte, q <- Watched(Bytes(u.out)), last <- got
InPipe  == INSTANCE Pipe WITH Item <- Packet, q <- Watched(u.in), last <- taken

EndpointsArePipes == OutPipe!Spec /\ InPipe!Spec
================================================================================
