------------------------------ MODULE DockMachine ------------------------------
(***************************************************************************)
(* The serial dock at work: the latch (SerialDock), the keyboard with its  *)
(* user (Stowaway, src/ui_stowaway.c) or the receive FIFO of the bridge,   *)
(* and a guest.  One turn of the main loop (machine_be300.c) is a slice of *)
(* guest instructions, the user interface's events, be300_pcconnect_poll,  *)
(* and the bridge's tick; pc says which is next.                           *)
(*                                                                         *)
(* The bridge is module SerialBridge; here only the number n of bytes it   *)
(* shows to the UART matters.  A mode restricts the environment and never  *)
(* the code: in "latch" the guest uses the latch in every way and nobody   *)
(* types; in "orderly" a user types, the guest only enables the line and   *)
(* acknowledges, and the driver of the keyboard moves its modem lines and  *)
(* resets its FIFO when it may.                                            *)
(***************************************************************************)
EXTENDS SerialDock, FiniteSets

CONSTANTS
    Keys,        \* keys of the host's keyboard
    KeyValue,    \* [Keys -> values]: stowaway_keys.def
    ValueOrder,  \* the values in the order of their numbers
    Modes,       \* [kind, guest] pairs; a behaviour keeps to one
    MaxTyped,    \* key events
    MaxRx,       \* bytes in the bridge's FIFO
    MaxResets    \* resets of the CPU, for each kind

ModeType == [kind : {"cable", "keyboard"}, guest : {"latch", "orderly"}]

ASSUME DockAssumption ==
    /\ KeyValue \in [Keys -> [code : Codes, fn : BOOLEAN]]
    /\ ValueOrder \in Seq([code : Codes, fn : BOOLEAN])
    /\ \A key \in Keys : KeyValue[key] \in {ValueOrder[i] : i \in 1..Len(ValueOrder)}
    /\ Modes \subseteq ModeType
    /\ MaxTyped \in Nat /\ MaxRx \in Nat /\ MaxResets \in [{"cable", "keyboard"} -> Nat]

VARIABLES d, k, n, held, typed, got, resets, pc, mode
vars == <<d, k, n, held, typed, got, resets, pc, mode>>

Init ==
    /\ mode \in Modes
    /\ d = DockInit(mode.kind)
    /\ k = KbdReset(0)
    /\ n = 0
    /\ held = {}
    /\ typed = 0
    /\ got = 0
    /\ resets = 0
    /\ pc = "slice"

\* An operation of the keyboard ends; what it signalled reaches the latch
\* (be300_stowaway_signal_uart_irq).
Kbd(c) ==
    /\ k' = [c EXCEPT !.sig = FALSE]
    /\ d' = IF c.sig THEN RaiseModem(d) ELSE d

--------------------------------------------------------------------------------
(* The guest.                                                              *)

Slice == pc = "slice" /\ UNCHANGED <<pc, held, typed, mode>>
Latch(e) == d' = e /\ UNCHANGED <<k, n, got, resets>>
LatchFree == mode.guest = "latch"

GuestLooks   == Slice /\ Latch(DockLooked(d))
GuestPccard  == Slice /\ LatchFree /\ Latch(PccardSeen(d))
GuestEdge    == Slice /\ LatchFree /\ Latch([d EXCEPT !.edge = FALSE])
GuestLive    == Slice /\ (~d.live \/ LatchFree) /\ Latch(SetLive(d, ~d.live))
GuestMask    == Slice /\ LatchFree
                      /\ \E mask \in SUBSET Subs : Latch(IrqUpdate([d EXCEPT !.mask = mask]))
GuestAcks    == Slice /\ \E bits \in IF LatchFree THEN SUBSET Causes ELSE {Causes} :
                             Latch(EventAck(d, bits))
GuestStatus ==
    /\ Slice /\ LatchFree
    /\ \E ack \in SUBSET Subs, mask \in {d.mask, Subs, {}} :
         /\ d' = StatusWrite(d, k, ack, mask)
         /\ k' = KbdStatusWrite(d, k, ack, mask)
    /\ UNCHANGED <<n, got, resets>>

\* KjCMU (devices/nand_window.c); the bridge loses its queues
GuestResetsCpu ==
    /\ Slice
    /\ resets < MaxResets[d.kind]
    /\ resets' = resets + 1
    /\ d' = CpuReset(d)
    /\ k' = KbdReset(k.fnrefs)
    /\ n' = 0
    /\ UNCHANGED got

\* the UART's receive register and FIFO reset on the cable
GuestReadsCable ==
    /\ Slice /\ d.kind = "cable"
    /\ n' \in {0, n - 1} \cap Nat
    /\ UNCHANGED <<d, k, got, resets>>

\* the UART's own interrupt (pcconnect_signal_uart_irq)
UartSignals ==
    /\ Slice /\ d.kind = "cable" /\ d.cable
    /\ Latch(UartIrqReady(d))

Keyboard == Slice /\ d.kind = "keyboard" /\ UNCHANGED <<n, resets>>

GuestPops ==
    /\ Keyboard
    /\ k.rx # <<>>
    /\ Kbd(KbdPop(k))
    /\ got' = IF IsKey(Head(k.rx)) THEN Head(k.rx).n ELSE got

\* An orderly driver lets the probe's answer arrive before it resets the FIFO,
\* moves DTR and RTS together when it powers down, and only then, and raises
\* RTS with an empty FIFO.
Orderly == mode.guest = "orderly"
GuestClears ==
    /\ Keyboard
    /\ Orderly => ~k.ackp
    /\ Kbd(KbdClear(k))
    /\ UNCHANGED got
GuestLines ==
    /\ Keyboard
    /\ \E dtr \in BOOLEAN, rts \in BOOLEAN :
         /\ Orderly => /\ rts /\ ~k.rts => dtr /\ k.rx = <<>>
                       /\ k.dtr /\ ~dtr => k.rts /\ ~rts /\ ~k.ackp
                       /\ rts => dtr
         /\ Kbd(KbdModemControl(k, dtr, rts))
    /\ UNCHANGED got
GuestWaits  == Keyboard /\ Kbd(KbdModemWait(k)) /\ UNCHANGED got
GuestConfig == Keyboard /\ LatchFree /\ Kbd(KbdPortConfig(k)) /\ UNCHANGED got
GuestDelta  == Keyboard /\ k.delta /\ Kbd(KbdTakeDelta(k)) /\ UNCHANGED got

SliceEnds == pc = "slice" /\ pc' = "ui" /\ UNCHANGED <<d, k, n, held, typed, got, resets, mode>>

Guest == \/ GuestLooks \/ GuestPccard \/ GuestEdge \/ GuestLive \/ GuestMask
         \/ GuestAcks \/ GuestStatus \/ GuestResetsCpu \/ GuestReadsCable
         \/ UartSignals \/ GuestPops \/ GuestClears \/ GuestLines \/ GuestWaits
         \/ GuestConfig \/ GuestDelta

--------------------------------------------------------------------------------
(* The user interface (ui_stowaway_key_event, ui_stowaway_release_keys),   *)
(* the poll and the tick.                                                  *)

Ui == pc = "ui" /\ d.kind = "keyboard" /\ UNCHANGED <<n, got, resets, pc, mode>>
SameValue(key) == {x \in held : KeyValue[x] = KeyValue[key]}

KeyDown ==
    /\ Ui /\ ~LatchFree
    /\ \E key \in Keys \ held :
         /\ held' = held \cup {key}
         /\ IF SameValue(key) = {} THEN typed < MaxTyped /\ typed' = typed + 1
                                        /\ Kbd(PressMapped(k, KeyValue[key], typed + 1))
                                   ELSE UNCHANGED <<d, k, typed>>

KeyUp ==
    /\ Ui
    /\ \E key \in held :
         /\ held' = held \ {key}
         /\ IF SameValue(key) = {key} THEN typed < MaxTyped /\ typed' = typed + 1
                                           /\ Kbd(ReleaseMapped(k, KeyValue[key], typed + 1))
                                      ELSE UNCHANGED <<d, k, typed>>

\* The keyboard once the first i values have been looked at; every value that
\* some key still holds down is released.
Released[i \in 0..Len(ValueOrder)] ==
    IF i = 0 THEN k
    ELSE IF \E x \in held : KeyValue[x] = ValueOrder[i]
    THEN ReleaseMapped(Released[i - 1], ValueOrder[i], typed + 1)
    ELSE Released[i - 1]

FocusLost ==
    /\ Ui
    /\ held # {} /\ typed < MaxTyped
    /\ held' = {}
    /\ typed' = typed + 1
    /\ Kbd(Released[Len(ValueOrder)])

(***************************************************************************)
(* be300_pcconnect_poll.  Counting the bytes of the bridge lets it release *)
(* more of them, with a wake when there were none.                         *)
(***************************************************************************)
Bytes == IF d.kind = "keyboard" THEN Len(k.rx) ELSE n
Counted(e, m) == IF n = 0 /\ m > 0 THEN UartIrqReady(e) ELSE e

Poll ==
    /\ pc = "ui"
    /\ pc' = "tick"
    /\ LET e == DockCheck(d, k) IN
       IF d.kind = "keyboard"
       THEN d' = PollLevel(e, Bytes) /\ UNCHANGED n
       ELSE \E m \in IF e.docked THEN n..MaxRx ELSE {n} :
              n' = m /\ d' = PollLevel(Counted(e, m), m)
    /\ k' = KbdCheck(d, k)
    /\ UNCHANGED <<held, typed, got, resets, mode>>

\* pcconnect_bridge_tick
Tick ==
    /\ pc = "tick"
    /\ pc' = "slice"
    /\ \E m \in IF d.kind = "cable" /\ d.cable THEN n..MaxRx ELSE {n} :
         n' = m /\ d' = Counted(d, m)
    /\ UNCHANGED <<k, held, typed, got, resets, mode>>

\* the deadline of the insertion passes
TimePasses ==
    /\ d.armed /\ ~d.due
    /\ d' = [d EXCEPT !.due = TRUE]
    /\ UNCHANGED <<k, n, held, typed, got, resets, pc, mode>>

Next == Guest \/ SliceEnds \/ KeyDown \/ KeyUp \/ FocusLost \/ Poll \/ Tick \/ TimePasses

\* The loop turns and time passes.
Loop == SliceEnds \/ Poll \/ Tick
Fairness == WF_vars(Loop) /\ WF_vars(TimePasses)
Spec == Init /\ [][Next]_vars /\ Fairness

--------------------------------------------------------------------------------
(* Properties.                                                             *)

(***************************************************************************)
(* The line the CPU sees is the latch's condition, after every operation   *)
(* of guest, user, loop and keyboard.                                      *)
(***************************************************************************)
DockLineCurrent == d.irq = IrqWanted(d)

(***************************************************************************)
(* A modem interrupt always has its cause in AA001054: the guest's handler *)
(* is never sent to an event register that reads nothing.                  *)
(***************************************************************************)
ModemHasCause == "modem" \in d.pending => d.events = Causes

(***************************************************************************)
(* The cable is inserted in two stages: when the guest acknowledges the    *)
(* socket event the modem event is pending, and on an enabled line it is   *)
(* an edge of its own.                                                     *)
(***************************************************************************)
SocketTaken == "socket" \in d.pending /\ "socket" \notin d'.pending /\ d'.docked
StagedInsertion ==
    [][SocketTaken => "modem" \in d'.pending /\ (d'.irq => d'.edge)]_vars

(***************************************************************************)
(* A byte that the keyboard makes available raises the modem event, and    *)
(* with the line live an edge for the guest, even if the line was up.      *)
(***************************************************************************)
NewByteIsAnEdge ==
    [][Len(k'.rx) > Len(k.rx) =>
         "modem" \in d'.pending /\ (d'.irq => d'.edge)]_vars

(***************************************************************************)
(* Fn is held for no more than the chords that are: once the user has let  *)
(* every key go the dock does not hold Fn down.                            *)
(***************************************************************************)
Chords == {KeyValue[x] : x \in {y \in held : KeyValue[y].fn}}
FnNeverStuck == k.fnrefs <= Cardinality(Chords)

(***************************************************************************)
(* With an orderly driver the guest reads keys in the order of typing,     *)
(* across probes, flow control, full rings and resets.                     *)
(***************************************************************************)
InTypingOrder ==
    Orderly => LET q == k.rx \o k.pend
                   KeysOf == {i \in 1..Len(q) : IsKey(q[i])} IN
               \A i, j \in KeysOf : got <= q[i].n /\ (i <= j => q[i].n <= q[j].n)

(***************************************************************************)
(* After a reset of the CPU the guest sees the cable inserted again.       *)
(***************************************************************************)
InsertedAgain == d.armed ~> d.docked
================================================================================
