-------------------------------- MODULE Companion ------------------------------
(***************************************************************************)
(* One interrupt source of the companion chip at a time, its guest driver  *)
(* and the host: the touch panel, the buttons, the CompactFlash socket or  *)
(* the jacket's socket, as source says.  latch holds the source's word and *)
(* the level the CPU sees; the machine's loop runs Tick.                   *)
(***************************************************************************)
EXTENDS Piu, Girq

CONSTANTS
    Keys,           \* the buttons other than the power switch
    Sources,        \* the sources to look at
    Drivers,        \* what drives the touch panel: "ce", "battery" or "other"
    MaxPlugs        \* insertions and ejections of a run

ASSUME CompanionAssumption ==
    /\ Sources \subseteq {"touch", "keys", "card", "jacket"}
    /\ Drivers \subseteq {"ce", "battery", "other"} /\ MaxPlugs \in Nat

VARIABLES
    source, driver, latch,
    piu, seen,                  \* the touch panel; what its handler has read
    buttons, phase, view, late, \* the buttons; the handler's progress and its view
    card, plugs, owed,          \* the socket; an insertion nobody has been told of
    jacket
vars == <<source, driver, latch, piu, seen, buttons, phase, view, late, card,
          plugs, owed, jacket>>
touchVars  == <<piu, seen>>
keyVars    == <<buttons, phase, view, late>>
cardVars   == <<card, plugs, owed>>
Stays      == UNCHANGED <<source, driver>>
TouchOnly  == Stays /\ source = "touch" /\ UNCHANGED <<keyVars, cardVars, jacket>>
KeysOnly   == Stays /\ source = "keys" /\ UNCHANGED <<touchVars, cardVars, jacket>>
CardOnly   == Stays /\ source = "card" /\ UNCHANGED <<touchVars, keyVars, jacket>>
JacketOnly == Stays /\ source = "jacket" /\ UNCHANGED <<touchVars, keyVars, cardVars>>

Lined(l, want) == [l EXCEPT !.line = want]
Words == {{}, {2}, {3}, Bits}

Init ==
    /\ source \in Sources
    /\ driver \in IF source = "touch" THEN Drivers ELSE {"none"}
    /\ latch \in [out : BOOLEAN, word : {{}, Bits}, line : {FALSE}]
    /\ source \in {"touch", "keys"} => latch.out /\ latch.word = Bits
    /\ piu = PiuReset(FALSE)
    /\ seen = {}
    /\ buttons = SourceEnabled(NoButtons, latch)
    /\ phase = "idle" /\ view = {} /\ late = FALSE
    /\ card = NoCard /\ plugs = 0 /\ owed = FALSE
    /\ jacket \in IF source = "jacket" THEN {[NoJacket EXCEPT !.card = i] : i \in BOOLEAN}
                  ELSE {NoJacket}

--------------------------------------------------------------------------------
(***************************************************************************)
(* The touch panel.  Every access to its registers looks at the line again *)
(* but the read of the A/D port's result.                                  *)
(***************************************************************************)
PiuAccess(q) == piu' = q /\ latch' = Lined(latch, PiuPending(q) /\ LineLive(latch))

HostTouches ==
    /\ TouchOnly /\ UNCHANGED seen
    /\ \E down \in BOOLEAN : PiuAccess(SetTouch(piu, down))
TouchTick    == TouchOnly /\ PiuAccess(SetTouch(piu, piu.down)) /\ UNCHANGED seen
TimePasses   == /\ TouchOnly /\ piu.armed /\ ~piu.ripe
                /\ piu' = [piu EXCEPT !.ripe = TRUE] /\ UNCHANGED <<latch, seen>>

Kept == IF driver = "other" THEN {"seqen", "atstart"} ELSE {"seqen", "atstart", "atstop"}
Battery == {"seqen", "adport"}

GuestStarts  == /\ TouchOnly /\ piu.ctl = {}
                /\ PiuAccess(WriteCnt(WriteInt(piu, Events, Events), Kept, FALSE, TRUE))
                /\ UNCHANGED seen
GuestReads   == /\ TouchOnly /\ latch.line /\ seen = {}
                /\ PiuAccess(PiuTick(piu)) /\ seen' = piu'.pend
GuestAcks    == /\ TouchOnly /\ seen \cap Events # {}
                /\ PiuAccess(WriteInt(piu, IF "lost" \in seen THEN seen \cup Coordinate ELSE seen,
                                      piu.mask))
                /\ seen' = IF "lost" \in seen THEN {"restart"} ELSE {}
\* After lost data both pages are cleared and the sequencer is started again.
GuestRestarts == /\ TouchOnly /\ "restart" \in seen
                 /\ PiuAccess(WriteCnt(piu, piu.ctl, FALSE, TRUE)) /\ seen' = {}
\* The battery driver borrows the converter (PIUMODE 01) and gives it back.
BatteryScans == /\ TouchOnly /\ driver = "battery" /\ piu.ctl = Kept
                /\ PiuAccess(WriteCnt(piu, Battery, FALSE, TRUE)) /\ UNCHANGED seen
BatteryReads == /\ TouchOnly /\ piu.ctl = Battery /\ piu' = PiuTick(piu)
                /\ UNCHANGED <<latch, seen>>
BatteryDone  == /\ TouchOnly /\ driver = "battery" /\ piu.ctl = Battery
                /\ PiuAccess(WriteCnt(piu, Kept, FALSE, TRUE)) /\ UNCHANGED seen
GuestTouch   == GuestStarts \/ GuestReads \/ GuestAcks \/ GuestRestarts

\* Software without Windows CE's habits: it scans without PADATSTOP or by hand,
\* stops, resets, leaves the converter off and masks the line.
OtherStops == /\ TouchOnly /\ driver = "other" /\ piu.ctl # {} /\ seen = {} /\ UNCHANGED seen
              /\ \E rst, adc \in BOOLEAN : PiuAccess(WriteCnt(piu, {}, rst, adc))
OtherScans == /\ TouchOnly /\ driver = "other" /\ seen = {} /\ UNCHANGED seen
              /\ \E adc \in BOOLEAN : PiuAccess(WriteCnt(piu, {"seqen", "scanstart"}, FALSE, adc))
OtherMasks == /\ TouchOnly /\ driver = "other" /\ UNCHANGED <<piu, seen>>
              /\ LET m == [latch EXCEPT !.out = ~@]
                 IN latch' = Lined(m, PiuPending(piu) /\ LineLive(m))

TouchNext == \/ HostTouches \/ TouchTick \/ TimePasses \/ GuestTouch
             \/ BatteryScans \/ BatteryReads \/ BatteryDone
             \/ OtherStops \/ OtherScans \/ OtherMasks

--------------------------------------------------------------------------------
(***************************************************************************)
(* The buttons and the OAL's handler: it disables the source, the driver   *)
(* samples the bitmap, InterruptDone writes 0x30, 0x04 and 0x0C.  Every    *)
(* write to AA000014 acknowledges first.                                   *)
(***************************************************************************)
ButtonsAre(b, l) == buttons' = b /\ latch' = Lined(l, ButtonLine(b))

HostPresses ==
    /\ KeysOnly
    /\ \E keys \in SUBSET Keys, power \in BOOLEAN :
         /\ keys # buttons.keys \/ power # buttons.power
         /\ ButtonsAre(SetButtons(buttons, keys, power), latch)
         /\ late' = (late \/ (phase \in {"sampled", "done1", "done2"} /\ keys # buttons.keys))
    /\ UNCHANGED <<phase, view>>

WriteWord14(w) ==
    LET m == [latch EXCEPT !.word = w]
    IN ButtonsAre(SourceEnabled(AckKeyboard(buttons), m), m)

OalMasks   == /\ KeysOnly /\ phase = "idle" /\ latch.line /\ WriteWord14({2})
              /\ phase' = "masked" /\ UNCHANGED <<view, late>>
DriverSamples == /\ KeysOnly /\ phase = "masked" /\ view' = buttons.keys /\ late' = FALSE
                 /\ phase' = "sampled" /\ UNCHANGED <<buttons, latch>>
OalDone    == /\ KeysOnly
              /\ \/ phase = "sampled" /\ WriteWord14({}) /\ phase' = "done1"
                 \/ phase = "done1" /\ WriteWord14({2}) /\ phase' = "done2"
                 \/ phase = "done2" /\ WriteWord14(Bits) /\ phase' = "idle"
              /\ UNCHANGED <<view, late>>
\* AA000008: the other writes that refresh every line.
KeysGated  == /\ KeysOnly /\ UNCHANGED <<phase, view, late>>
              /\ LET m == [latch EXCEPT !.out = ~@]
                 IN ButtonsAre(SourceEnabled(buttons, m), m)
KeysNext   == HostPresses \/ OalMasks \/ DriverSamples \/ OalDone \/ KeysGated

--------------------------------------------------------------------------------
(***************************************************************************)
(* The CompactFlash socket.                                                *)
(***************************************************************************)
CardIs(k, l)  == card' = k /\ latch' = Lined(l, GiuSource(k) /\ LineLive(l))
CardQuiet(k)  == card' = k /\ UNCHANGED latch
NoPlug        == UNCHANGED <<plugs, owed>>

HotPlug ==
    /\ CardOnly /\ plugs < MaxPlugs /\ plugs' = plugs + 1
    /\ \/ ~card.in /\ CardIs(Insert(card), latch) /\ owed' = TRUE
       \/ card.in /\ CardIs(Eject(card), latch) /\ owed' = FALSE
\* As if the loop sampled the card and left the line alone.
CardTick_NoLine ==
    /\ CardOnly /\ NoPlug
    /\ \E r \in BOOLEAN : CardQuiet([card EXCEPT !.request = card.in /\ r])
CardTick ==
    /\ CardOnly /\ NoPlug
    /\ \E r \in BOOLEAN : CardIs([card EXCEPT !.request = card.in /\ r], latch)
\* AA000010 and AA000014 clear irq_pending before the word changes.
WriteWord10 ==
    /\ CardOnly /\ NoPlug
    /\ \E w \in Words : CardIs(ClearCardIrq(card), [latch EXCEPT !.word = w])
OtherWord14 == CardOnly /\ NoPlug /\ CardIs(ClearCardIrq(card), latch)
CardGated   == CardOnly /\ NoPlug /\ CardIs(card, [latch EXCEPT !.out = ~@])
ReadsCause  ==
    /\ CardOnly /\ CardIs(ConsumeChange(card), latch)
    /\ owed' = (owed /\ ~StateCause(card)) /\ UNCHANGED plugs
WritesCause ==
    /\ CardOnly /\ NoPlug
    /\ \E clears \in BOOLEAN : CardIs(IF clears THEN ClearCardIrq(card) ELSE card, latch)
UsesCard    ==
    /\ CardOnly /\ NoPlug /\ card.in
    /\ \E r \in BOOLEAN : CardIs([card EXCEPT !.request = r], latch)
\* The companion page and the attribute window do not look at the line.
CompanionAck == CardOnly /\ NoPlug /\ CardQuiet(ClearCardIrq(card))
ResetsCard   == CardOnly /\ NoPlug /\ card.in /\ CardQuiet([card EXCEPT !.request = FALSE])
TakesEdge    == CardOnly /\ NoPlug /\ EdgeRead(card) /\ CardQuiet(EdgeTaken(card))
CardNext == \/ HotPlug \/ CardTick \/ WriteWord10 \/ OtherWord14 \/ CardGated
            \/ ReadsCause \/ WritesCause \/ UsesCard \/ CompanionAck \/ ResetsCard
            \/ TakesEdge

--------------------------------------------------------------------------------
(***************************************************************************)
(* The jacket's socket.                                                    *)
(***************************************************************************)
JacketIs(k, l) == jacket' = LineLooked(k, l) /\ latch' = Lined(l, JacketLine(k, l))
JacketTick ==
    /\ JacketOnly
    /\ \E r \in BOOLEAN : JacketIs([jacket EXCEPT !.request = jacket.card /\ r], latch)
JacketInserted == JacketOnly /\ ~jacket.card /\ JacketIs([jacket EXCEPT !.card = TRUE], latch)
JacketRegs ==
    /\ JacketOnly
    /\ \/ \E up, enable \in BOOLEAN :
            JacketIs([jacket EXCEPT !.up = up, !.enable = enable], latch)
       \/ JacketIs(CauseRead(jacket), latch)
       \/ jacket.on /\ JacketIs(Looked(jacket), latch)
UsesJacketCard ==
    /\ JacketOnly /\ \E r \in BOOLEAN :
          JacketIs([jacket EXCEPT !.request = IF CardUp(jacket) THEN r ELSE @], latch)
JacketWord ==
    /\ JacketOnly
    /\ \/ \E w \in Words : JacketIs(jacket, [latch EXCEPT !.word = w])
       \/ JacketIs(jacket, [latch EXCEPT !.out = ~@])
\* The power bit and the mask are on the companion page, which looks at no line.
JacketPage ==
    /\ JacketOnly /\ UNCHANGED latch
    /\ \E on, unmask \in BOOLEAN : jacket' = [jacket EXCEPT !.on = on, !.unmask = unmask]
JacketNext == JacketTick \/ JacketInserted \/ JacketRegs \/ UsesJacketCard \/ JacketWord \/ JacketPage

Next == TouchNext \/ KeysNext \/ CardNext \/ JacketNext

Fairness == /\ WF_vars(TouchTick) /\ WF_vars(TimePasses) /\ WF_vars(GuestTouch)
            /\ WF_vars(BatteryScans) /\ WF_vars(BatteryDone)
Spec == Init /\ [][Next]_vars /\ Fairness

--------------------------------------------------------------------------------
Wanted == CASE source = "touch"  -> PiuPending(piu) /\ LineLive(latch)
            [] source = "keys"   -> buttons.pending /\ LineLive(latch)
            [] source = "card"   -> GiuSource(card) /\ LineLive(latch)
            [] source = "jacket" -> JacketLine(jacket, latch)

(***************************************************************************)
(* The CPU's line follows its source.  A request of the buttons or of the  *)
(* card in the socket is never held back: whenever the source's condition  *)
(* holds the line is up, whichever of the many paths (host, loop, guest)   *)
(* brought it about (be300_cf_irq_update, button_irq_update); two guest    *)
(* writes take the card's request away and leave the line up.  And once in *)
(* a turn of the loop the line of the touch panel, of the socket and of    *)
(* the jacket is what its source asks for, whatever the accesses that do   *)
(* not look at it have changed (be300_touch_tick,                          *)
(* be300_vrc4173_update_cf_irq).                                           *)
(***************************************************************************)
LineFollowsSource ==
    [][ /\ source \in {"keys", "card"} /\ Wanted' => latch'.line
        /\ TouchTick \/ CardTick \/ JacketTick => latch'.line = Wanted' ]_vars

(***************************************************************************)
(* No change is lost.  An insertion stays pending, through any clearing of *)
(* irq_pending in the OAL's handlers, until a read of AA00A03C reports it  *)
(* (cf_giu_source_bits).  With the button handler at rest, the keys it     *)
(* knows differ from the keys down only while the change is pending, or    *)
(* because the change came between its sample and its last write to        *)
(* AA000014, each of which acknowledges (button_ack_keyboard_source).      *)
(***************************************************************************)
ChangesKept ==
    /\ owed => GiuSource(card) /\ StateCause(card)
    /\ source = "keys" /\ phase = "idle" /\ view # buttons.keys => buttons.pending \/ late

(***************************************************************************)
(* Driven as Windows CE drives it, a sequencer that watches the pen never  *)
(* reports as its latest contact change one that is over: the pending one, *)
(* or the queued one, is the pen's position (raise_penchg).                *)
(***************************************************************************)
LastContactTrue ==
    driver = "ce" /\ piu.state \in {"wait"} \cup Scanning /\ "penchg" \in piu.pend
        => piu.down = (IF piu.queued = "none" THEN piu.penstc ELSE piu.queued = "down")

(***************************************************************************)
(* A pen that is held down is sampled again after every acknowledgement,   *)
(* through full pages, lost data and the battery driver's use of the       *)
(* converter (queue_coordinate_sample, refresh_control_state).             *)
(***************************************************************************)
HeldPenIsSampled ==
    (driver \in {"ce", "battery"} /\ piu.down /\ piu.ctl = Kept /\ piu.pend \cap Pages = {})
        ~> (~piu.down \/ piu.pend \cap Pages # {})
================================================================================
