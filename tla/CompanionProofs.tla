------------------------------ MODULE CompanionProofs ----------------------------
(***************************************************************************)
(* The companion chip's peripherals, for every value of their constants:   *)
(* no change of a button, a card or the pen is lost or told wrongly, and   *)
(* the CPU's line follows its source (Companion); the timers that reset    *)
(* the machine do so only when due (Resets); the alarm and the battery     *)
(* keep time (Clocks); the wave output plays what the driver fills its     *)
(* buffers with, in order (Aiu); the serial EEPROM answers every           *)
(* transaction as it should, wherever the one before was cut off (Eeprom). *)
(***************************************************************************)
EXTENDS Companion, Resets, Clocks, Aiu, Eeprom, SequenceTheorems, NaturalsInduction,
        WellFoundedInduction, TLAPS

--------------------------------------------------------------------------------
(***************************************************************************)
(* The buttons and the two sockets: the types of their records.            *)
(***************************************************************************)
Latch   == [out : BOOLEAN, word : SUBSET Bits, line : BOOLEAN]
Buttons == [keys : SUBSET Keys, power : BOOLEAN, pending : BOOLEAN, on : BOOLEAN,
            live : BOOLEAN]
Card    == [in : BOOLEAN, irq : BOOLEAN, change : BOOLEAN, edge : BOOLEAN,
            request : BOOLEAN]
Jacket  == [card : BOOLEAN, up : BOOLEAN, on : BOOLEAN, enable : BOOLEAN,
            unmask : BOOLEAN, cause : BOOLEAN, request : BOOLEAN]
SourcesTypeOK == /\ latch \in Latch /\ buttons \in Buttons /\ card \in Card
                 /\ jacket \in Jacket /\ source \in Sources

\* The keys the handler has sampled are those down, unless a change came
\* after the sample; with the handler at rest one may be pending instead.
KeysKnown ==
    /\ phase \in {"idle", "masked", "sampled", "done1", "done2"}
    /\ phase \in {"sampled", "done1", "done2"} /\ view # buttons.keys => late
    /\ phase = "idle" /\ view # buttons.keys => buttons.pending \/ late

\* The device's copies of the enables are current, and a request is never
\* held back.
LinesUp ==
    /\ source = "keys" => /\ buttons.on = Enabled(latch) /\ buttons.live = LineLive(latch)
                          /\ ButtonLine(buttons) => latch.line
    /\ source = "card" => (GiuSource(card) /\ LineLive(latch) => latch.line)

SocketsInv ==
    /\ SourcesTypeOK
    /\ owed => card.in /\ card.change
    /\ KeysKnown
    /\ LinesUp

WantedKeys == source = "keys" => Wanted = (buttons.pending /\ LineLive(latch))
WantedCard == source = "card" => Wanted = (GiuSource(card) /\ LineLive(latch))

LEMMA LinedProperties ==
    ASSUME NEW l \in Latch, NEW want \in BOOLEAN
    PROVE  /\ Lined(l, want) \in Latch /\ Lined(l, want).line = want
           /\ Enabled(Lined(l, want)) = Enabled(l)
           /\ LineLive(Lined(l, want)) = LineLive(l)
           /\ LineLive(l) \in BOOLEAN /\ Enabled(l) \in BOOLEAN
BY DEF Lined, Latch, Enabled, LineLive

LEMMA LatchWrites ==
    ASSUME NEW l \in Latch, NEW w \in SUBSET Bits
    PROVE  [l EXCEPT !.word = w] \in Latch /\ [l EXCEPT !.out = ~l.out] \in Latch
BY DEF Latch

--------------------------------------------------------------------------------
(* The buttons.                                                            *)

LEMMA ButtonProperties ==
    ASSUME NEW b \in Buttons, NEW l \in Latch
    PROVE  /\ SourceEnabled(b, l) \in Buttons /\ SourceEnabled(b, l).keys = b.keys
           /\ SourceEnabled(b, l).pending = b.pending
           /\ SourceEnabled(b, l).on = Enabled(l) /\ SourceEnabled(b, l).live = LineLive(l)
           /\ AckKeyboard(b) \in Buttons /\ AckKeyboard(b).keys = b.keys
           /\ ButtonLine(b) \in BOOLEAN
           /\ \A keys \in SUBSET Keys, power \in BOOLEAN :
                LET s == SetButtons(b, keys, power) IN
                /\ s \in Buttons /\ s.keys = keys /\ s.on = b.on /\ s.live = b.live
                /\ keys # b.keys => s.pending
                /\ b.pending => s.pending
<1>1. Enabled(l) \in BOOLEAN /\ LineLive(l) \in BOOLEAN
  BY DEF Enabled, LineLive, Latch
<1>2. /\ SourceEnabled(b, l) \in Buttons /\ SourceEnabled(b, l).keys = b.keys
      /\ SourceEnabled(b, l).pending = b.pending
      /\ SourceEnabled(b, l).on = Enabled(l) /\ SourceEnabled(b, l).live = LineLive(l)
  <2> DEFINE en == Enabled(l)
             li == LineLive(l)
  <2>1. en \in BOOLEAN /\ li \in BOOLEAN
    BY <1>1
  <2>2. SourceEnabled(b, l) = [b EXCEPT !.on = en, !.live = li]
    BY DEF SourceEnabled
  <2> HIDE DEF en, li
  <2>3. /\ [b EXCEPT !.on = en, !.live = li] \in Buttons
        /\ [b EXCEPT !.on = en, !.live = li].keys = b.keys
        /\ [b EXCEPT !.on = en, !.live = li].pending = b.pending
        /\ [b EXCEPT !.on = en, !.live = li].on = en
        /\ [b EXCEPT !.on = en, !.live = li].live = li
    BY <2>1 DEF Buttons
  <2> QED
    BY <2>2, <2>3 DEF en, li
<1>3. AckKeyboard(b) \in Buttons /\ AckKeyboard(b).keys = b.keys
  BY DEF AckKeyboard, Buttons
<1>4. ButtonLine(b) \in BOOLEAN
  BY DEF ButtonLine, Buttons
<1>5. ASSUME NEW keys \in SUBSET Keys, NEW power \in BOOLEAN
      PROVE  LET s == SetButtons(b, keys, power) IN
             /\ s \in Buttons /\ s.keys = keys /\ s.on = b.on /\ s.live = b.live
             /\ keys # b.keys => s.pending
             /\ b.pending => s.pending
  <2> DEFINE p == b.pending \/ /\ keys # b.keys \/ power # b.power
                               /\ ~PowerReleaseOnly(b, keys, power)
             s == [b EXCEPT !.keys = keys, !.power = power, !.pending = p]
  <2>1. p \in BOOLEAN /\ (keys # b.keys => p) /\ (b.pending => p)
    BY DEF PowerReleaseOnly, Buttons
  <2>2. SetButtons(b, keys, power) = s
    BY DEF SetButtons
  <2> HIDE DEF p
  <2>3. /\ s \in Buttons /\ s.keys = keys /\ s.on = b.on /\ s.live = b.live
        /\ s.pending = p
    BY <2>1 DEF Buttons
  <2> QED
    BY <2>1, <2>2, <2>3
<1> QED
  BY <1>2, <1>3, <1>4, <1>5

\* What a step of the buttons leaves for LinesUp.
LEMMA ButtonsLined ==
    ASSUME SocketsInv, KeysOnly, NEW b \in Buttons, NEW l \in Latch,
           b.on = Enabled(l), b.live = LineLive(l), ButtonsAre(b, l)
    PROVE  /\ SourcesTypeOK' /\ LinesUp' /\ buttons' = b /\ owed' = owed /\ card' = card
           /\ source' = "keys"
<1>1. /\ latch' = Lined(l, ButtonLine(b)) /\ buttons' = b
      /\ source = "keys" /\ source' = source /\ UNCHANGED <<card, plugs, owed, jacket>>
  BY DEF ButtonsAre, KeysOnly, Stays, cardVars
<1>2. ButtonLine(b) \in BOOLEAN
  BY ButtonProperties
<1>3. /\ latch' \in Latch /\ latch'.line = ButtonLine(b)
      /\ Enabled(latch') = Enabled(l) /\ LineLive(latch') = LineLive(l)
  BY <1>1, <1>2, LinedProperties
<1>4. SourcesTypeOK'
  BY <1>1, <1>3 DEF SocketsInv, SourcesTypeOK
<1>5. LinesUp'
  BY <1>1, <1>3 DEF LinesUp, Enabled, LineLive
<1> QED
  BY <1>1, <1>4, <1>5

LEMMA KeysStep ==
    ASSUME SocketsInv, KeysNext
    PROVE  SocketsInv'
<1>0. /\ latch \in Latch /\ buttons \in Buttons /\ KeysKnown /\ LinesUp
      /\ owed => card.in /\ card.change
  BY DEF SocketsInv, SourcesTypeOK
<1>1. CASE HostPresses
  <2>1. KeysOnly
    BY <1>1 DEF HostPresses
  <2>2. PICK keys \in SUBSET Keys, power \in BOOLEAN :
          /\ ButtonsAre(SetButtons(buttons, keys, power), latch)
          /\ late' = (late \/ (phase \in {"sampled", "done1", "done2"} /\ keys # buttons.keys))
    BY <1>1 DEF HostPresses
  <2> DEFINE b == SetButtons(buttons, keys, power)
  <2>3. /\ b \in Buttons /\ b.keys = keys /\ b.on = buttons.on /\ b.live = buttons.live
        /\ keys # buttons.keys => b.pending
        /\ buttons.pending => b.pending
    BY <1>0, ButtonProperties
  <2> HIDE DEF b
  <2>4. /\ b.on = Enabled(latch) /\ b.live = LineLive(latch) /\ ButtonsAre(b, latch)
    BY <1>0, <2>1, <2>2, <2>3 DEF LinesUp, KeysOnly, b
  <2>5. /\ SourcesTypeOK' /\ LinesUp' /\ buttons' = b /\ owed' = owed /\ card' = card
    BY <1>0, <2>1, <2>3, <2>4, ButtonsLined
  <2>6. KeysKnown'
    BY <1>0, <1>1, <2>2, <2>3, <2>5 DEF KeysKnown, HostPresses
  <2> QED
    BY <1>0, <2>5, <2>6 DEF SocketsInv
<1>2. ASSUME KeysOnly, NEW w \in SUBSET Bits, WriteWord14(w)
      PROVE  /\ SourcesTypeOK' /\ LinesUp' /\ owed' = owed /\ card' = card
             /\ buttons'.keys = buttons.keys
  <2> DEFINE m == [latch EXCEPT !.word = w]
             b == SourceEnabled(AckKeyboard(buttons), m)
  <2>1. m \in Latch
    BY <1>0, LatchWrites
  <2>2. ButtonsAre(b, m)
    BY <1>2 DEF WriteWord14
  <2> HIDE DEF m
  <2>3. /\ b \in Buttons /\ b.on = Enabled(m) /\ b.live = LineLive(m)
        /\ b.keys = buttons.keys
    <3>1. AckKeyboard(buttons) \in Buttons /\ AckKeyboard(buttons).keys = buttons.keys
      BY <1>0, ButtonProperties
    <3> DEFINE a == AckKeyboard(buttons)
    <3> HIDE DEF a
    <3>2. a \in Buttons /\ a.keys = buttons.keys
      BY <3>1 DEF a
    <3>3. /\ SourceEnabled(a, m) \in Buttons /\ SourceEnabled(a, m).keys = a.keys
          /\ SourceEnabled(a, m).on = Enabled(m) /\ SourceEnabled(a, m).live = LineLive(m)
      BY <2>1, <3>2, ButtonProperties
    <3> QED
      BY <3>2, <3>3 DEF a
  <2> HIDE DEF b
  <2> QED
    BY <1>2, <2>1, <2>2, <2>3, ButtonsLined
<1>3. CASE OalMasks
  <2>1. {2} \in SUBSET Bits /\ KeysOnly /\ WriteWord14({2}) /\ phase' = "masked"
    BY <1>3 DEF OalMasks, Bits
  <2> QED
    BY <1>0, <1>2, <2>1 DEF SocketsInv, KeysKnown
<1>4. CASE DriverSamples
  <2>1. /\ UNCHANGED <<buttons, latch, card, owed, jacket, source>>
        /\ view' = buttons.keys /\ phase' = "sampled"
    BY <1>4 DEF DriverSamples, KeysOnly, Stays, cardVars
  <2>2. SourcesTypeOK' /\ LinesUp'
    BY <2>1 DEF SocketsInv, SourcesTypeOK, LinesUp
  <2>3. KeysKnown'
    BY <2>1 DEF KeysKnown
  <2> QED
    BY <1>0, <2>1, <2>2, <2>3 DEF SocketsInv
<1>5. CASE OalDone
  <2>1. /\ KeysOnly /\ UNCHANGED <<view, late>>
        /\ \/ phase = "sampled" /\ WriteWord14({}) /\ phase' = "done1"
           \/ phase = "done1" /\ WriteWord14({2}) /\ phase' = "done2"
           \/ phase = "done2" /\ WriteWord14(Bits) /\ phase' = "idle"
    BY <1>5 DEF OalDone
  <2>2. {} \in SUBSET Bits /\ {2} \in SUBSET Bits /\ Bits \in SUBSET Bits
    BY DEF Bits
  <2>3. /\ SourcesTypeOK' /\ LinesUp' /\ owed' = owed /\ card' = card
        /\ buttons'.keys = buttons.keys
    BY <1>2, <2>1, <2>2
  <2>4. KeysKnown'
    BY <1>0, <2>1, <2>3 DEF KeysKnown
  <2> QED
    BY <1>0, <2>3, <2>4 DEF SocketsInv
<1>6. CASE KeysGated
  <2> DEFINE m == [latch EXCEPT !.out = ~latch.out]
             b == SourceEnabled(buttons, m)
  <2>1. m \in Latch
    BY <1>0, LatchWrites, {2} \in SUBSET Bits DEF Bits
  <2>2. ButtonsAre(b, m) /\ KeysOnly /\ UNCHANGED <<phase, view, late>>
    BY <1>6 DEF KeysGated
  <2> HIDE DEF m
  <2>3. /\ b \in Buttons /\ b.on = Enabled(m) /\ b.live = LineLive(m)
        /\ b.keys = buttons.keys /\ b.pending = buttons.pending
    BY <1>0, <2>1, ButtonProperties
  <2> HIDE DEF b
  <2>4. /\ SourcesTypeOK' /\ LinesUp' /\ buttons' = b /\ owed' = owed /\ card' = card
    BY <2>1, <2>2, <2>3, ButtonsLined
  <2>5. KeysKnown'
    BY <1>0, <2>2, <2>3, <2>4 DEF KeysKnown
  <2> QED
    BY <1>0, <2>4, <2>5 DEF SocketsInv
<1> QED
  BY <1>1, <1>3, <1>4, <1>5, <1>6 DEF KeysNext

--------------------------------------------------------------------------------
(* The socket, and the steps of the other sources.                         *)

LEMMA CardStep ==
    ASSUME SocketsInv, CardNext
    PROVE  SocketsInv'
<1>0. /\ latch \in Latch /\ card \in Card /\ KeysKnown /\ LinesUp
      /\ owed => card.in /\ card.change
  BY DEF SocketsInv, SourcesTypeOK
<1>1. /\ CardOnly /\ source = "card" /\ source' = "card"
      /\ UNCHANGED <<buttons, phase, view, late, jacket>>
  BY DEF CardNext, HotPlug, CardTick, WriteWord10, OtherWord14, CardGated, ReadsCause,
         WritesCause, UsesCard, CompanionAck, ResetsCard, TakesEdge, CardOnly, Stays, keyVars
<1>2. KeysKnown'
  BY <1>0, <1>1 DEF KeysKnown
<1>3. ASSUME NEW k \in Card, NEW l \in Latch, CardIs(k, l),
             owed' => k.in /\ k.change
      PROVE  SocketsInv'
  <2> DEFINE want == GiuSource(k) /\ LineLive(l)
  <2>2. want \in BOOLEAN /\ card' = k /\ latch' = Lined(l, want)
    BY <1>3 DEF CardIs, GiuSource, LineLive, Card, Latch
  <2>3. latch' \in Latch /\ latch'.line = want /\ LineLive(latch') = LineLive(l)
    BY <2>2, LinedProperties
  <2>4. LinesUp'
    BY <1>1, <2>2, <2>3 DEF LinesUp, LineLive
  <2>5. SourcesTypeOK'
    BY <1>1, <2>2, <2>3 DEF SocketsInv, SourcesTypeOK
  <2> QED
    BY <1>2, <1>3, <2>2, <2>4, <2>5 DEF SocketsInv
<1>4. ASSUME NEW k \in Card, CardQuiet(k), GiuSource(k) => GiuSource(card),
             owed' => k.in /\ k.change
      PROVE  SocketsInv'
  <2>1. card' = k /\ latch' = latch
    BY <1>4 DEF CardQuiet
  <2>2. LinesUp'
    BY <1>0, <1>1, <1>4, <2>1 DEF LinesUp, LineLive
  <2>3. SourcesTypeOK'
    BY <1>1, <2>1 DEF SocketsInv, SourcesTypeOK
  <2> QED
    BY <1>2, <1>4, <2>1, <2>2, <2>3 DEF SocketsInv
\* Each function of the card, and what it keeps of an insertion.
<1>5. /\ Insert(card) \in Card /\ Insert(card).in /\ Insert(card).change
      /\ Eject(card) \in Card
      /\ ClearCardIrq(card) \in Card /\ ClearCardIrq(card).in = card.in
      /\ ClearCardIrq(card).change = card.change
      /\ GiuSource(ClearCardIrq(card)) => GiuSource(card)
      /\ ConsumeChange(card) \in Card
      /\ EdgeTaken(card) \in Card /\ EdgeTaken(card).in = card.in
      /\ EdgeTaken(card).change = card.change
      /\ GiuSource(EdgeTaken(card)) => GiuSource(card)
  BY <1>0 DEF Insert, Eject, ClearCardIrq, ConsumeChange, EdgeTaken, GiuSource, Card
<1>6. \A r \in BOOLEAN :
        LET k == [card EXCEPT !.request = r] IN
        /\ k \in Card /\ k.in = card.in /\ k.change = card.change
        /\ ~r => (GiuSource(k) => GiuSource(card))
  BY <1>0 DEF Card, GiuSource
<1>7. CASE HotPlug
  <2>1. \/ CardIs(Insert(card), latch) /\ owed' = TRUE
        \/ CardIs(Eject(card), latch) /\ owed' = FALSE
    BY <1>7 DEF HotPlug
  <2> QED
    BY <1>0, <1>3, <1>5, <2>1
<1>8. CASE CardTick
  <2>1. PICK r \in BOOLEAN : CardIs([card EXCEPT !.request = card.in /\ r], latch)
    BY <1>8 DEF CardTick
  <2> DEFINE s == card.in /\ r
  <2>2. s \in BOOLEAN
    BY <1>0 DEF Card
  <2>3. CardIs([card EXCEPT !.request = s], latch) /\ owed' = owed
    BY <1>8, <2>1 DEF CardTick, NoPlug
  <2> HIDE DEF s
  <2> QED
    BY <1>0, <1>3, <1>6, <2>2, <2>3
<1>9. CASE WriteWord10
  <2>1. PICK w \in Words : CardIs(ClearCardIrq(card), [latch EXCEPT !.word = w])
    BY <1>9 DEF WriteWord10
  <2>2. w \in SUBSET Bits /\ owed' = owed
    BY <1>9 DEF WriteWord10, NoPlug, Words, Bits
  <2> DEFINE l == [latch EXCEPT !.word = w]
  <2>3. l \in Latch /\ CardIs(ClearCardIrq(card), l)
    BY <1>0, <2>1, <2>2, LatchWrites
  <2> HIDE DEF l
  <2> QED
    BY <1>0, <1>3, <1>5, <2>2, <2>3
<1>10. CASE OtherWord14
  BY <1>0, <1>3, <1>5, <1>10 DEF OtherWord14, NoPlug
<1>11. CASE CardGated
  <2> DEFINE l == [latch EXCEPT !.out = ~latch.out]
  <2>1. l \in Latch /\ CardIs(card, l) /\ owed' = owed
    BY <1>0, <1>11 DEF Latch, CardGated, NoPlug
  <2> HIDE DEF l
  <2> QED
    BY <1>0, <1>3, <2>1
<1>12. CASE ReadsCause
  <2>1. CardIs(ConsumeChange(card), latch) /\ owed' = (owed /\ ~StateCause(card))
    BY <1>12 DEF ReadsCause
  <2>2. ~owed'
    BY <1>0, <2>1 DEF StateCause
  <2> QED
    BY <1>0, <1>3, <1>5, <2>1, <2>2
<1>13. CASE WritesCause
  <2>1. CardIs(ClearCardIrq(card), latch) \/ CardIs(card, latch)
    BY <1>13 DEF WritesCause
  <2>2. owed' = owed
    BY <1>13 DEF WritesCause, NoPlug
  <2> QED
    BY <1>0, <1>3, <1>5, <2>1, <2>2
<1>14. CASE UsesCard
  <2>1. PICK r \in BOOLEAN : CardIs([card EXCEPT !.request = r], latch)
    BY <1>14 DEF UsesCard
  <2>2. owed' = owed
    BY <1>14 DEF UsesCard, NoPlug
  <2> QED
    BY <1>0, <1>3, <1>6, <2>1, <2>2
<1>15. CASE CompanionAck
  BY <1>0, <1>4, <1>5, <1>15 DEF CompanionAck, NoPlug
<1>16. CASE ResetsCard
  BY <1>0, <1>4, <1>6, <1>16 DEF ResetsCard, NoPlug
<1>17. CASE TakesEdge
  BY <1>0, <1>4, <1>5, <1>17 DEF TakesEdge, NoPlug
<1> QED
  BY <1>7, <1>8, <1>9, <1>10, <1>11, <1>12, <1>13, <1>14, <1>15, <1>16, <1>17 DEF CardNext

LEMMA JacketProperties ==
    ASSUME NEW k \in Jacket, NEW l \in Latch
    PROVE  /\ LineLooked(k, l) \in Jacket /\ JacketLine(k, l) \in BOOLEAN
           /\ JacketLine(LineLooked(k, l), l) = JacketLine(k, l)
<1> DEFINE c == k.cause \/ (CardUp(k) /\ k.request)
           m == [k EXCEPT !.cause = c]
<1>1. c \in BOOLEAN
  BY DEF CardUp, Jacket
<1>2. Looked(k) = m
  BY DEF Looked
<1> HIDE DEF c
<1>3. /\ m \in Jacket /\ m.cause = c /\ m.card = k.card /\ m.on = k.on /\ m.up = k.up
      /\ m.request = k.request /\ m.enable = k.enable /\ m.unmask = k.unmask
  BY <1>1 DEF Jacket
<1>4. Looked(m).cause = c
  BY <1>3 DEF Looked, CardUp, Jacket, c
<1>5. /\ JacketLine(k, l) = (k.on /\ k.enable /\ c /\ k.unmask /\ Enabled(l) /\ LineLive(l))
      /\ JacketLine(m, l) = (k.on /\ k.enable /\ c /\ k.unmask /\ Enabled(l) /\ LineLive(l))
  BY <1>2, <1>3, <1>4 DEF JacketLine
<1>6. JacketLine(k, l) \in BOOLEAN
  BY <1>1, <1>5 DEF Enabled, LineLive, Latch, Jacket
<1>7. LineLooked(k, l) \in {k, m}
  BY <1>2 DEF LineLooked
<1> QED
  BY <1>3, <1>5, <1>6, <1>7

LEMMA JacketStep ==
    ASSUME SocketsInv, JacketNext
    PROVE  SocketsInv'
<1>0. /\ latch \in Latch /\ jacket \in Jacket
  BY DEF SocketsInv, SourcesTypeOK
<1>1. /\ source = "jacket" /\ source' = "jacket"
      /\ UNCHANGED <<buttons, phase, view, late, card, owed>>
  BY DEF JacketNext, JacketTick, JacketInserted, JacketRegs, UsesJacketCard, JacketWord,
         JacketPage, JacketOnly, Stays, keyVars, cardVars
<1>2. ASSUME jacket' \in Jacket, latch' \in Latch PROVE SocketsInv'
  BY <1>1, <1>2 DEF SocketsInv, SourcesTypeOK, KeysKnown, LinesUp
<1>3. ASSUME NEW k \in Jacket, NEW l \in Latch, JacketIs(k, l)
      PROVE  SocketsInv'
  BY <1>2, <1>3, JacketProperties, LinedProperties DEF JacketIs
<1>4. CASE JacketTick
  <2>1. PICK r \in BOOLEAN : JacketIs([jacket EXCEPT !.request = jacket.card /\ r], latch)
    BY <1>4 DEF JacketTick
  <2> DEFINE s == jacket.card /\ r
  <2>2. s \in BOOLEAN
    BY <1>0 DEF Jacket
  <2>3. JacketIs([jacket EXCEPT !.request = s], latch)
    BY <2>1
  <2> HIDE DEF s
  <2>4. [jacket EXCEPT !.request = s] \in Jacket
    BY <1>0, <2>2 DEF Jacket
  <2> QED
    BY <1>0, <1>3, <2>3, <2>4
<1>5. CASE JacketInserted
  <2>1. [jacket EXCEPT !.card = TRUE] \in Jacket
    BY <1>0 DEF Jacket
  <2> QED
    BY <1>0, <1>3, <1>5, <2>1 DEF JacketInserted
<1>6. CASE JacketRegs
  <2>1. \A up, enable \in BOOLEAN : [jacket EXCEPT !.up = up, !.enable = enable] \in Jacket
    BY <1>0 DEF Jacket
  <2>2. CauseRead(jacket) \in Jacket /\ Looked(jacket) \in Jacket
    BY <1>0 DEF Jacket, CauseRead, Looked, CardUp
  <2> QED
    BY <1>0, <1>3, <1>6, <2>1, <2>2 DEF JacketRegs
<1>7. CASE UsesJacketCard
  <2>1. PICK r \in BOOLEAN :
          JacketIs([jacket EXCEPT !.request = IF CardUp(jacket) THEN r ELSE @], latch)
    BY <1>7 DEF UsesJacketCard
  <2> DEFINE s == IF CardUp(jacket) THEN r ELSE jacket.request
  <2>2. s \in BOOLEAN
    BY <1>0 DEF Jacket
  <2>3. JacketIs([jacket EXCEPT !.request = s], latch)
    BY <2>1
  <2> HIDE DEF s
  <2>4. [jacket EXCEPT !.request = s] \in Jacket
    BY <1>0, <2>2 DEF Jacket
  <2> QED
    BY <1>0, <1>3, <2>3, <2>4
<1>8. CASE JacketWord
  <2>1. \/ \E w \in Words : JacketIs(jacket, [latch EXCEPT !.word = w])
        \/ JacketIs(jacket, [latch EXCEPT !.out = ~latch.out])
    BY <1>8 DEF JacketWord
  <2>2. /\ \A w \in Words : [latch EXCEPT !.word = w] \in Latch
        /\ [latch EXCEPT !.out = ~latch.out] \in Latch
    BY <1>0 DEF Latch, Words, Bits
  <2> QED
    BY <1>0, <1>3, <2>1, <2>2
<1>9. CASE JacketPage
  BY <1>0, <1>2, <1>9 DEF JacketPage, Jacket
<1> QED
  BY <1>4, <1>5, <1>6, <1>7, <1>8, <1>9 DEF JacketNext

\* The touch panel changes nothing of the others but the level.
LEMMA TouchLeaves ==
    ASSUME SocketsInv, TouchNext
    PROVE  SocketsInv'
<1>1. /\ source = "touch" /\ source' = "touch"
      /\ UNCHANGED <<buttons, phase, view, late, card, owed, jacket>>
  BY DEF TouchNext, HostTouches, TouchTick, TimePasses, GuestTouch, GuestStarts, GuestReads,
         GuestAcks, GuestRestarts, BatteryScans, BatteryReads, BatteryDone, OtherStops,
         OtherScans, OtherMasks, TouchOnly, Stays, keyVars, cardVars
<1>2. latch \in Latch
  BY DEF SocketsInv, SourcesTypeOK
<1>3. \A q : PiuPending(q) \in BOOLEAN
  BY DEF PiuPending
<1>4. ASSUME NEW q, PiuAccess(q) PROVE latch' \in Latch
  <2> DEFINE want == PiuPending(q) /\ LineLive(latch)
  <2>1. want \in BOOLEAN /\ latch' = Lined(latch, want)
    BY <1>2, <1>3, <1>4 DEF PiuAccess, LineLive, Latch
  <2> QED
    BY <1>2, <2>1, LinedProperties
<1>5. CASE OtherMasks
  <2> DEFINE m == [latch EXCEPT !.out = ~latch.out]
             want == PiuPending(piu) /\ LineLive(m)
  <2>1. m \in Latch /\ latch' = Lined(m, want)
    BY <1>2, <1>5 DEF OtherMasks, Latch
  <2> HIDE DEF m
  <2>2. want \in BOOLEAN
    BY <1>3, <2>1 DEF LineLive, Latch
  <2>3. latch' \in Latch
    BY <2>1, <2>2, LinedProperties
  <2> QED
    BY <1>1, <2>3 DEF SocketsInv, SourcesTypeOK, KeysKnown, LinesUp
<1>6. CASE UNCHANGED latch
  BY <1>1, <1>6 DEF SocketsInv, SourcesTypeOK, KeysKnown, LinesUp
<1>7. (\E q : PiuAccess(q)) \/ OtherMasks \/ UNCHANGED latch
  BY DEF TouchNext, HostTouches, TouchTick, TimePasses, GuestTouch, GuestStarts, GuestReads,
         GuestAcks, GuestRestarts, BatteryScans, BatteryReads, BatteryDone, OtherStops, OtherScans
<1>8. CASE \E q : PiuAccess(q)
  BY <1>1, <1>4, <1>8 DEF SocketsInv, SourcesTypeOK, KeysKnown, LinesUp
<1> QED
  BY <1>5, <1>6, <1>7, <1>8

--------------------------------------------------------------------------------
LEMMA SocketsStart == Init => SocketsInv
<1> SUFFICES ASSUME Init PROVE SocketsInv
  OBVIOUS
<1>1. latch \in Latch /\ card \in Card /\ jacket \in Jacket /\ source \in Sources
  <2>1. latch \in Latch /\ source \in Sources
    BY DEF Init, Latch, Bits
  <2>2. card \in Card
    BY DEF Init, Card, NoCard
  <2>3. NoJacket \in Jacket
    BY DEF Jacket, NoJacket
  <2>4. \A i \in BOOLEAN : [NoJacket EXCEPT !.card = i] \in Jacket
    BY <2>3 DEF Jacket
  <2>5. jacket \in {NoJacket} \cup {[NoJacket EXCEPT !.card = i] : i \in BOOLEAN}
    BY DEF Init
  <2> QED
    BY <2>1, <2>2, <2>3, <2>4, <2>5
<1>2. NoButtons \in Buttons /\ NoButtons.keys = {} /\ ~NoButtons.pending
  BY DEF NoButtons, Buttons
<1> DEFINE n == NoButtons
<1> HIDE DEF n
<1>3. n \in Buttons /\ n.keys = {} /\ ~n.pending /\ buttons = SourceEnabled(n, latch)
  BY <1>2 DEF n, Init
<1>4. /\ buttons \in Buttons /\ buttons.keys = {} /\ ~buttons.pending
      /\ buttons.on = Enabled(latch) /\ buttons.live = LineLive(latch)
  BY <1>1, <1>3, ButtonProperties
<1>5. KeysKnown
  BY <1>4 DEF KeysKnown, Init
<1>6. LinesUp
  BY <1>4 DEF LinesUp, ButtonLine, GiuSource, NoCard, Init
<1> QED
  BY <1>1, <1>4, <1>5, <1>6 DEF SocketsInv, SourcesTypeOK, Init

LEMMA SocketsStep == SocketsInv /\ [Next]_vars => SocketsInv'
<1>1. ASSUME SocketsInv, UNCHANGED vars PROVE SocketsInv'
  BY <1>1 DEF vars, SocketsInv, SourcesTypeOK, KeysKnown, LinesUp
<1> QED
  BY <1>1, TouchLeaves, KeysStep, CardStep, JacketStep DEF Next

(***************************************************************************)
(* For every set of buttons, every schedule of the host, of the loop and   *)
(* of the guest's handlers: an insertion stays pending until the guest has *)
(* read of it, and a change of the keys the handler has not sampled is     *)
(* pending or fell in the window between the sample and the last           *)
(* acknowledgement.                                                        *)
(***************************************************************************)
THEOREM ChangesAreKept == Spec => []ChangesKept
<1>1. SocketsInv => ChangesKept
  BY DEF SocketsInv, SourcesTypeOK, Card, KeysKnown, ChangesKept, GiuSource, StateCause
<1> QED
  BY <1>1, SocketsStart, SocketsStep, PTL DEF Spec

--------------------------------------------------------------------------------
\* A request of the buttons or of the card is up, and a turn of the loop
\* settles the other lines.
LEMMA LineIsUp ==
    ASSUME SocketsInv, source \in {"keys", "card"}, Wanted
    PROVE  latch.line
<1>1. CASE source = "keys"
  <2>1. buttons.pending /\ LineLive(latch)
    BY <1>1 DEF Wanted
  <2>2. ButtonLine(buttons)
    BY <1>1, <2>1 DEF SocketsInv, LinesUp, ButtonLine, LineLive, Enabled, Bits
  <2> QED
    BY <1>1, <2>2 DEF SocketsInv, LinesUp
<1>2. CASE source = "card"
  BY <1>2 DEF Wanted, SocketsInv, LinesUp
<1> QED
  BY <1>1, <1>2

LEMMA LoopSettles ==
    ASSUME SocketsInv, TouchTick \/ CardTick \/ JacketTick
    PROVE  latch'.line = Wanted'
<1>0. latch \in Latch /\ card \in Card /\ jacket \in Jacket
  BY DEF SocketsInv, SourcesTypeOK
<1>1. CASE TouchTick
  <2> DEFINE q == SetTouch(piu, piu.down)
             want == PiuPending(q) /\ LineLive(latch)
  <2>1. piu' = q /\ latch' = Lined(latch, want) /\ source' = "touch"
    BY <1>1 DEF TouchTick, PiuAccess, TouchOnly, Stays
  <2> HIDE DEF q
  <2>2. want \in BOOLEAN
    BY <1>0 DEF PiuPending, LineLive, Latch
  <2>3. latch'.line = want /\ LineLive(latch') = LineLive(latch)
    BY <1>0, <2>1, <2>2, LinedProperties
  <2>4. Wanted' = (PiuPending(piu') /\ LineLive(latch'))
    BY <2>1 DEF Wanted, LineLive, PiuPending
  <2> QED
    BY <2>1, <2>3, <2>4
<1>2. CASE CardTick
  <2>1. PICK r \in BOOLEAN : CardIs([card EXCEPT !.request = card.in /\ r], latch)
    BY <1>2 DEF CardTick
  <2> DEFINE k == [card EXCEPT !.request = card.in /\ r]
             want == GiuSource(k) /\ LineLive(latch)
  <2>2. card' = k /\ latch' = Lined(latch, want) /\ source' = "card"
    BY <1>2, <2>1 DEF CardTick, CardIs, CardOnly, Stays
  <2>3. want \in BOOLEAN
    BY <1>0 DEF GiuSource, LineLive, Latch, Card
  <2> HIDE DEF k
  <2>4. latch'.line = want /\ LineLive(latch') = LineLive(latch)
    BY <1>0, <2>2, <2>3, LinedProperties
  <2>5. Wanted' = (GiuSource(card') /\ LineLive(latch'))
    BY <2>2 DEF Wanted, LineLive, GiuSource
  <2> QED
    BY <2>2, <2>4, <2>5
<1>3. CASE JacketTick
  <2>1. PICK r \in BOOLEAN : JacketIs([jacket EXCEPT !.request = jacket.card /\ r], latch)
    BY <1>3 DEF JacketTick
  <2> DEFINE s == jacket.card /\ r
             k == [jacket EXCEPT !.request = s]
             want == JacketLine(k, latch)
  <2>2. s \in BOOLEAN /\ source' = "jacket"
    BY <1>0, <1>3 DEF Jacket, JacketTick, JacketOnly, Stays
  <2>3. jacket' = LineLooked(k, latch) /\ latch' = Lined(latch, want)
    BY <2>1 DEF JacketIs
  <2> HIDE DEF s
  <2>4. k \in Jacket
    BY <1>0, <2>2 DEF Jacket
  <2> HIDE DEF k
  <2>5. want \in BOOLEAN /\ JacketLine(jacket', latch) = want
    BY <1>0, <2>3, <2>4, JacketProperties
  <2>6. latch'.line = want /\ LineLive(latch') = LineLive(latch)
        /\ Enabled(latch') = Enabled(latch)
    BY <1>0, <2>3, <2>5, LinedProperties
  <2>7. JacketLine(jacket', latch') = JacketLine(jacket', latch)
    BY <2>6 DEF JacketLine
  <2>8. Wanted' = JacketLine(jacket', latch')
    BY <2>2 DEF Wanted, JacketLine, LineLive, Enabled, Looked, CardUp
  <2> QED
    BY <2>5, <2>6, <2>7, <2>8
<1> QED
  BY <1>1, <1>2, <1>3

(***************************************************************************)
(* Whatever path changes a source: a request of the buttons or of the card *)
(* in the socket has its line up after every step, and a turn of the       *)
(* machine's loop gives the line of the touch panel, of the socket and of  *)
(* the jacket the level its source asks for.                               *)
(***************************************************************************)
THEOREM LinesFollow == Spec => LineFollowsSource
<1> DEFINE A == /\ source \in {"keys", "card"} /\ Wanted' => latch'.line
                /\ TouchTick \/ CardTick \/ JacketTick => latch'.line = Wanted'
<1>1. SocketsInv /\ SocketsInv' /\ [Next]_vars => [A]_vars
  <2> SUFFICES ASSUME SocketsInv, SocketsInv', Next PROVE A
    BY DEF A
  <2>1. source' = source
    BY DEF Next, TouchNext, HostTouches, TouchTick, TimePasses, GuestTouch, GuestStarts,
           GuestReads, GuestAcks, GuestRestarts, BatteryScans, BatteryReads, BatteryDone,
           OtherStops, OtherScans, OtherMasks, TouchOnly, KeysNext, HostPresses, OalMasks,
           DriverSamples, OalDone, KeysGated, KeysOnly, CardNext, HotPlug, CardTick,
           WriteWord10, OtherWord14, CardGated, ReadsCause, WritesCause, UsesCard,
           CompanionAck, ResetsCard, TakesEdge, CardOnly, JacketNext, JacketTick,
           JacketInserted, JacketRegs, UsesJacketCard, JacketWord, JacketPage, JacketOnly,
           Stays
  <2>2. source \in {"keys", "card"} /\ Wanted' => latch'.line
    <3>1. (source \in {"keys", "card"} /\ Wanted => latch.line)'
      BY LineIsUp, PTL
    <3> QED
      BY <2>1, <3>1
  <2> QED
    BY <2>2, LoopSettles
<1>2. Spec => []SocketsInv
  BY SocketsStart, SocketsStep, PTL DEF Spec
<1> QED
  BY <1>1, <1>2, PTL DEF Spec, LineFollowsSource

--------------------------------------------------------------------------------
(***************************************************************************)
(* The touch panel as Windows CE drives it.                                *)
(***************************************************************************)
PiuState == {"disable", "standby", "wait", "data", "interval"}
PiuRec == [ctl : SUBSET Controls, pend : SUBSET Events, mask : SUBSET Events,
           state : PiuState, penstc : BOOLEAN, queued : {"none", "down", "up"},
           down : BOOLEAN, valid : SUBSET Pages, next : Pages,
           armed : BOOLEAN, ripe : BOOLEAN, adc : BOOLEAN]
CeKept == {"seqen", "atstart", "atstop"}

\* The latest change the pending bit and the queue stand for.
Reported(p) == IF p.queued = "none" THEN p.penstc ELSE p.queued = "down"

Queueing(p) == p \in PiuRec /\ ("penchg" \notin p.pend => p.queued = "none")

\* Off, or watching: then only a pen that is down takes the sequencer out of
\* wait, and one that has not lost data has told of the pen's position.
Watching(p) ==
    /\ Queueing(p) /\ p.ctl = CeKept /\ p.adc
    /\ p.state # "disable"
    /\ p.state # "wait" => p.down
    /\ p.state # "standby" /\ "penchg" \in p.pend => p.down = Reported(p)
Contact(p) ==
    \/ Queueing(p) /\ p.ctl = {} /\ p.state = "disable" /\ p.pend = {}
    \/ Watching(p)

\* q differs from p in what a change of the pen does not concern.
SameContact(p, q) ==
    /\ q.ctl = p.ctl /\ q.adc = p.adc /\ q.down = p.down
    /\ q.penstc = p.penstc /\ q.queued = p.queued
    /\ "penchg" \in q.pend <=> "penchg" \in p.pend

LEMMA ArmKeeps ==
    ASSUME NEW p \in PiuRec
    PROVE  /\ Arm(p) \in PiuRec /\ SameContact(p, Arm(p)) /\ Arm(p).state = p.state
           /\ Disarm(p) \in PiuRec /\ SameContact(p, Disarm(p)) /\ Disarm(p).state = p.state
           /\ Disarm(p).pend = p.pend
BY DEF Arm, Disarm, PiuRec, SameContact

LEMMA StateKeeps ==
    ASSUME NEW p \in PiuRec, NEW s \in PiuState
    PROVE  LET q == [p EXCEPT !.state = s] IN
           /\ q \in PiuRec /\ SameContact(p, q) /\ q.state = s /\ q.pend = p.pend
BY DEF PiuRec, SameContact

LEMMA RaiseKeeps ==
    ASSUME NEW p, Queueing(p), NEW down \in BOOLEAN
    PROVE  LET q == RaisePenchg(p, down) IN
           /\ Queueing(q) /\ Reported(q) = down
           /\ q.ctl = p.ctl /\ q.adc = p.adc /\ q.down = p.down /\ q.state = p.state
<1>0. p \in PiuRec
  BY DEF Queueing
<1>1. CASE "penchg" \in p.pend
  <2> DEFINE n == IF down THEN "down" ELSE "up"
             q == [p EXCEPT !.queued = n]
  <2>1. n \in {"none", "down", "up"} /\ n # "none" /\ (n = "down" <=> down)
    OBVIOUS
  <2>2. RaisePenchg(p, down) = q
    BY <1>1 DEF RaisePenchg
  <2> HIDE DEF n
  <2>3. /\ q \in PiuRec /\ q.queued = n /\ q.pend = p.pend
        /\ q.ctl = p.ctl /\ q.adc = p.adc /\ q.down = p.down /\ q.state = p.state
    BY <1>0, <2>1 DEF PiuRec
  <2> HIDE DEF q
  <2>4. Reported(q) = down
    BY <2>1, <2>3 DEF Reported
  <2> QED
    BY <1>1, <2>2, <2>3, <2>4 DEF Queueing
<1>2. CASE "penchg" \notin p.pend
  <2> DEFINE s == p.pend \cup {"penchg"}
             q == [p EXCEPT !.penstc = down, !.pend = s]
  <2>1. s \in SUBSET Events /\ "penchg" \in s
    BY <1>0 DEF PiuRec, Events
  <2>2. RaisePenchg(p, down) = q
    BY <1>2 DEF RaisePenchg
  <2> HIDE DEF s
  <2>3. /\ q \in PiuRec /\ q.queued = p.queued /\ q.pend = s /\ q.penstc = down
        /\ q.ctl = p.ctl /\ q.adc = p.adc /\ q.down = p.down /\ q.state = p.state
    BY <1>0, <2>1 DEF PiuRec
  <2> HIDE DEF q
  <2> QED
    BY <1>2, <2>1, <2>2, <2>3 DEF Queueing, Reported
<1> QED
  BY <1>1, <1>2

LEMMA ClearKeeps ==
    ASSUME NEW p \in PiuRec
    PROVE  LET q == ClearCoordinates(p) IN
           q \in PiuRec /\ SameContact(p, q) /\ q.state = p.state
<1> DEFINE s == p.pend \ Coordinate
           m == [p EXCEPT !.pend = s, !.valid = {}, !.next = "page0"]
<1>1. s \in SUBSET Events /\ ("penchg" \in s <=> "penchg" \in p.pend)
  BY DEF PiuRec, Coordinate, Pages
<1>2. ClearCoordinates(p) = Disarm(m)
  BY DEF ClearCoordinates
<1> HIDE DEF s
<1>3. m \in PiuRec /\ SameContact(p, m) /\ m.state = p.state
  BY <1>1 DEF PiuRec, Pages, SameContact
<1> HIDE DEF m
<1> QED
  BY <1>2, <1>3, ArmKeeps DEF SameContact

LEMMA PenDownKeeps ==
    ASSUME NEW p, Queueing(p), p.ctl = CeKept, p.adc, p.state = "wait", p.down
    PROVE  Watching(SignalPenDown(p))
<1> DEFINE c == ClearCoordinates(p)
           e == [c EXCEPT !.state = "data"]
           d == Arm(e)
<1>1. c \in PiuRec /\ SameContact(p, c)
  BY ClearKeeps DEF Queueing
<1>2. SignalPenDown(p) = RaisePenchg(d, TRUE)
  BY DEF SignalPenDown, CeKept
<1> HIDE DEF c
<1>3. e \in PiuRec /\ SameContact(c, e) /\ e.state = "data"
  BY <1>1, StateKeeps DEF PiuState
<1> HIDE DEF e
<1>4. d \in PiuRec /\ SameContact(e, d) /\ d.state = "data"
  BY <1>3, ArmKeeps
<1> HIDE DEF d
<1>5. Queueing(d) /\ d.ctl = CeKept /\ d.adc /\ d.down
  BY <1>1, <1>3, <1>4 DEF Queueing, SameContact
<1> QED
  BY <1>2, <1>4, <1>5, RaiseKeeps, ZenonT(120) DEF Watching

LEMMA PenUpKeeps ==
    ASSUME NEW p, Queueing(p), p.ctl = CeKept, p.adc, ~p.down
    PROVE  Watching(SignalPenUp(p))
<1>0. p \in PiuRec /\ WaitPenEnabled(p)
  BY DEF WaitPenEnabled, CeKept, Queueing
<1> DEFINE e == [p EXCEPT !.state = "wait"]
           d == Disarm(e)
<1>1. e \in PiuRec /\ SameContact(p, e) /\ e.state = "wait"
  BY <1>0, StateKeeps DEF PiuState
<1>2. SignalPenUp(p) = RaisePenchg(d, FALSE)
  BY <1>0 DEF SignalPenUp, CeKept
<1> HIDE DEF e
<1>3. d \in PiuRec /\ SameContact(e, d) /\ d.state = "wait"
  BY <1>1, ArmKeeps
<1> HIDE DEF d
<1>4. Queueing(d) /\ d.ctl = CeKept /\ d.adc /\ ~d.down
  BY <1>1, <1>3 DEF Queueing, SameContact
<1> DEFINE r == RaisePenchg(d, FALSE)
<1>5. /\ Queueing(r) /\ Reported(r) = FALSE
      /\ r.ctl = d.ctl /\ r.adc = d.adc /\ r.down = d.down /\ r.state = d.state
  BY <1>4, RaiseKeeps, Zenon
<1>6. d.down = FALSE
  BY <1>4 DEF Queueing, PiuRec
<1> HIDE DEF d, r
<1>7. Watching(r)
  BY <1>3, <1>4, <1>5, <1>6 DEF Watching
<1> QED
  BY <1>2, <1>7 DEF r, d

LEMMA TickKeeps ==
    ASSUME NEW p, Contact(p)
    PROVE  Contact(PiuTick(p))
<1>0. p \in PiuRec
  BY DEF Contact, Watching, Queueing
<1>1. CASE ~(p.down /\ p.state \in Scanning /\ p.armed /\ p.ripe)
  BY <1>1 DEF PiuTick
<1>2. CASE p.down /\ p.state \in Scanning /\ p.armed /\ p.ripe
  <2>1. Watching(p)
    BY <1>2 DEF Contact, Scanning
  <2>2. CASE ~\E g \in Pages : PageFree(p, g)
    <3> DEFINE s == p.pend \cup {"lost"}
               e == [p EXCEPT !.pend = s, !.state = "standby"]
    <3>1. s \in SUBSET Events /\ ("penchg" \in s <=> "penchg" \in p.pend)
      BY <1>0 DEF PiuRec, Events, Coordinate
    <3>2. PiuTick(p) = Disarm(e)
      BY <1>2, <2>2 DEF PiuTick
    <3> HIDE DEF s
    <3>3. e \in PiuRec /\ SameContact(p, e) /\ e.state = "standby"
      BY <1>0, <3>1 DEF PiuRec, PiuState, SameContact
    <3> HIDE DEF e
    <3>4. Disarm(e) \in PiuRec /\ SameContact(p, Disarm(e)) /\ Disarm(e).state = "standby"
      BY <3>3, ArmKeeps DEF SameContact
    <3> QED
      BY <1>2, <2>1, <3>2, <3>4 DEF SameContact, Watching, Contact, Queueing
  <2>3. CASE \E g \in Pages : PageFree(p, g)
    <3> DEFINE g == IF PageFree(p, p.next) THEN p.next ELSE Other(p.next)
               s == p.pend \cup {g}
               v == p.valid \cup {g}
               o == Other(g)
               e == [p EXCEPT !.valid = v, !.next = o, !.pend = s, !.state = "interval"]
    <3>1. g \in Pages /\ o \in Pages
      BY <1>0 DEF PiuRec, Other, Pages
    <3>2. PiuTick(p) = Arm(e)
      BY <1>2, <2>3 DEF PiuTick
    <3> HIDE DEF g
    <3>3. s \in SUBSET Events /\ v \in SUBSET Pages
          /\ ("penchg" \in s <=> "penchg" \in p.pend)
      BY <1>0, <3>1 DEF PiuRec, Events, Coordinate, Pages
    <3> HIDE DEF s, v, o
    <3>4. e \in PiuRec /\ SameContact(p, e) /\ e.state = "interval"
      BY <1>0, <3>1, <3>3 DEF PiuRec, PiuState, SameContact
    <3> HIDE DEF e
    <3>5. Arm(e) \in PiuRec /\ SameContact(p, Arm(e)) /\ Arm(e).state = "interval"
      BY <3>4, ArmKeeps DEF SameContact
    <3> QED
      BY <1>2, <2>1, <3>2, <3>5
         DEF SameContact, Watching, Contact, Queueing, Scanning, Reported
  <2> QED
    BY <2>2, <2>3
<1> QED
  BY <1>1, <1>2

LEMMA RefreshKeeps ==
    ASSUME NEW p, Queueing(p), p.ctl = CeKept, p.adc,
           (p.state = "disable" /\ p.pend = {}) \/ Watching(p)
    PROVE  Watching(RefreshControl(p))
<1>0. p \in PiuRec
  BY DEF Queueing
<1>1. CASE p.state = "disable"
  <2> DEFINE q == [p EXCEPT !.state = "standby"]
             w == [q EXCEPT !.state = "wait"]
  <2>0. p.pend = {} /\ p.ctl # {}
    BY <1>1 DEF Watching, CeKept
  <2>1. q \in PiuRec /\ SameContact(p, q) /\ q.state = "standby" /\ q.pend = {}
    BY <1>0, <2>0, StateKeeps DEF PiuState
  <2>2. WaitPenEnabled(q)
    BY <2>1 DEF WaitPenEnabled, SameContact, CeKept
  <2>3. RefreshControl(p) = IF w.down /\ w.state = "wait" THEN SignalPenDown(w) ELSE w
    BY <1>1, <2>0, <2>1, <2>2 DEF RefreshControl
  <2> HIDE DEF q
  <2>4. w \in PiuRec /\ SameContact(q, w) /\ w.state = "wait" /\ w.pend = {}
    BY <2>1, StateKeeps DEF PiuState
  <2> HIDE DEF w
  <2>5. Queueing(w) /\ w.ctl = CeKept /\ w.adc
    BY <2>1, <2>4 DEF Queueing, SameContact
  <2>6. ~w.down => Watching(w)
    BY <2>4, <2>5 DEF Watching
  <2> QED
    BY <2>3, <2>4, <2>5, <2>6, PenDownKeeps
<1>2. CASE p.state = "standby"
  <2> DEFINE w == [p EXCEPT !.state = "wait"]
  <2>1. WaitPenEnabled(p) /\ p.down /\ Watching(p)
    BY <1>2 DEF WaitPenEnabled, CeKept, Watching
  <2>2. RefreshControl(p) = IF p.pend \cap Coordinate # {} THEN p
                            ELSE IF w.down /\ w.state = "wait" THEN SignalPenDown(w) ELSE w
    BY <1>2, <2>1 DEF RefreshControl
  <2>3. w \in PiuRec /\ SameContact(p, w) /\ w.state = "wait"
    BY <1>0, StateKeeps DEF PiuState
  <2> HIDE DEF w
  <2>4. Queueing(w) /\ w.ctl = CeKept /\ w.adc /\ w.down
    BY <2>1, <2>3 DEF Queueing, SameContact
  <2> QED
    BY <2>1, <2>2, <2>3, <2>4, PenDownKeeps
<1>3. CASE p.state \in {"wait", "data", "interval"}
  <2>1. WaitPenEnabled(p) /\ Watching(p)
    BY <1>3 DEF WaitPenEnabled, CeKept
  <2>2. RefreshControl(p) = IF p.down /\ p.state = "wait" THEN SignalPenDown(p) ELSE p
    BY <1>3, <2>1 DEF RefreshControl
  <2> QED
    BY <2>1, <2>2, PenDownKeeps
<1> QED
  BY <1>0, <1>1, <1>2, <1>3 DEF PiuRec, PiuState

LEMMA SetTouchKeeps ==
    ASSUME NEW p, Contact(p), NEW down \in BOOLEAN
    PROVE  Contact(SetTouch(p, down))
<1> DEFINE q == [p EXCEPT !.down = down]
<1>0. p \in PiuRec
  BY DEF Contact, Watching, Queueing
<1>1. /\ q \in PiuRec /\ q.down = down /\ q.ctl = p.ctl /\ q.adc = p.adc
      /\ q.state = p.state /\ q.pend = p.pend /\ q.queued = p.queued /\ q.penstc = p.penstc
      /\ q.armed = p.armed /\ q.ripe = p.ripe
  BY <1>0 DEF PiuRec
<1>2. SetTouch(p, down) = IF q.state = "wait" /\ down /\ ~p.down THEN SignalPenDown(q)
                          ELSE IF ~down /\ p.down THEN SignalPenUp(q) ELSE PiuTick(q)
  BY DEF SetTouch
<1> HIDE DEF q
<1>3. Queueing(q)
  BY <1>1 DEF Contact, Watching, Queueing
<1>4. CASE q.state = "wait" /\ down /\ ~p.down
  <2>1. p.ctl = CeKept /\ p.adc
    BY <1>1, <1>4 DEF Contact, Watching
  <2> QED
    BY <1>1, <1>2, <1>3, <1>4, <2>1, PenDownKeeps DEF Contact
<1>5. CASE ~down /\ p.down
  <2>1. SetTouch(p, down) = SignalPenUp(q)
    BY <1>2, <1>5
  <2>2. CASE p.ctl = CeKept /\ p.adc
    BY <1>1, <1>3, <1>5, <2>1, <2>2, PenUpKeeps DEF Contact
  <2>3. CASE p.ctl = {} /\ p.state = "disable" /\ p.pend = {}
    <3> DEFINE e == [q EXCEPT !.state = "disable"]
    <3>1. ~WaitPenEnabled(q) /\ q.state = "disable"
      BY <1>1, <2>3 DEF WaitPenEnabled
    <3>2. SignalPenUp(q) = Disarm(e)
      BY <3>1 DEF SignalPenUp, Scanning
    <3>3. e \in PiuRec /\ SameContact(q, e) /\ e.state = "disable" /\ e.pend = q.pend
      BY <1>1, StateKeeps DEF PiuState
    <3> HIDE DEF e
    <3>4. /\ Disarm(e) \in PiuRec /\ SameContact(e, Disarm(e))
          /\ Disarm(e).state = "disable" /\ Disarm(e).pend = e.pend
      BY <3>3, ArmKeeps
    <3> QED
      BY <1>1, <1>3, <2>1, <2>3, <3>2, <3>3, <3>4 DEF Contact, Queueing, SameContact
  <2> QED
    BY <2>2, <2>3 DEF Contact, Watching
<1>6. CASE ~(q.state = "wait" /\ down /\ ~p.down) /\ ~(~down /\ p.down)
  <2>1. (p.ctl = {} /\ p.state = "disable" /\ p.pend = {}) => Contact(q)
    BY <1>1, <1>3 DEF Contact
  <2>2. Watching(p) => Contact(q)
    <3> SUFFICES ASSUME Watching(p) PROVE Watching(q)
      BY DEF Contact
    <3>1. p.down \in BOOLEAN /\ p.ctl = CeKept /\ p.adc /\ p.state # "disable"
      BY <1>0 DEF PiuRec, Watching
    <3>2. q.state # "wait" => q.down
      BY <1>1, <1>6, <3>1 DEF Watching
    <3>3. q.down = p.down
      BY <1>1, <1>6, <3>1 DEF Watching
    <3>4. Reported(q) = Reported(p)
      BY <1>1 DEF Reported
    <3> QED
      BY <1>1, <1>3, <3>1, <3>2, <3>3, <3>4 DEF Watching
  <2>3. Contact(q)
    BY <2>1, <2>2 DEF Contact
  <2> QED
    BY <1>2, <1>6, <2>3, TickKeeps
<1> QED
  BY <1>4, <1>5, <1>6

LEMMA WriteIntKeeps ==
    ASSUME NEW p, Contact(p), NEW acks, NEW mask \in SUBSET Events
    PROVE  LET q == WriteInt(p, acks, mask) IN
           Contact(q) /\ q.ctl = p.ctl /\ (p.pend = {} => q.pend = {})
<1> DEFINE e == p.pend \ acks
           v == p.valid \ acks
           s == e \cup {"penchg"}
           n == (p.queued = "down")
           q == [p EXCEPT !.pend = e, !.mask = mask, !.valid = v]
           r == [q EXCEPT !.penstc = n, !.queued = "none", !.pend = s]
           d == [q EXCEPT !.penstc = p.down]
           c == IF "penchg" \notin acks THEN q ELSE IF q.queued # "none" THEN r ELSE d
<1>0. p \in PiuRec /\ Queueing(p)
  BY DEF Contact, Watching, Queueing
<1>1. /\ e \in SUBSET Events /\ s \in SUBSET Events /\ v \in SUBSET Pages
      /\ n \in BOOLEAN /\ p.down \in BOOLEAN
      /\ "penchg" \in s /\ ("penchg" \in e <=> "penchg" \in p.pend /\ "penchg" \notin acks)
      /\ (p.pend = {} => e = {})
  BY <1>0 DEF PiuRec, Events
<1>2. /\ q.queued = p.queued
      /\ WriteInt(p, acks, mask) =
            IF p.pend \cap acks \cap Pages # {} /\ p.down /\ p.state \in Scanning /\ ~p.armed
            THEN Arm(c) ELSE c
  BY <1>0 DEF WriteInt, PiuRec
<1>3. n = (p.queued = "down")
  OBVIOUS
<1> HIDE DEF e, v, s, n
<1>4. /\ q \in PiuRec /\ q.ctl = p.ctl /\ q.adc = p.adc /\ q.down = p.down
      /\ q.state = p.state /\ q.pend = e /\ q.queued = p.queued /\ q.penstc = p.penstc
  BY <1>0, <1>1 DEF PiuRec
<1> HIDE DEF q
<1>5. /\ r \in PiuRec /\ r.ctl = p.ctl /\ r.adc = p.adc /\ r.down = p.down
      /\ r.state = p.state /\ r.pend = s /\ r.queued = "none" /\ r.penstc = n
  BY <1>1, <1>4 DEF PiuRec
<1>6. /\ d \in PiuRec /\ d.ctl = p.ctl /\ d.adc = p.adc /\ d.down = p.down
      /\ d.state = p.state /\ d.pend = e /\ d.queued = p.queued
  BY <1>1, <1>4 DEF PiuRec
<1>7. q.queued # "none" => "penchg" \in p.pend
  BY <1>0, <1>4 DEF Queueing
<1> HIDE DEF r, d
<1>8. /\ c \in PiuRec /\ c.ctl = p.ctl /\ c.adc = p.adc /\ c.down = p.down
      /\ c.state = p.state /\ ("penchg" \in c.pend => "penchg" \in p.pend)
      /\ (p.pend = {} => c.pend = {})
  BY <1>1, <1>4, <1>5, <1>6, <1>7
<1>9. Queueing(c)
  <2>1. CASE "penchg" \notin acks
    BY <1>0, <1>1, <1>4, <2>1 DEF Queueing
  <2>2. CASE "penchg" \in acks /\ q.queued # "none"
    BY <1>1, <1>5, <2>2 DEF Queueing
  <2>3. CASE "penchg" \in acks /\ q.queued = "none"
    BY <1>4, <1>6, <2>3 DEF Queueing
  <2> QED
    BY <2>1, <2>2, <2>3
<1>10. "penchg" \in c.pend => Reported(c) = Reported(p)
  <2>1. CASE "penchg" \notin acks
    BY <1>4, <2>1 DEF Reported
  <2>2. CASE "penchg" \in acks /\ q.queued # "none"
    BY <1>3, <1>4, <1>5, <2>2 DEF Reported
  <2>3. CASE "penchg" \in acks /\ q.queued = "none"
    BY <1>1, <1>6, <2>3
  <2> QED
    BY <2>1, <2>2, <2>3
<1> HIDE DEF c
<1>11. Contact(c)
  <2>1. (p.ctl = {} /\ p.state = "disable" /\ p.pend = {}) => Contact(c)
    BY <1>8, <1>9 DEF Contact
  <2>2. Watching(p) => Watching(c)
    BY <1>8, <1>9, <1>10 DEF Watching
  <2> QED
    BY <2>1, <2>2 DEF Contact
<1>12. /\ Arm(c) \in PiuRec /\ SameContact(c, Arm(c)) /\ Arm(c).state = c.state
  BY <1>8, ArmKeeps
<1>13. p.state \in Scanning => Contact(Arm(c))
  <2> SUFFICES ASSUME p.state \in Scanning PROVE Watching(Arm(c))
    BY DEF Contact
  <2>1. Watching(c)
    BY <1>8, <1>11 DEF Contact, Scanning
  <2>2. Arm(c).queued = c.queued
    BY <1>8 DEF Arm, PiuRec
  <2>3. Queueing(Arm(c)) /\ Reported(Arm(c)) = Reported(c)
    BY <1>9, <1>12, <2>2 DEF Queueing, SameContact, Reported
  <2> QED
    BY <1>12, <2>1, <2>3 DEF Watching, SameContact
<1>14. p.pend = {} => p.pend \cap acks \cap Pages = {}
  OBVIOUS
<1> QED
  BY <1>2, <1>8, <1>11, <1>12, <1>13, <1>14 DEF SameContact

LEMMA WriteCntKeeps ==
    ASSUME NEW p, Contact(p), NEW ctl, ctl = CeKept \/ ctl = p.ctl
    PROVE  Contact(WriteCnt(p, ctl, FALSE, TRUE))
<1> DEFINE a == [p EXCEPT !.adc = TRUE]
           b == [a EXCEPT !.ctl = ctl]
<1>0. p \in PiuRec /\ Queueing(p) /\ ctl \in {{}, CeKept}
  BY DEF Contact, Watching, Queueing
<1>1. ctl \in SUBSET Controls /\ "adport" \notin ctl
  BY <1>0 DEF CeKept, Controls
<1>2. WriteCnt(p, ctl, FALSE, TRUE) = RefreshControl(b)
  BY <1>1 DEF WriteCnt
<1>3. /\ b \in PiuRec /\ b.ctl = ctl /\ b.adc = TRUE /\ b.down = p.down
      /\ b.state = p.state /\ b.pend = p.pend /\ b.queued = p.queued /\ b.penstc = p.penstc
  BY <1>0, <1>1 DEF PiuRec
<1> HIDE DEF b
<1>4. Queueing(b)
  BY <1>0, <1>3 DEF Queueing
<1>5. CASE ctl = CeKept
  <2>1. Watching(p) => Watching(b)
    <3>1. Reported(b) = Reported(p)
      BY <1>3 DEF Reported
    <3> QED
      BY <1>3, <1>4, <1>5, <3>1 DEF Watching
  <2>2. (b.state = "disable" /\ b.pend = {}) \/ Watching(b)
    BY <1>3, <2>1 DEF Contact
  <2> QED
    BY <1>2, <1>3, <1>4, <1>5, <2>2, RefreshKeeps DEF Contact
<1>6. CASE ctl = {}
  <2>1. p.state = "disable" /\ p.pend = {}
    BY <1>6 DEF Contact, Watching, CeKept
  <2>2. RefreshControl(b) = b
    BY <1>3, <1>6, <2>1 DEF RefreshControl, WaitPenEnabled, Scanning
  <2> QED
    BY <1>2, <1>3, <1>4, <1>6, <2>1, <2>2 DEF Contact
<1> QED
  BY <1>0, <1>5, <1>6

LEMMA CeStep ==
    ASSUME driver = "ce", Contact(piu), [Next]_vars
    PROVE  Contact(piu')
<1> SUFFICES ASSUME piu' # piu PROVE Contact(piu')
  OBVIOUS
<1> USE DEF TouchOnly, PiuAccess
<1>1. TouchNext
  BY DEF vars, Next, KeysNext, HostPresses, OalMasks, DriverSamples, OalDone, KeysGated,
         CardNext, HotPlug, CardTick, WriteWord10, OtherWord14, CardGated, ReadsCause,
         WritesCause, UsesCard, CompanionAck, ResetsCard, TakesEdge, JacketNext,
         JacketTick, JacketInserted, JacketRegs, UsesJacketCard, JacketWord, JacketPage,
         KeysOnly, CardOnly, JacketOnly, touchVars
<1>2. Kept = CeKept
  BY DEF Kept, CeKept
<1>3. piu.ctl # Battery
  BY DEF Contact, Watching, CeKept, Battery
<1>4. piu \in PiuRec /\ piu.down \in BOOLEAN /\ piu.mask \in SUBSET Events
  BY DEF Contact, Watching, Queueing, PiuRec
<1>5. ASSUME HostTouches \/ TouchTick
      PROVE  Contact(piu')
  BY <1>4, <1>5, SetTouchKeeps DEF HostTouches, TouchTick
<1>6. ASSUME TimePasses
      PROVE  Contact(piu')
  <2> DEFINE q == [piu EXCEPT !.ripe = TRUE]
  <2>1. /\ q \in PiuRec /\ SameContact(piu, q) /\ q.state = piu.state
        /\ q.pend = piu.pend /\ q.queued = piu.queued
    BY <1>4 DEF PiuRec, SameContact
  <2>2. piu' = q
    BY <1>6 DEF TimePasses
  <2> HIDE DEF q
  <2>3. (piu.ctl = {} /\ piu.state = "disable" /\ piu.pend = {} /\ Queueing(piu)) => Contact(q)
    BY <2>1 DEF Contact, Queueing, SameContact
  <2>4. Watching(piu) => Watching(q)
    BY <2>1 DEF Watching, Queueing, SameContact, Reported
  <2> QED
    BY <2>2, <2>3, <2>4 DEF Contact
<1>7. ASSUME GuestStarts
      PROVE  Contact(piu')
  <2> DEFINE q == WriteInt(piu, Events, Events)
  <2>1. Contact(q) /\ q.ctl = piu.ctl
    BY WriteIntKeeps
  <2>2. piu' = WriteCnt(q, CeKept, FALSE, TRUE)
    BY <1>2, <1>7 DEF GuestStarts
  <2> HIDE DEF q
  <2> QED
    BY <2>1, <2>2, WriteCntKeeps
<1>8. ASSUME GuestReads
      PROVE  Contact(piu')
  BY <1>8, TickKeeps DEF GuestReads
<1>9. ASSUME GuestAcks
      PROVE  Contact(piu')
  BY <1>4, <1>9, WriteIntKeeps DEF GuestAcks
<1>10. ASSUME GuestRestarts
       PROVE  Contact(piu')
  BY <1>10, WriteCntKeeps DEF GuestRestarts
<1> QED
  BY <1>1, <1>3, <1>5, <1>6, <1>7, <1>8, <1>9, <1>10
     DEF TouchNext, GuestTouch, BatteryScans, BatteryReads, BatteryDone, OtherStops,
         OtherScans, OtherMasks

(***************************************************************************)
(* A driver with Windows CE's habits is never told of a contact that is    *)
(* over (src/hw/piu.c, raise_penchg): the bit that is pending, or the      *)
(* entry of the queue behind it, is the pen's position.                    *)
(***************************************************************************)
THEOREM LastContactIsTrue == Spec => []LastContactTrue
<1> DEFINE CeInv == driver = "ce" => Contact(piu)
<1>1. Init => CeInv
  <2>1. Contact(PiuReset(FALSE))
    BY DEF Contact, Queueing, PiuReset, PiuRec, PiuState, Pages
  <2> QED
    BY <2>1 DEF Init
<1>2. CeInv /\ [Next]_vars => CeInv'
  <2> SUFFICES ASSUME CeInv, [Next]_vars, driver' = "ce" PROVE Contact(piu')
    OBVIOUS
  <2>1. driver' = driver
    BY DEF Next, vars, TouchNext, HostTouches, TouchTick, TimePasses, GuestTouch,
           GuestStarts, GuestReads, GuestAcks, GuestRestarts, BatteryScans, BatteryReads,
           BatteryDone, OtherStops, OtherScans, OtherMasks, KeysNext, HostPresses,
           OalMasks, DriverSamples, OalDone, KeysGated, CardNext, HotPlug, CardTick,
           WriteWord10, OtherWord14, CardGated, ReadsCause, WritesCause, UsesCard,
           CompanionAck, ResetsCard, TakesEdge, JacketNext, JacketTick, JacketInserted,
           JacketRegs, UsesJacketCard, JacketWord, JacketPage, TouchOnly, KeysOnly,
           CardOnly, JacketOnly, Stays
  <2> QED
    BY <2>1, CeStep
<1>3. CeInv => LastContactTrue
  <2> SUFFICES ASSUME CeInv, driver = "ce", piu.state \in {"wait"} \cup Scanning,
                      "penchg" \in piu.pend
               PROVE  piu.down = Reported(piu)
    BY DEF LastContactTrue, Reported
  <2> QED
    BY DEF Contact, Watching, Scanning
<1> QED
  BY <1>1, <1>2, <1>3, PTL DEF Spec

--------------------------------------------------------------------------------
(***************************************************************************)
(* The HALTimer and the watchdog.  The PMU sees nothing of time but the    *)
(* difference of two samples of Count, which the guest may have rewritten  *)
(* between them.                                                           *)
(***************************************************************************)
Pmu == [int : SUBSET Causes, remaining : 0..Window, arm : {0, Window},
        sampled : 0..CountRange - 1, staged : Causes \cup {NoCause}]
Cmcu == [arg : SUBSET {"start", "stop"}, timeout : {0, Timeout}, running : BOOLEAN,
         unserved : 0..Timeout]
Truth == [armedFor : 0..Window, acked : BOOLEAN, unserved : 0..Timeout, guarded : BOOLEAN,
          wakes : 0..MaxWakes, why : SUBSET {"hal", "watchdog", "software"}]
ResetsTypeOK == pmu \in Pmu /\ cmcu \in Cmcu /\ truth \in Truth /\ count \in 0..CountRange - 1

\* What the next sample will take to have gone by.
Since(from, to) == (to - from + CountRange) % CountRange
\* A window has gone by, or at least the cycles charged and n more.
WentBy(p, t, n) == t.armedFor >= Window \/ t.armedFor >= Window - p.remaining + n

(***************************************************************************)
(* While the HALTimer runs it has charged no more than what went by; what  *)
(* the next sample will charge, if it charges anything, went by as well;   *)
(* and if Count has wrapped since a sample near its top, what was left to  *)
(* the top has gone by, so that a Count started over adds nothing.         *)
(***************************************************************************)
HalTimed(p, t, c) ==
    p.remaining > 0 =>
      /\ p.arm = Window /\ ~t.acked
      /\ WentBy(p, t, 0)
      /\ Since(p.sampled, c) <= Window \div 2 => WentBy(p, t, Since(p.sampled, c))
      /\ c < p.sampled /\ p.sampled >= CountRange - Window \div 2
           => WentBy(p, t, CountRange - p.sampled)

Watched(k, t) == /\ k.running => t.guarded
                 /\ k.unserved = t.unserved

ResetsInv == /\ ResetsTypeOK
             /\ HalTimed(pmu, truth, count) /\ Watched(cmcu, truth)
             /\ ResetOnlyWhenDue

--------------------------------------------------------------------------------
\* A number below twice the modulus is reduced by one subtraction at most.
LEMMA ModOnce ==
    ASSUME NEW n \in Nat \ {0}, NEW a \in 0..2 * n - 1
    PROVE  a % n = IF a < n THEN a ELSE a - n
<1>1. CASE a < n  BY <1>1
<1>2. CASE a >= n  BY <1>2
<1> QED  BY <1>1, <1>2

\* What the constants are assumed to be, in the form the steps need.
LEMMA RangeOfCount == CountRange \in Nat \ {0} /\ Window \in Nat \ {0} /\ CountRange > 2 * Window
  BY ResetsAssumption DEF ResetsAssumption

\* The ends of the counters are in their ranges.
LEMMA InRange == /\ 0 \in 0..Window /\ Window \in 0..Window /\ 0 \in 0..Timeout
                 /\ MaxWakes \in Nat
  BY ResetsAssumption DEF ResetsAssumption

\* The difference of two samples is that of their values, once around at most.
LEMMA SinceValue ==
    ASSUME NEW a \in 0..CountRange - 1, NEW b \in 0..CountRange - 1
    PROVE  Since(a, b) = IF a <= b THEN b - a ELSE b - a + CountRange
<1> DEFINE s == b - a + CountRange
<1>1. s \in 0..2 * CountRange - 1 /\ (a <= b <=> s >= CountRange)  BY RangeOfCount
<1>2. Since(a, b) = s % CountRange  BY DEF Since
<1>3. s = b - a + CountRange  OBVIOUS
<1> HIDE DEF s
<1>4. s % CountRange = IF s < CountRange THEN s ELSE s - CountRange
  <2>1. CountRange \in Nat \ {0}  BY RangeOfCount
  <2> QED  BY <1>1, <2>1, ModOnce
<1> QED  BY <1>1, <1>2, <1>3, <1>4, RangeOfCount

\* Count moves on by n and wraps once at most (the CPU's Count, dev_vr41xx).
LEMMA Advanced ==
    ASSUME NEW c \in 0..CountRange - 1, NEW n \in 1..Window
    PROVE  (c + n) % CountRange = IF c + n < CountRange THEN c + n ELSE c + n - CountRange
<1>1. CASE c + n < CountRange  BY <1>1, RangeOfCount
<1>2. CASE c + n >= CountRange  BY <1>2, RangeOfCount
<1> QED  BY <1>1, <1>2, RangeOfCount

\* pmu_tick charges the difference of the samples unless it is above half a window.
LEMMA ElapsedValue ==
    ASSUME NEW p \in Pmu, NEW c \in 0..CountRange - 1, p.arm = Window
    PROVE  Elapsed(p, c) = IF Since(p.sampled, c) > Window \div 2 THEN 0 ELSE Since(p.sampled, c)
  BY DEF Elapsed, Since

\* Half a window is less than a window.
LEMMA HalfWindow == Window \div 2 \in Nat /\ Window \div 2 < Window
  BY ResetsAssumption DEF ResetsAssumption

--------------------------------------------------------------------------------
\* Time goes by: what the next sample will charge grows with it.
LEMMA TimeKeeps ==
    ASSUME NEW p \in Pmu, NEW t \in Truth, NEW u \in Truth, NEW c \in 0..CountRange - 1,
           NEW n \in 1..Window, HalTimed(p, t, c), u.acked = t.acked,
           u.armedFor = MinOf2(t.armedFor + n, Window)
    PROVE  HalTimed(p, u, (c + n) % CountRange)
<1> DEFINE d == (c + n) % CountRange
<1>1. d = IF c + n < CountRange THEN c + n ELSE c + n - CountRange  BY Advanced
<1>2. d \in 0..CountRange - 1  BY <1>1, ResetsAssumption DEF ResetsAssumption
<1>3. /\ p.sampled \in 0..CountRange - 1 /\ p.remaining \in 0..Window
      /\ t.armedFor \in 0..Window /\ u.armedFor \in 0..Window
  BY DEF Pmu, Truth
<1>4. /\ Since(p.sampled, c) = IF p.sampled <= c THEN c - p.sampled ELSE c - p.sampled + CountRange
      /\ Since(p.sampled, d) = IF p.sampled <= d THEN d - p.sampled ELSE d - p.sampled + CountRange
  BY <1>2, <1>3, SinceValue
<1>5. u.armedFor = IF t.armedFor + n < Window THEN t.armedFor + n ELSE Window
  BY <1>3, ResetsAssumption DEF MinOf2, ResetsAssumption
<1> HIDE DEF d
<1>6. SUFFICES ASSUME p.remaining > 0
               PROVE  /\ p.arm = Window /\ ~u.acked
                      /\ WentBy(p, u, 0)
                      /\ Since(p.sampled, d) <= Window \div 2 => WentBy(p, u, Since(p.sampled, d))
                      /\ d < p.sampled /\ p.sampled >= CountRange - Window \div 2
                           => WentBy(p, u, CountRange - p.sampled)
  BY DEF HalTimed, d
<1>7. /\ p.arm = Window /\ ~t.acked /\ WentBy(p, t, 0)
      /\ Since(p.sampled, c) <= Window \div 2 => WentBy(p, t, Since(p.sampled, c))
      /\ c < p.sampled /\ p.sampled >= CountRange - Window \div 2
           => WentBy(p, t, CountRange - p.sampled)
  BY <1>6 DEF HalTimed
<1>8. p.arm = Window /\ ~u.acked  BY <1>7
<1>9. WentBy(p, u, 0)  BY <1>3, <1>5, <1>7, ResetsAssumption DEF WentBy, ResetsAssumption
<1>10. Since(p.sampled, d) <= Window \div 2 => WentBy(p, u, Since(p.sampled, d))
  <2> SUFFICES ASSUME Since(p.sampled, d) <= Window \div 2
               PROVE  WentBy(p, u, Since(p.sampled, d))
    OBVIOUS
  <2>1. CASE Since(p.sampled, d) = Since(p.sampled, c) + n
    BY <2>1, <1>3, <1>4, <1>5, <1>7, HalfWindow, ResetsAssumption DEF WentBy, ResetsAssumption
  <2>2. CASE Since(p.sampled, d) = Since(p.sampled, c) + n - CountRange
    BY <2>2, <1>3, <1>4, <1>5, <1>7, HalfWindow, ResetsAssumption DEF WentBy, ResetsAssumption
  <2>3. \/ Since(p.sampled, d) = Since(p.sampled, c) + n
        \/ Since(p.sampled, d) = Since(p.sampled, c) + n - CountRange
    BY <1>1, <1>3, <1>4, ResetsAssumption DEF ResetsAssumption
  <2> QED  BY <2>1, <2>2, <2>3
<1>11. d < p.sampled /\ p.sampled >= CountRange - Window \div 2
         => WentBy(p, u, CountRange - p.sampled)
  <2> SUFFICES ASSUME d < p.sampled, p.sampled >= CountRange - Window \div 2
               PROVE  WentBy(p, u, CountRange - p.sampled)
    OBVIOUS
  <2>1. CASE c < p.sampled
    BY <2>1, <1>3, <1>5, <1>7, HalfWindow, ResetsAssumption DEF WentBy, ResetsAssumption
  <2>2. CASE c >= p.sampled
    <3>1. Since(p.sampled, c) = c - p.sampled /\ Since(p.sampled, c) <= Window \div 2
      BY <2>2, <1>3, <1>4, HalfWindow, ResetsAssumption DEF ResetsAssumption
    <3>2. c + n >= CountRange  BY <2>2, <1>1, <1>3, ResetsAssumption DEF d, ResetsAssumption
    <3> QED  BY <3>1, <3>2, <1>3, <1>5, <1>7, ResetsAssumption DEF WentBy, ResetsAssumption
  <2> QED  BY <2>1, <2>2, <1>3
<1> QED  BY <1>8, <1>9, <1>10, <1>11

\* The guest starts Count over: what seems to have gone by is either too much
\* to be believed, or went by before the wrap.
LEMMA CountStartsOver ==
    ASSUME NEW p \in Pmu, NEW t \in Truth, NEW u \in Truth, NEW c \in 0..CountRange - 1,
           HalTimed(p, t, c), c < CountRange - Window \div 2,
           u.acked = t.acked, u.armedFor = t.armedFor
    PROVE  HalTimed(p, u, 0)
<1>1. p.sampled \in 0..CountRange - 1 /\ p.remaining \in 0..Window /\ t.armedFor \in 0..Window
  BY DEF Pmu, Truth
<1>2. Since(p.sampled, 0) = IF p.sampled = 0 THEN 0 ELSE CountRange - p.sampled
  <2>1. 0 \in 0..CountRange - 1  BY ResetsAssumption DEF ResetsAssumption
  <2> QED  BY <1>1, <2>1, SinceValue, ResetsAssumption DEF ResetsAssumption
<1>3. SUFFICES ASSUME p.remaining > 0
               PROVE  /\ p.arm = Window /\ ~u.acked /\ WentBy(p, u, 0)
                      /\ Since(p.sampled, 0) <= Window \div 2 => WentBy(p, u, Since(p.sampled, 0))
                      /\ 0 < p.sampled /\ p.sampled >= CountRange - Window \div 2
                           => WentBy(p, u, CountRange - p.sampled)
  BY DEF HalTimed
<1>4. /\ p.arm = Window /\ ~t.acked /\ WentBy(p, t, 0)
      /\ c < p.sampled /\ p.sampled >= CountRange - Window \div 2
           => WentBy(p, t, CountRange - p.sampled)
  BY <1>3 DEF HalTimed
<1> QED  BY <1>1, <1>2, <1>4, HalfWindow, ResetsAssumption DEF WentBy, ResetsAssumption

\* A staged cause is in PMUINTREG once the reset is applied and the HALTimer is off
\* (pmu_apply_pending_reset_state).
LEMMA Applied ==
    ASSUME NEW p \in Pmu, NEW c \in 0..CountRange - 1
    PROVE  /\ ApplyPending(p, c) \in Pmu
           /\ ApplyPending(p, c).remaining = 0
           /\ p.staged # NoCause => p.staged \in ApplyPending(p, c).int
<1>1. p.int \cup ({p.staged} \ {NoCause}) \in SUBSET Causes  BY DEF Pmu
<1>2. 0 \in 0..Window /\ NoCause \in Causes \cup {NoCause}  BY RangeOfCount
<1> QED  BY <1>1, <1>2 DEF ApplyPending, Pmu

\* A sample charges what went by, and no more.
LEMMA SampleKeeps ==
    ASSUME NEW p \in Pmu, NEW t \in Truth, NEW u \in Truth, NEW c \in 0..CountRange - 1,
           HalTimed(p, t, c), u.acked = t.acked, u.armedFor = t.armedFor
    PROVE  /\ PmuTick(p, c) \in Pmu
           /\ HalTimed(PmuTick(p, c), u, c)
           /\ HalExpires(p, c) => /\ ~t.acked /\ t.armedFor >= Window
                                  /\ "TIMOUTRST" \in PmuTick(p, c).int
<1> DEFINE q == PmuTick(p, c)
<1>1. /\ p.sampled \in 0..CountRange - 1 /\ p.remaining \in 0..Window /\ t.armedFor \in 0..Window
      /\ u.armedFor \in 0..Window
  BY DEF Pmu, Truth
<1>2. CASE p.remaining = 0
  <2>1. q = p /\ ~HalExpires(p, c)  BY <1>2 DEF PmuTick, HalExpires
  <2> QED  BY <2>1, <1>2 DEF HalTimed
<1>3. CASE p.remaining > 0
  <2>1. /\ p.arm = Window /\ ~t.acked /\ WentBy(p, t, 0)
        /\ Since(p.sampled, c) <= Window \div 2 => WentBy(p, t, Since(p.sampled, c))
    BY <1>3 DEF HalTimed
  <2>2. /\ Since(p.sampled, c) \in Nat
        /\ Elapsed(p, c) = IF Since(p.sampled, c) > Window \div 2 THEN 0 ELSE Since(p.sampled, c)
    <3>1. Since(p.sampled, c) = IF p.sampled <= c THEN c - p.sampled ELSE c - p.sampled + CountRange
      BY <1>1, SinceValue
    <3>2. Since(p.sampled, c) \in Nat  BY <3>1, <1>1, RangeOfCount
    <3> QED  BY <3>2, <2>1, ElapsedValue
  <2>3. Elapsed(p, c) \in Nat /\ WentBy(p, t, Elapsed(p, c))
    BY <2>1, <2>2, HalfWindow
  <2>4. CASE HalExpires(p, c)
    <3>1. t.armedFor >= Window
      BY <2>3, <2>4, <1>1, ResetsAssumption DEF HalExpires, WentBy, ResetsAssumption
    <3> DEFINE r == [p EXCEPT !.staged = "TIMOUTRST"]
    <3>2. r \in Pmu /\ r.staged = "TIMOUTRST"  BY DEF Pmu, Causes
    <3>3. q = ApplyPending(r, c)  BY <1>3, <2>4 DEF PmuTick
    <3>4. q \in Pmu /\ q.remaining = 0 /\ "TIMOUTRST" \in q.int
      <4> HIDE DEF r
      <4> QED  BY <3>2, <3>3, Applied DEF NoCause
    <3> QED  BY <2>1, <3>1, <3>4 DEF HalTimed
  <2>5. CASE ~HalExpires(p, c)
    <3>1. q = [p EXCEPT !.remaining = @ - Elapsed(p, c), !.sampled = c]
      BY <1>3, <2>5 DEF PmuTick
    <3>2. Elapsed(p, c) < p.remaining /\ p.remaining - Elapsed(p, c) \in 0..Window
      <4>1. Elapsed(p, c) < p.remaining  BY <1>1, <1>3, <2>3, <2>5 DEF HalExpires
      <4> QED  BY <4>1, <1>1, <2>3, RangeOfCount
    <3>3. q \in Pmu /\ q.remaining = p.remaining - Elapsed(p, c) /\ q.arm = Window /\ q.sampled = c
      BY <3>1, <3>2, <2>1 DEF Pmu
    <3>4. Since(c, c) = 0  BY SinceValue, ResetsAssumption DEF ResetsAssumption
    <3>5. WentBy(q, u, 0)
      BY <3>2, <3>3, <2>3, <1>1, ResetsAssumption DEF WentBy, ResetsAssumption
    <3> QED  BY <2>1, <2>5, <3>3, <3>4, <3>5 DEF HalTimed
  <2> QED  BY <2>4, <2>5
<1> QED  BY <1>1, <1>2, <1>3, ResetsAssumption DEF ResetsAssumption

--------------------------------------------------------------------------------
\* A step that resets nothing leaves the account as it was.
LEMMA Hushed ==
    ASSUME ResetsTypeOK
    PROVE  /\ Quiet \in Truth /\ Quiet.why = {}
           /\ Quiet.acked = truth.acked /\ Quiet.armedFor = truth.armedFor
           /\ Quiet.guarded = truth.guarded /\ Quiet.unserved = truth.unserved
  BY DEF ResetsTypeOK, Quiet, Truth

\* The invariant holds at power-on (pmu_init, cmcu_init).
LEMMA Starts == ResetInit => ResetsInv
<1> SUFFICES ASSUME ResetInit PROVE ResetsInv  OBVIOUS
<1>1. /\ pmu = [int |-> {"RTCRST"}, remaining |-> Window, arm |-> Window, sampled |-> 0,
                staged |-> NoCause]
      /\ cmcu = CmcuInit /\ count = 0 /\ truth = TruthInit
  BY DEF ResetInit, PmuInit, PmuArmed
<1>2. ResetsTypeOK
  <2>1. pmu \in Pmu  BY <1>1, RangeOfCount DEF Pmu, Causes
  <2>2. cmcu \in Cmcu  BY <1>1, ResetsAssumption DEF Cmcu, CmcuInit, ResetsAssumption
  <2>3. truth \in Truth  BY <1>1, ResetsAssumption DEF Truth, TruthInit, ResetsAssumption
  <2> QED  BY <2>1, <2>2, <2>3, <1>1, RangeOfCount DEF ResetsTypeOK
<1>3. HalTimed(pmu, truth, count)
  <2>1. Since(0, 0) = 0  BY SinceValue, RangeOfCount
  <2> QED  BY <1>1, <2>1, RangeOfCount DEF HalTimed, WentBy, TruthInit
<1>4. Watched(cmcu, truth)  BY <1>1 DEF Watched, CmcuInit, TruthInit
<1>5. ResetOnlyWhenDue  BY <1>1 DEF ResetOnlyWhenDue, TruthInit
<1> QED  BY <1>2, <1>3, <1>4, <1>5 DEF ResetsInv

\* Every step of the timers, the guest and the clock keeps the invariant.
LEMMA Steps == ResetsInv /\ [HaltimerNext \/ WatchdogNext]_resetVars => ResetsInv'
<1> SUFFICES ASSUME ResetsInv, [HaltimerNext \/ WatchdogNext]_resetVars PROVE ResetsInv'
  OBVIOUS
<1> USE DEF ResetsInv
<1>0. /\ pmu \in Pmu /\ cmcu \in Cmcu /\ truth \in Truth /\ count \in 0..CountRange - 1
      /\ Quiet \in Truth /\ Quiet.why = {}
      /\ Quiet.acked = truth.acked /\ Quiet.armedFor = truth.armedFor
      /\ Quiet.guarded = truth.guarded /\ Quiet.unserved = truth.unserved
  BY Hushed DEF ResetsTypeOK
<1>1. CASE TimeGoes
  <2> PICK n \in 1..Window : Goes(n) /\ UNCHANGED pmu  BY <1>1 DEF TimeGoes
  <2>1. count' = (count + n) % CountRange /\ count' \in 0..CountRange - 1
    BY <1>0, Advanced, RangeOfCount DEF Goes
  <2>2. /\ cmcu'.unserved = MinOf2(cmcu.unserved + n, Timeout)
        /\ cmcu'.running = cmcu.running /\ cmcu' \in Cmcu
    BY <1>0, ResetsAssumption DEF Goes, Cmcu, MinOf2, ResetsAssumption
  <2>3. /\ truth' \in Truth /\ truth'.why = {} /\ truth'.guarded = truth.guarded
        /\ truth'.acked = truth.acked /\ truth'.armedFor = MinOf2(truth.armedFor + n, Window)
        /\ truth'.unserved = MinOf2(truth.unserved + n, Timeout)
    <3>1. /\ MinOf2(truth.armedFor + n, Window) \in 0..Window
          /\ MinOf2(truth.unserved + n, Timeout) \in 0..Timeout
      BY <1>0, ResetsAssumption DEF Truth, MinOf2, ResetsAssumption
    <3> QED  BY <1>0, <3>1 DEF Goes, Truth
  <2>4. HalTimed(pmu, truth', (count + n) % CountRange)  BY <1>0, <2>3, TimeKeeps
  <2> QED  BY <1>0, <2>1, <2>2, <2>3, <2>4 DEF ResetsTypeOK, Watched, ResetOnlyWhenDue
<1>2. CASE PmuTicks
  <2>1. /\ truth' \in Truth /\ truth'.why \subseteq {"hal"}
        /\ "hal" \in truth'.why => HalExpires(pmu, count)
        /\ truth'.acked = truth.acked /\ truth'.armedFor = truth.armedFor
        /\ truth'.guarded = truth.guarded /\ truth'.unserved = truth.unserved
    BY <1>0, <1>2 DEF PmuTicks, Truth
  <2>2. pmu' = PmuTick(pmu, count) /\ UNCHANGED <<cmcu, count>>  BY <1>2 DEF PmuTicks
  <2>3. /\ pmu' \in Pmu /\ HalTimed(pmu', truth', count')
        /\ HalExpires(pmu, count) => /\ ~truth.acked /\ truth.armedFor >= Window
                                     /\ "TIMOUTRST" \in pmu'.int
    BY <1>0, <2>1, <2>2, SampleKeeps
  <2> QED  BY <1>0, <2>1, <2>2, <2>3 DEF ResetsTypeOK, Watched, ResetOnlyWhenDue
<1>3. CASE CmcuTicks
  <2>1. CASE CmcuExpired(cmcu)
    <3>1. /\ truth' \in Truth /\ truth'.why = {"watchdog"}
          /\ truth'.guarded = truth.guarded /\ truth'.unserved = truth.unserved
      BY <1>0, <1>3, <2>1 DEF CmcuTicks, Truth
    <3>2. /\ cmcu' \in Cmcu /\ ~cmcu'.running /\ cmcu'.unserved = cmcu.unserved
      BY <1>0, <1>3, <2>1 DEF CmcuTicks, Cmcu
    <3>3. ResetSwitch(pmu) \in Pmu /\ ResetSwitch(pmu).staged = "RSTSW"
      BY <1>0 DEF ResetSwitch, Pmu, Causes
    <3>4. pmu' \in Pmu /\ pmu'.remaining = 0 /\ "RSTSW" \in pmu'.int
      BY <1>0, <1>3, <2>1, <3>3, Applied DEF CmcuTicks, NoCause
    <3>5. truth.guarded /\ truth.unserved >= Timeout
      BY <1>0, <2>1 DEF CmcuExpired, Watched, Cmcu
    <3>6. count' = count  BY <1>3 DEF CmcuTicks
    <3> QED  BY <1>0, <3>1, <3>2, <3>4, <3>5, <3>6
             DEF ResetsTypeOK, HalTimed, Watched, ResetOnlyWhenDue
  <2>2. CASE ~CmcuExpired(cmcu)
    <3>1. UNCHANGED <<pmu, cmcu, count>> /\ truth' = Quiet  BY <1>3, <2>2 DEF CmcuTicks
    <3> QED  BY <1>0, <3>1 DEF ResetsTypeOK, HalTimed, WentBy, Watched, ResetOnlyWhenDue
  <2> QED  BY <2>1, <2>2
\* A step that leaves the HALTimer without a deadline, or alone.
<1>4. ASSUME pmu' \in Pmu, pmu'.remaining = 0, cmcu' = cmcu, count' = count, truth' \in Truth,
             truth'.why \subseteq {"software"}, truth'.guarded = truth.guarded,
             truth'.unserved = truth.unserved
      PROVE  ResetsInv'
  BY <1>0, <1>4 DEF ResetsTypeOK, HalTimed, Watched, ResetOnlyWhenDue
<1>5. CASE Acknowledges
  <2>1. pmu' \in Pmu /\ pmu'.remaining = 0
    BY <1>0, <1>5, InRange DEF Acknowledges, WriteCnt0, Pmu
  <2>2. /\ truth' \in Truth /\ truth'.why = {} /\ truth'.guarded = truth.guarded
        /\ truth'.unserved = truth.unserved
    BY <1>0, <1>5 DEF Acknowledges, Truth
  <2> QED  BY <1>4, <1>5, <2>1, <2>2 DEF Acknowledges
<1>6. CASE SoftResets
  <2>1. WriteCnt2(pmu) \in Pmu  BY <1>0 DEF WriteCnt2, Pmu, Causes
  <2>2. pmu' \in Pmu /\ pmu'.remaining = 0  BY <1>0, <1>6, <2>1, Applied DEF SoftResets
  <2>3. /\ truth' \in Truth /\ truth'.why = {"software"} /\ truth'.guarded = truth.guarded
        /\ truth'.unserved = truth.unserved
    BY <1>0, <1>6 DEF SoftResets, Truth
  <2> QED  BY <1>4, <1>6, <2>2, <2>3 DEF SoftResets
<1>7. CASE ClearsCauses
  <2>1. /\ pmu' \in Pmu /\ pmu'.remaining = pmu.remaining /\ pmu'.arm = pmu.arm
        /\ pmu'.sampled = pmu.sampled
    BY <1>0, <1>7 DEF ClearsCauses, WriteInt0, Pmu
  <2>2. truth' = Quiet /\ UNCHANGED <<cmcu, count>>  BY <1>7 DEF ClearsCauses
  <2> QED  BY <1>0, <2>1, <2>2 DEF ResetsTypeOK, HalTimed, WentBy, Watched, ResetOnlyWhenDue
<1>8. CASE WritesCount
  <2>1. UNCHANGED <<pmu, cmcu>> /\ truth' = Quiet /\ count' = 0 /\ count < CountRange - Window \div 2
    BY <1>8 DEF WritesCount
  <2>2. HalTimed(pmu, Quiet, 0)  BY <1>0, <2>1, CountStartsOver
  <2> QED  BY <1>0, <2>1, <2>2, RangeOfCount DEF ResetsTypeOK, Watched, ResetOnlyWhenDue
<1>9. CASE Wakes
  <2>1. PICK causes \in SUBSET {"RTCINTR"} : pmu' = HibernateWake(pmu, causes, count)
    BY <1>9 DEF Wakes
  <2>2. /\ pmu' \in Pmu /\ pmu'.remaining = Window /\ pmu'.arm = Window
        /\ pmu'.sampled = count
    <3>1. pmu.int \cup causes \in SUBSET Causes  BY <1>0 DEF Pmu, Causes
    <3> QED  BY <1>0, <2>1, <3>1, InRange DEF HibernateWake, PmuArmed, Pmu
  <2>3. /\ truth' \in Truth /\ truth'.why = {} /\ truth'.guarded = truth.guarded
        /\ truth'.unserved = truth.unserved /\ ~truth'.acked /\ truth'.armedFor = 0
    <3>1. Quiet.wakes + 1 \in 0..MaxWakes  BY <1>0, <1>9, InRange DEF Wakes, Truth, Quiet
    <3> QED  BY <1>0, <1>9, <3>1, InRange DEF Wakes, Truth
  <2>4. UNCHANGED <<cmcu, count>>  BY <1>9 DEF Wakes
  <2>5. Since(count, count) = 0  BY <1>0, SinceValue
  <2> QED  BY <1>0, <2>2, <2>3, <2>4, <2>5, RangeOfCount
           DEF ResetsTypeOK, HalTimed, WentBy, Watched, ResetOnlyWhenDue
\* A step of the watchdog's registers.
<1>10. ASSUME pmu' = pmu, count' = count, cmcu' \in Cmcu, truth' \in Truth, truth'.why = {},
              truth'.acked = truth.acked, truth'.armedFor = truth.armedFor,
              cmcu'.running => truth'.guarded, cmcu'.unserved = truth'.unserved
       PROVE  ResetsInv'
  BY <1>0, <1>10 DEF ResetsTypeOK, HalTimed, WentBy, Watched, ResetOnlyWhenDue
<1>11. CASE SetsTimeout
  <2>1. /\ cmcu' \in Cmcu /\ cmcu'.running = cmcu.running /\ cmcu'.unserved = 0
    BY <1>0, <1>11, InRange DEF SetsTimeout, CmcuTimeout, Cmcu
  <2>2. /\ truth' \in Truth /\ truth'.why = {} /\ truth'.guarded = truth.guarded
        /\ truth'.unserved = 0 /\ truth'.acked = truth.acked /\ truth'.armedFor = truth.armedFor
    BY <1>0, <1>11, InRange DEF SetsTimeout, Truth
  <2> QED  BY <1>0, <1>10, <1>11, <2>1, <2>2 DEF SetsTimeout, Watched
<1>12. CASE SetsArg
  <2>1. cmcu' \in Cmcu /\ cmcu'.running = cmcu.running /\ cmcu'.unserved = cmcu.unserved
    BY <1>0, <1>12 DEF SetsArg, CmcuArg, Cmcu
  <2> QED  BY <1>0, <1>10, <1>12, <2>1 DEF SetsArg, Watched
<1>13. CASE SendsStart
  <2>1. CASE "start" \in cmcu.arg
    <3>1. cmcu' \in Cmcu /\ cmcu'.unserved = 0
      BY <1>0, <1>13, <2>1, InRange DEF SendsStart, CmcuStart, Cmcu
    <3>2. /\ truth' \in Truth /\ truth'.why = {} /\ truth'.guarded /\ truth'.unserved = 0
          /\ truth'.acked = truth.acked /\ truth'.armedFor = truth.armedFor
      BY <1>0, <1>13, <2>1, InRange DEF SendsStart, Truth
    <3> QED  BY <1>10, <1>13, <3>1, <3>2 DEF SendsStart
  <2>2. CASE "start" \notin cmcu.arg
    BY <1>0, <1>10, <1>13, <2>2 DEF SendsStart, CmcuStart, Watched
  <2> QED  BY <2>1, <2>2
<1>14. CASE SendsStop
  <2>1. /\ cmcu' \in Cmcu /\ cmcu'.unserved = cmcu.unserved
        /\ cmcu'.running = (cmcu.running /\ "stop" \notin cmcu.arg)
    BY <1>0, <1>14 DEF SendsStop, CmcuStop, Cmcu
  <2>2. /\ truth' \in Truth /\ truth'.why = {} /\ truth'.unserved = truth.unserved
        /\ truth'.acked = truth.acked /\ truth'.armedFor = truth.armedFor
        /\ "stop" \notin cmcu.arg => truth'.guarded = truth.guarded
    BY <1>0, <1>14 DEF SendsStop, Truth
  <2> QED  BY <1>0, <1>10, <1>14, <2>1, <2>2 DEF SendsStop, Watched
<1>15. CASE UNCHANGED resetVars
  BY <1>15 DEF resetVars, ResetsTypeOK, HalTimed, WentBy, Watched, ResetOnlyWhenDue
<1> QED  BY <1>1, <1>2, <1>3, <1>5, <1>6, <1>7, <1>8, <1>9, <1>11, <1>12, <1>13, <1>14, <1>15
         DEF HaltimerNext, WatchdogNext, EitherNext

(***************************************************************************)
(* For every window, timeout and range of Count: the HALTimer resets the   *)
(* CPU only a whole window after power-on or the last wake, unacknowledged *)
(* and even where Count is started over, the watchdog only when started    *)
(* and unserved for its timeout, and the cause is then there to be read    *)
(* (pmu_tick, cmcu_expired).                                               *)
(***************************************************************************)
THEOREM ResetsAreDue == ResetSpec => []ResetOnlyWhenDue
<1>1. ResetInit => ResetsInv  BY Starts
<1>2. ResetsInv /\ [HaltimerNext \/ WatchdogNext]_resetVars => ResetsInv'  BY Steps
<1>3. ResetsInv => ResetOnlyWhenDue  BY DEF ResetsInv
<1> QED  BY <1>1, <1>2, <1>3, PTL DEF ResetSpec

--------------------------------------------------------------------------------
(***************************************************************************)
(* The clocks.                                                             *)
(***************************************************************************)
LEMMA Division ==
    ASSUME NEW n \in Nat, NEW d \in Nat \ {0}
    PROVE  /\ n \div d \in Nat /\ n % d \in 0..d - 1
           /\ n = (n \div d) * d + (n % d)
<1>1. n \div d \in Nat /\ n % d \in 0..d - 1
  OBVIOUS
<1> DEFINE q == n \div d
           r == n % d
<1>2. n - d * q = r
  OBVIOUS
<1>3. q \in Nat /\ r \in Nat
  BY <1>1
<1> HIDE DEF q, r
<1>4. n = q * d + r
  BY <1>2, <1>3
<1> QED
  BY <1>1, <1>4 DEF q, r

\* A quotient and a remainder are the quotient and the remainder.
LEMMA DivisionIsUnique ==
    ASSUME NEW d \in Nat \ {0}, NEW q \in Nat, NEW r \in 0..d - 1, NEW n \in Nat,
           n = d * q + r
    PROVE  n \div d = q
OBVIOUS

\* Whole steps taken out of a time are whole steps of it.
LEMMA StepsTaken ==
    ASSUME NEW d \in Nat \ {0}, NEW k \in Nat, NEW r \in Nat
    PROVE  /\ (k * d + r) \div d = k + (r \div d)
           /\ (k + (r \div d)) * d + (r % d) = k * d + r
<1> DEFINE n == k * d + r
           q == r \div d
           m == r % d
<1>1. n \in Nat
  OBVIOUS
<1>2. q \in Nat /\ m \in 0..d - 1 /\ r = q * d + m
  BY Division
<1>3. n = k * d + r
  OBVIOUS
<1> HIDE DEF n, q, m
<1>4. (k + q) * d + m = n
  <2>1. (k + q) * d = k * d + q * d
    BY <1>2
  <2> QED
    BY <1>2, <1>3, <2>1
<1>5. k + q \in Nat /\ n = d * (k + q) + m
  BY <1>2, <1>4
<1>6. n \div d = k + q
  BY <1>1, <1>2, <1>5, DivisionIsUnique
<1>7. (k + q) * d + m = k * d + r /\ (k * d + r) \div d = k + q
  BY <1>3, <1>4, <1>6
<1> QED
  BY <1>7 DEF q, m

LEMMA Larger ==
    ASSUME NEW d \in Nat \ {0}, NEW a \in Nat, NEW n \in Nat
    PROVE  (a + n) \div d >= a \div d
<1> DEFINE q == a \div d
           m == a % d
<1>1. q \in Nat /\ m \in Nat /\ a = q * d + m
  BY Division
<1>2. (m + n) \div d \in Nat
  BY <1>1, Division
<1> HIDE DEF q, m
<1>3. a + n = q * d + (m + n) /\ m + n \in Nat
  BY <1>1
<1>4. (q * d + (m + n)) \div d = q + ((m + n) \div d)
  BY <1>1, <1>3, StepsTaken
<1>5. (a + n) \div d >= q
  BY <1>1, <1>2, <1>3, <1>4
<1> QED
  BY <1>5 DEF q

LEMMA RangeOfTime == /\ DigitRange \in Nat /\ DigitRange > 1 /\ StepTime \in Nat \ {0}
                     /\ Full \in Nat \ {0} /\ Ticks \in Nat /\ Ticks > 1
<1>1. DigitRange \in Nat /\ DigitRange > 1
  BY ClocksAssumption DEF ClocksAssumption
<1>2. DigitRange * DigitRange \in Nat /\ DigitRange * DigitRange > 1
  <2>1. PICK c \in Nat : DigitRange = 2 + c
    <3>1. DigitRange - 2 \in Nat /\ DigitRange = 2 + (DigitRange - 2)
      BY <1>1
    <3> QED
      BY <3>1, Zenon
  <2>2. DigitRange * DigitRange = DigitRange * 2 + DigitRange * c
    BY <2>1
  <2>3. DigitRange * c \in Nat
    BY <1>1
  <2> QED
    BY <1>1, <2>2, <2>3
<1> QED
  BY <1>1, <1>2, ClocksAssumption DEF ClocksAssumption, Ticks

\* A register holds what was written to it, half by half.
LEMMA RegHolds ==
    ASSUME NEW n \in 0..Ticks - 1
    PROVE  RegOf(n) \in [Halves -> Digits] /\ Value(RegOf(n)) = n
<1> DEFINE q == n \div DigitRange
           m == n % DigitRange
<1>0. DigitRange \in Nat \ {0} /\ n \in Nat /\ n < DigitRange * DigitRange
  BY RangeOfTime DEF Ticks
<1>1. q \in Nat /\ m \in 0..DigitRange - 1 /\ n = q * DigitRange + m
  BY <1>0, Division
<1>2. RegOf(n) = [h \in Halves |-> IF h = "high" THEN q ELSE m]
  BY DEF RegOf
<1> HIDE DEF q, m
<1>3. q < DigitRange
  <2> SUFFICES ASSUME q >= DigitRange PROVE FALSE
    BY <1>0, <1>1
  <2>1. PICK c \in Nat : q = DigitRange + c
    <3>1. q - DigitRange \in Nat /\ q = DigitRange + (q - DigitRange)
      BY <1>0, <1>1
    <3> QED
      BY <3>1, Zenon
  <2>2. q * DigitRange = DigitRange * DigitRange + c * DigitRange
    BY <1>0, <2>1
  <2>3. c * DigitRange \in Nat /\ DigitRange * DigitRange \in Nat
    BY <1>0
  <2> QED
    BY <1>0, <1>1, <2>2, <2>3
<1> QED
  BY <1>0, <1>1, <1>2, <1>3 DEF Value, Digits, Halves

LEMMA ValueInRange ==
    ASSUME NEW r \in [Halves -> Digits]
    PROVE  Value(r) \in 0..Ticks - 1
<1>1. /\ r["high"] \in Nat /\ r["high"] < DigitRange
      /\ r["low"] \in Nat /\ r["low"] < DigitRange
  BY RangeOfTime DEF Halves, Digits
<1>2. DigitRange \in Nat /\ DigitRange > 1
  BY RangeOfTime
<1> DEFINE a == r["high"]
           b == r["low"]
<1> HIDE DEF a, b
<1>3. a \in Nat /\ a < DigitRange /\ b \in Nat /\ b < DigitRange
  BY <1>1 DEF a, b
<1>4. PICK c \in Nat : DigitRange = a + 1 + c
  <2>1. DigitRange - a - 1 \in Nat /\ DigitRange = a + 1 + (DigitRange - a - 1)
    BY <1>2, <1>3
  <2> QED
    BY <2>1, Zenon
<1>5. DigitRange * DigitRange = a * DigitRange + DigitRange + c * DigitRange
  BY <1>2, <1>3, <1>4
<1>6. c * DigitRange \in Nat /\ a * DigitRange \in Nat
  BY <1>2, <1>3
<1>7. a * DigitRange + b \in 0..DigitRange * DigitRange - 1
  BY <1>2, <1>3, <1>5, <1>6
<1> QED
  BY <1>7 DEF Value, Ticks, a, b

RtcRec == [etime : [Halves -> Digits], ecmp : [Halves -> Digits], int : BOOLEAN,
           armed : BOOLEAN, fired : BOOLEAN]
AlarmRec == [target : 0..Ticks - 1, left : SUBSET Halves, on : BOOLEAN, look : BOOLEAN,
             back : BOOLEAN]

\* The compare register holds the halves written so far; an alarm that is on
\* is armed and, unless the clock went back behind it, neither fired early nor
\* silent late.
AlarmInv ==
    /\ rtc \in RtcRec /\ alarm \in AlarmRec
    /\ alarm.on \/ alarm.left # {} =>
          \A h \in Halves \ alarm.left : rtc.ecmp[h] = RegOf(alarm.target)[h]
    /\ alarm.on => alarm.left = {} /\ rtc.armed
    /\ alarm.on /\ ~alarm.back => /\ rtc.fired => Value(rtc.etime) >= alarm.target
                                  /\ Value(rtc.etime) >= alarm.target => rtc.int \/ alarm.look

LEMMA UpdateKeeps ==
    ASSUME NEW r \in RtcRec
    PROVE  LET u == UpdateElapsed(r)
               due == r.armed /\ ~r.fired /\ Value(r.etime) >= Value(r.ecmp) IN
           /\ u \in RtcRec /\ u.etime = r.etime /\ u.ecmp = r.ecmp /\ u.armed = r.armed
           /\ u.int = (r.int \/ due) /\ u.fired = (r.fired \/ due)
<1>1. CASE r.armed /\ ~r.fired /\ Value(r.etime) >= Value(r.ecmp)
  BY <1>1 DEF UpdateElapsed, RtcRec
<1>2. CASE ~(r.armed /\ ~r.fired /\ Value(r.etime) >= Value(r.ecmp))
  BY <1>2 DEF UpdateElapsed, RtcRec
<1> QED
  BY <1>1, <1>2

LEMMA WriteEcmpKeeps ==
    ASSUME NEW r \in RtcRec, NEW half \in Halves, NEW d \in Digits
    PROVE  LET u == WriteEcmp(r, half, d)
               c == [r.ecmp EXCEPT ![half] = d]
               due == Value(r.etime) >= Value(c) IN
           /\ u \in RtcRec /\ u.etime = r.etime /\ u.ecmp = c /\ u.armed
           /\ u.int = (r.int \/ due) /\ u.fired = due
<1> DEFINE c == [r.ecmp EXCEPT ![half] = d]
           e == [r EXCEPT !.ecmp = c]
           a == [e EXCEPT !.armed = TRUE, !.fired = FALSE]
<1>1. WriteEcmp(r, half, d) = UpdateElapsed(a)
  BY DEF WriteEcmp, Rearm
<1>2. c \in [Halves -> Digits]
  BY DEF RtcRec
<1> HIDE DEF c
<1>3. /\ a \in RtcRec /\ a.etime = r.etime /\ a.ecmp = c /\ a.armed = TRUE
      /\ a.fired = FALSE /\ a.int = r.int
  BY <1>2 DEF RtcRec
<1> HIDE DEF a
<1>4. /\ UpdateElapsed(a) \in RtcRec /\ UpdateElapsed(a).etime = a.etime
      /\ UpdateElapsed(a).ecmp = a.ecmp /\ UpdateElapsed(a).armed = a.armed
      /\ UpdateElapsed(a).int
            = (a.int \/ (a.armed /\ ~a.fired /\ Value(a.etime) >= Value(a.ecmp)))
      /\ UpdateElapsed(a).fired
            = (a.fired \/ (a.armed /\ ~a.fired /\ Value(a.etime) >= Value(a.ecmp)))
  BY <1>3, UpdateKeeps
<1>5. r.int \in BOOLEAN
  BY DEF RtcRec
<1> QED
  BY <1>1, <1>3, <1>4, <1>5 DEF c

LEMMA AlarmStarts == ClockInit => AlarmInv
<1> SUFFICES ASSUME ClockInit PROVE AlarmInv
  OBVIOUS
<1>1. 0 \in 0..Ticks - 1 /\ 1 \in 0..Ticks - 1 /\ Ticks - 1 \in 0..Ticks - 1
  BY RangeOfTime
<1>2. RtcInit \in RtcRec
  BY <1>1, RegHolds DEF RtcInit, RtcRec
<1>3. ASSUME NEW n \in 0..Ticks - 1
      PROVE  RtcInitAt(n) \in RtcRec
  BY <1>2, RegHolds DEF RtcInitAt, RtcRec
<1>4. rtc \in RtcRec
  BY <1>1, <1>2, <1>3 DEF ClockInit
<1> QED
  BY <1>1, <1>4 DEF ClockInit, AlarmInv, AlarmRec

\* However the clock moves, only its going back spoils an alarm.
LEMMA MovesKeep ==
    ASSUME AlarmInv, NEW t \in [Halves -> Digits],
           ClockMoves(UpdateElapsed([rtc EXCEPT !.etime = t]))
    PROVE  AlarmInv'
<1> DEFINE e == [rtc EXCEPT !.etime = t]
           due == e.armed /\ ~e.fired /\ Value(e.etime) >= Value(e.ecmp)
           back == alarm.back \/ GoesBack(t)
<1>0. rtc \in RtcRec /\ alarm \in AlarmRec
  BY DEF AlarmInv
<1>1. rtc' = UpdateElapsed(e) /\ alarm' = [alarm EXCEPT !.back = @ \/ GoesBack(rtc'.etime)]
  BY DEF ClockMoves, RtcStep
<1>2. /\ e \in RtcRec /\ e.etime = t /\ e.ecmp = rtc.ecmp /\ e.int = rtc.int
      /\ e.armed = rtc.armed /\ e.fired = rtc.fired
  BY <1>0 DEF RtcRec
<1> HIDE DEF e
<1>3. /\ rtc' \in RtcRec /\ rtc'.etime = t /\ rtc'.ecmp = rtc.ecmp
      /\ rtc'.armed = rtc.armed
      /\ rtc'.int = (rtc.int \/ due) /\ rtc'.fired = (rtc.fired \/ due)
  BY <1>1, <1>2, UpdateKeeps
<1>4. back \in BOOLEAN
  BY <1>0 DEF AlarmRec, GoesBack
<1>5. alarm' = [alarm EXCEPT !.back = back]
  BY <1>1, <1>3
<1> HIDE DEF back
<1>6. /\ alarm' \in AlarmRec /\ alarm'.back = back /\ alarm'.on = alarm.on
      /\ alarm'.left = alarm.left /\ alarm'.look = alarm.look
      /\ alarm'.target = alarm.target
  BY <1>0, <1>4, <1>5 DEF AlarmRec
<1>7. /\ alarm.on \/ alarm.left # {} =>
            \A h \in Halves \ alarm.left : rtc.ecmp[h] = RegOf(alarm.target)[h]
      /\ alarm.on => alarm.left = {} /\ rtc.armed
  BY DEF AlarmInv
<1>8. ASSUME alarm.on, ~back
      PROVE  /\ rtc'.fired => Value(t) >= alarm.target
             /\ Value(t) >= alarm.target => rtc'.int \/ alarm.look
  <2>1. Value(rtc.ecmp) = alarm.target
    <3>1. rtc.ecmp["high"] = RegOf(alarm.target)["high"]
          /\ rtc.ecmp["low"] = RegOf(alarm.target)["low"]
      BY <1>7, <1>8 DEF Halves
    <3>2. Value(rtc.ecmp) = Value(RegOf(alarm.target))
      BY <3>1 DEF Value
    <3> QED
      BY <1>0, <3>2, RegHolds DEF AlarmRec
  <2>2. due <=> ~rtc.fired /\ Value(t) >= alarm.target
    BY <1>2, <1>7, <1>8, <2>1
  <2>3. /\ rtc.fired => Value(rtc.etime) >= alarm.target
        /\ Value(rtc.etime) >= alarm.target => rtc.int \/ alarm.look
    BY <1>8 DEF AlarmInv, back
  <2>4. Value(rtc.etime) >= alarm.target => ~(Value(t) < alarm.target)
    BY <1>8 DEF GoesBack, back
  <2>5. Value(t) \in Int /\ Value(rtc.etime) \in Int /\ alarm.target \in Int
    BY <1>0, ValueInRange, RangeOfTime DEF RtcRec, AlarmRec
  <2>6. rtc.int \in BOOLEAN /\ rtc.fired \in BOOLEAN /\ alarm.look \in BOOLEAN
    BY <1>0 DEF RtcRec, AlarmRec
  <2> HIDE DEF due
  <2>7. rtc.fired => Value(t) >= alarm.target
    BY <2>3, <2>4, <2>5
  <2>8. rtc'.fired => Value(t) >= alarm.target
    BY <1>3, <2>2, <2>6, <2>7
  <2>9. Value(t) >= alarm.target => rtc'.int \/ alarm.look
    <3>1. CASE due
      BY <1>3, <2>6, <3>1
    <3>2. CASE ~due
      BY <1>3, <2>2, <2>3, <2>6, <3>2
    <3> QED
      BY <3>1, <3>2
  <2> QED
    BY <2>8, <2>9
<1> QED
  BY <1>3, <1>6, <1>7, <1>8 DEF AlarmInv

LEMMA AlarmSteps == AlarmInv /\ [AlarmNext \/ BatteryNext]_clockVars => AlarmInv'
<1> SUFFICES ASSUME AlarmInv, [AlarmNext \/ BatteryNext]_clockVars PROVE AlarmInv'
  OBVIOUS
<1>0. rtc \in RtcRec /\ alarm \in AlarmRec
  BY DEF AlarmInv
<1>1. CASE SetsTarget
  <2>1. PICK n \in 0..Ticks - 1 :
          alarm' = [alarm EXCEPT !.target = n, !.left = Halves, !.on = FALSE, !.back = FALSE]
    BY <1>1 DEF SetsTarget
  <2>2. rtc' = rtc
    BY <1>1 DEF SetsTarget, RtcStep
  <2>3. alarm' \in AlarmRec /\ alarm'.left = Halves /\ alarm'.on = FALSE
    BY <1>0, <2>1 DEF AlarmRec
  <2> QED
    BY <1>0, <2>2, <2>3 DEF AlarmInv
<1>2. CASE WritesHalf
  <2>1. PICK h \in alarm.left :
          /\ rtc' = WriteEcmp(rtc, h, RegOf(alarm.target)[h])
          /\ alarm' = [alarm EXCEPT !.left = @ \ {h}, !.on = (alarm.left = {h})]
    BY <1>2 DEF WritesHalf, RtcStep
  <2>2. /\ h \in Halves /\ alarm.target \in 0..Ticks - 1
        /\ RegOf(alarm.target) \in [Halves -> Digits]
        /\ Value(RegOf(alarm.target)) = alarm.target
        /\ RegOf(alarm.target)[h] \in Digits
    BY <1>0, RegHolds DEF AlarmRec
  <2> DEFINE t == RegOf(alarm.target)
             c == [rtc.ecmp EXCEPT ![h] = t[h]]
             left == alarm.left \ {h}
             on == (alarm.left = {h})
  <2>3. /\ rtc' \in RtcRec /\ rtc'.etime = rtc.etime /\ rtc'.ecmp = c /\ rtc'.armed
        /\ rtc'.int = (rtc.int \/ Value(rtc.etime) >= Value(c))
        /\ rtc'.fired = (Value(rtc.etime) >= Value(c))
    BY <1>0, <2>1, <2>2, WriteEcmpKeeps
  <2>4. left \in SUBSET Halves /\ on \in BOOLEAN /\ (on => left = {})
    BY <1>0 DEF AlarmRec
  <2>5. \A g \in Halves \ left : c[g] = t[g]
    <3> SUFFICES ASSUME NEW g \in Halves \ left PROVE c[g] = t[g]
      OBVIOUS
    <3>1. rtc.ecmp \in [Halves -> Digits]
      BY <1>0 DEF RtcRec
    <3>2. g # h => rtc.ecmp[g] = t[g]
      BY DEF AlarmInv
    <3> QED
      BY <2>2, <3>1, <3>2
  <2>6. on => Value(c) = alarm.target
    <3> SUFFICES ASSUME on PROVE Value(c) = alarm.target
      OBVIOUS
    <3>1. c["high"] = t["high"] /\ c["low"] = t["low"]
      BY <2>4, <2>5 DEF Halves
    <3> HIDE DEF c, t
    <3>2. Value(c) = Value(t)
      BY <3>1 DEF Value
    <3> QED
      BY <2>2, <3>2 DEF t
  <2>7. alarm' = [alarm EXCEPT !.left = left, !.on = on]
    BY <2>1
  <2> HIDE DEF c, left, on
  <2>8. /\ alarm' \in AlarmRec /\ alarm'.left = left /\ alarm'.on = on
        /\ alarm'.target = alarm.target
    BY <1>0, <2>4, <2>7 DEF AlarmRec
  <2> QED
    BY <2>3, <2>4, <2>5, <2>6, <2>8 DEF AlarmInv
<1>3. CASE ClearsAlarm
  <2>1. rtc' = [rtc EXCEPT !.int = FALSE] /\ alarm' = [alarm EXCEPT !.look = TRUE]
    BY <1>3 DEF ClearsAlarm, RtcStep, WriteRtcInt
  <2>2. /\ alarm' \in AlarmRec /\ alarm'.left = alarm.left /\ alarm'.on = alarm.on
        /\ alarm'.target = alarm.target /\ alarm'.look = TRUE /\ alarm'.back = alarm.back
        /\ rtc' \in RtcRec /\ rtc'.etime = rtc.etime /\ rtc'.ecmp = rtc.ecmp
        /\ rtc'.armed = rtc.armed /\ rtc'.fired = rtc.fired
    BY <1>0, <2>1 DEF AlarmRec, RtcRec
  <2> QED
    BY <2>2 DEF AlarmInv
<1>4. CASE LooksAtTime
  <2> DEFINE on == alarm.on /\ Value(rtc.etime) < alarm.target
  <2>1. rtc' = rtc /\ alarm' = [alarm EXCEPT !.look = FALSE, !.on = on]
    BY <1>4 DEF LooksAtTime, RtcStep
  <2>2. on \in BOOLEAN
    OBVIOUS
  <2>3. on => alarm.on /\ ~(Value(rtc.etime) >= alarm.target)
    BY <1>0, ValueInRange, RangeOfTime DEF RtcRec, AlarmRec
  <2> HIDE DEF on
  <2>4. /\ alarm' \in AlarmRec /\ alarm'.left = alarm.left /\ alarm'.on = on
        /\ alarm'.target = alarm.target /\ alarm'.back = alarm.back
    BY <1>0, <2>1, <2>2 DEF AlarmRec
  <2> QED
    BY <1>0, <2>1, <2>3, <2>4 DEF AlarmInv
<1>5. CASE SetsTime
  <2>1. PICK h \in Halves, d \in Digits : ClockMoves(WriteEtime(rtc, h, d))
    BY <1>5 DEF SetsTime
  <2> DEFINE t == [rtc.etime EXCEPT ![h] = d]
  <2>2. t \in [Halves -> Digits]
    BY <1>0 DEF RtcRec
  <2>3. WriteEtime(rtc, h, d) = UpdateElapsed([rtc EXCEPT !.etime = t])
    BY DEF WriteEtime
  <2> HIDE DEF t
  <2> QED
    BY <2>1, <2>2, <2>3, MovesKeep
<1>6. CASE ClockTicks
  <2>1. PICK n \in 1..2 : ClockMoves(RtcTick(rtc, n))
    BY <1>6 DEF ClockTicks
  <2> DEFINE v == (Value(rtc.etime) + n) % Ticks
             t == RegOf(v)
  <2>2. v \in 0..Ticks - 1
    <3>1. Value(rtc.etime) + n \in Nat /\ Ticks \in Nat \ {0}
      BY <1>0, ValueInRange, RangeOfTime DEF RtcRec
    <3> QED
      BY <3>1, Division
  <2>3. RtcTick(rtc, n) = UpdateElapsed([rtc EXCEPT !.etime = t])
    BY DEF RtcTick
  <2> HIDE DEF v
  <2>4. t \in [Halves -> Digits]
    BY <2>2, RegHolds
  <2> HIDE DEF t
  <2> QED
    BY <2>1, <2>3, <2>4, MovesKeep
<1>7. CASE BatteryNext \/ UNCHANGED clockVars
  <2>1. rtc' = rtc /\ alarm' = alarm
    BY <1>7 DEF BatteryNext, BatteryTime, BatteryRead, BatteryStep, clockVars
  <2> QED
    BY <2>1 DEF AlarmInv
<1> QED
  BY <1>1, <1>2, <1>3, <1>4, <1>5, <1>6, <1>7 DEF AlarmNext

BatteryRec == [mode : Modes, level : 0..Full, started : BOOLEAN, since : Nat]
DrawnRec == [time : Nat, from : 0..Full, mode : Modes]

\* k steps of the level are accounted for, and the rest of the time is pending.
Accounted(b, w, k) ==
    /\ w.time = k * StepTime + b.since
    /\ w.mode = "discharging" => /\ b.mode = w.mode
                                 /\ b.level = IF k >= w.from THEN 0 ELSE w.from - k
    /\ w.mode = "charging" => b.mode = w.mode /\ b.level = w.from + k

Accountable(b, w) ==
    CASE ~b.started -> b.mode = w.mode /\ b.level = w.from /\ w.time = 0
      [] b.started /\ w.mode = "ac" -> b.mode = "ac" /\ b.level = w.from
      [] b.started /\ w.mode = "charging" /\ b.mode = "ac" ->
            b.level = Full /\ w.time \div StepTime >= Full - w.from
      [] OTHER -> \E k \in Nat : Accounted(b, w, k)

BatteryInv == battery \in BatteryRec /\ drawn \in DrawnRec /\ Accountable(battery, drawn)

\* What a read makes of the battery at any moment.
Told(b, w) ==
    LET steps == w.time \div StepTime
        a == Advance(b)
    IN /\ w.mode = "ac" => a.level = w.from /\ a.mode = "ac"
       /\ w.mode = "discharging" =>
             a.level = (IF steps >= w.from THEN 0 ELSE w.from - steps)
       /\ w.mode = "charging" =>
             /\ a.level = (IF steps >= Full - w.from THEN Full ELSE w.from + steps)
             /\ b.started /\ steps > 0 => (a.mode = "charging" <=> a.level < Full)
             /\ a.mode # "discharging"

LEMMA Levels ==
    ASSUME NEW b \in BatteryRec, NEW w \in DrawnRec, Accountable(b, w)
    PROVE  Advance(b) \in BatteryRec /\ Accountable(Advance(b), w) /\ Told(b, w)
<1>0. StepTime \in Nat \ {0} /\ Full \in Nat \ {0}
  BY RangeOfTime
<1>1. CASE ~b.started
  <2> DEFINE a == [b EXCEPT !.started = TRUE, !.since = 0]
  <2>1. Advance(b) = a
    BY <1>1 DEF Advance
  <2>2. /\ a \in BatteryRec /\ a.started = TRUE /\ a.since = 0 /\ a.mode = b.mode
        /\ a.level = b.level
    BY DEF BatteryRec
  <2> HIDE DEF a
  <2>3. b.mode = w.mode /\ b.level = w.from /\ w.time = 0 /\ w.from \in 0..Full
    BY <1>1 DEF Accountable, DrawnRec
  <2>4. 0 * StepTime + 0 = 0 /\ 0 \div StepTime = 0
    BY <1>0
  <2>5. w.mode # "ac" => Accounted(a, w, 0)
    BY <1>0, <2>2, <2>3, <2>4 DEF Accounted
  <2>6. Accountable(a, w)
    BY <2>2, <2>3, <2>5 DEF Accountable
  <2>7. Told(b, w)
    BY <1>0, <1>1, <2>1, <2>2, <2>3, <2>4 DEF Told
  <2> QED
    BY <2>1, <2>2, <2>6, <2>7
<1>2. CASE b.started /\ b.mode = "ac"
  <2> DEFINE a == [b EXCEPT !.since = 0]
  <2>1. Advance(b) = a
    BY <1>2 DEF Advance
  <2>2. /\ a \in BatteryRec /\ a.started = b.started /\ a.since = 0 /\ a.mode = b.mode
        /\ a.level = b.level
    BY DEF BatteryRec
  <2> HIDE DEF a
  <2>3. CASE w.mode = "ac"
    BY <1>2, <2>1, <2>2, <2>3 DEF Accountable, Told
  <2>4. CASE w.mode = "charging"
    <3>1. b.level = Full /\ w.time \div StepTime >= Full - w.from
      BY <1>2, <2>4 DEF Accountable
    <3>2. Accountable(a, w)
      BY <1>2, <2>2, <2>4, <3>1 DEF Accountable
    <3>3. Told(b, w)
      BY <1>0, <1>2, <2>1, <2>2, <2>4, <3>1 DEF Told
    <3> QED
      BY <2>1, <2>2, <3>2, <3>3
  <2>5. w.mode # "discharging"
    BY <1>2 DEF Accountable, Accounted
  <2> QED
    BY <2>3, <2>4, <2>5 DEF DrawnRec, Modes
<1>3. CASE b.started /\ b.mode # "ac"
  <2>1. w.mode # "ac" /\ \E k \in Nat : Accounted(b, w, k)
    BY <1>3 DEF Accountable
  <2>2. PICK k \in Nat : Accounted(b, w, k)
    BY <2>1
  <2> DEFINE q == b.since \div StepTime
             r == b.since % StepTime
             l == Levelled(b, q)
             a == [l EXCEPT !.since = r]
             steps == w.time \div StepTime
  <2>3. b.since \in Nat /\ b.level \in 0..Full /\ w.from \in 0..Full /\ w.time \in Nat
        /\ b.mode \in {"charging", "discharging"} /\ w.mode \in {"charging", "discharging"}
    BY <1>3, <2>1 DEF BatteryRec, DrawnRec, Modes
  <2>4. q \in Nat /\ r \in Nat
    <3>1. q \in Nat /\ r \in 0..StepTime - 1
      BY <1>0, <2>3, Division
    <3> HIDE DEF q, r
    <3> QED
      BY <1>0, <3>1
  <2>5. steps = k + q /\ w.time = (k + q) * StepTime + r
    <3>1. w.time = k * StepTime + b.since
      BY <2>2 DEF Accounted
    <3>2. /\ (k * StepTime + b.since) \div StepTime = k + q
          /\ (k + q) * StepTime + r = k * StepTime + b.since
      BY <1>0, <2>3, StepsTaken
    <3> HIDE DEF q, r
    <3> QED
      BY <3>1, <3>2
  <2>6. l.since = b.since
    BY DEF Levelled, BatteryRec
  <2>7. Advance(b) = [l EXCEPT !.since = @ % StepTime]
    BY <1>3 DEF Advance
  <2>8. Advance(b) = a
    BY <2>6, <2>7
  <2> HIDE DEF q, r, steps
  <2>9. CASE w.mode = "discharging"
    <3> DEFINE v == IF q >= b.level THEN 0 ELSE b.level - q
    <3>1. b.mode = "discharging" /\ b.level = IF k >= w.from THEN 0 ELSE w.from - k
      BY <2>2, <2>9 DEF Accounted
    <3>2. l = [b EXCEPT !.level = v]
      BY <3>1 DEF Levelled
    <3>3. v \in 0..Full /\ v = IF k + q >= w.from THEN 0 ELSE w.from - (k + q)
      BY <1>0, <2>3, <2>4, <3>1
    <3> HIDE DEF v, l
    <3>4. /\ a \in BatteryRec /\ a.level = v /\ a.mode = "discharging" /\ a.since = r
          /\ a.started
      BY <1>3, <2>4, <3>1, <3>2, <3>3 DEF BatteryRec
    <3> HIDE DEF a
    <3>5. Accounted(a, w, k + q)
      BY <2>5, <2>9, <3>3, <3>4 DEF Accounted
    <3>6. k + q \in Nat
      BY <2>4
    <3>7. Accountable(a, w)
      BY <2>9, <3>4, <3>5, <3>6 DEF Accountable
    <3>8. Told(b, w)
      BY <2>5, <2>8, <2>9, <3>3, <3>4 DEF Told, steps
    <3> QED
      BY <2>8, <3>4, <3>7, <3>8
  <2>10. CASE w.mode = "charging"
    <3>1. b.mode = "charging" /\ b.level = w.from + k
      BY <2>2, <2>10 DEF Accounted
    <3>2. CASE q >= Full - b.level
      <4>1. l = [b EXCEPT !.level = Full, !.mode = "ac"]
        BY <3>1, <3>2 DEF Levelled
      <4>2. steps >= Full - w.from
        BY <1>0, <2>3, <2>4, <2>5, <3>1, <3>2
      <4> HIDE DEF l
      <4>3. /\ l \in BatteryRec /\ l.level = Full /\ l.mode = "ac"
            /\ l.started = b.started
        <5>1. Full \in 0..Full /\ "ac" \in Modes
          BY <1>0 DEF Modes
        <5> QED
          BY <4>1, <5>1 DEF BatteryRec
      <4>4. a \in BatteryRec /\ a.level = Full /\ a.mode = "ac" /\ a.started
        BY <1>3, <2>4, <4>3 DEF BatteryRec
      <4> HIDE DEF a
      <4>5. Accountable(a, w)
        BY <2>10, <4>2, <4>4 DEF Accountable, steps
      <4>6. Told(b, w)
        BY <1>0, <2>8, <2>10, <4>2, <4>4 DEF Told, steps
      <4> QED
        BY <2>8, <4>4, <4>5, <4>6
    <3>3. CASE ~(q >= Full - b.level)
      <4> DEFINE v == b.level + q
      <4>1. l = [b EXCEPT !.level = v]
        BY <3>1, <3>3 DEF Levelled
      <4>2. v \in 0..Full /\ v = w.from + (k + q) /\ v < Full /\ ~(steps >= Full - w.from)
        BY <1>0, <2>3, <2>4, <2>5, <3>1, <3>3
      <4> HIDE DEF v, l
      <4>3. /\ a \in BatteryRec /\ a.level = v /\ a.mode = "charging" /\ a.since = r
            /\ a.started
        BY <1>3, <2>4, <3>1, <4>1, <4>2 DEF BatteryRec
      <4> HIDE DEF a
      <4>4. Accounted(a, w, k + q) /\ k + q \in Nat
        BY <2>4, <2>5, <2>10, <4>2, <4>3 DEF Accounted
      <4>5. Accountable(a, w)
        BY <2>10, <4>3, <4>4 DEF Accountable
      <4>6. Told(b, w)
        BY <2>5, <2>8, <2>10, <4>2, <4>3 DEF Told, steps
      <4> QED
        BY <2>8, <4>3, <4>5, <4>6
    <3> QED
      BY <3>2, <3>3
  <2> QED
    BY <2>3, <2>9, <2>10
<1> QED
  BY <1>1, <1>2, <1>3 DEF BatteryRec

LEMMA BatterySteps == BatteryInv /\ [AlarmNext \/ BatteryNext]_clockVars => BatteryInv'
<1> SUFFICES ASSUME BatteryInv, [AlarmNext \/ BatteryNext]_clockVars PROVE BatteryInv'
  OBVIOUS
<1>0. /\ battery \in BatteryRec /\ drawn \in DrawnRec /\ Accountable(battery, drawn)
      /\ battery.since \in Nat /\ drawn.time \in Nat /\ battery.started \in BOOLEAN
      /\ StepTime \in Nat \ {0} /\ Full \in Nat \ {0} /\ drawn.from \in 0..Full
  BY RangeOfTime DEF BatteryInv, BatteryRec, DrawnRec
<1>1. CASE BatteryRead
  <2>1. battery' = Advance(battery) /\ drawn' = drawn
    BY <1>1 DEF BatteryRead, BatteryStep
  <2> QED
    BY <1>0, <2>1, Levels DEF BatteryInv
<1>2. CASE BatteryTime
  <2>1. PICK n \in 1..StepTime + 1 :
          /\ battery' = [battery EXCEPT !.since = IF battery.started THEN @ + n ELSE 0]
          /\ drawn' = [drawn EXCEPT !.time = IF battery.started THEN @ + n ELSE 0]
    BY <1>2 DEF BatteryTime, BatteryStep
  <2> DEFINE s == IF battery.started THEN battery.since + n ELSE 0
             t == IF battery.started THEN drawn.time + n ELSE 0
  <2>2. s \in Nat /\ t \in Nat /\ n \in Nat
    BY <1>0
  <2>3. battery' = [battery EXCEPT !.since = s] /\ drawn' = [drawn EXCEPT !.time = t]
    BY <2>1
  <2>4. /\ battery.started => s = battery.since + n /\ t = drawn.time + n
        /\ ~battery.started => t = 0
    OBVIOUS
  <2> HIDE DEF s, t
  <2>5. /\ battery' \in BatteryRec /\ battery'.since = s /\ battery'.mode = battery.mode
        /\ battery'.level = battery.level /\ battery'.started = battery.started
        /\ drawn' \in DrawnRec /\ drawn'.time = t /\ drawn'.from = drawn.from
        /\ drawn'.mode = drawn.mode
    BY <1>0, <2>2, <2>3 DEF BatteryRec, DrawnRec
  <2>6. ASSUME NEW k \in Nat, Accounted(battery, drawn, k), battery.started
        PROVE  Accounted(battery', drawn', k)
    <3>1. k * StepTime \in Nat
      BY <1>0
    <3>2. t = k * StepTime + s
      BY <1>0, <2>2, <2>4, <2>6, <3>1 DEF Accounted
    <3> QED
      BY <2>5, <2>6, <3>2 DEF Accounted
  <2>7. battery.started => t \div StepTime >= drawn.time \div StepTime
    BY <1>0, <2>2, <2>4, Larger
  <2>8. t \div StepTime \in Nat /\ drawn.time \div StepTime \in Nat
    BY <1>0, <2>2, Division
  <2>9. Accountable(battery', drawn')
    <3>1. CASE ~battery.started
      BY <1>0, <2>4, <2>5, <3>1 DEF Accountable
    <3>2. CASE battery.started /\ drawn.mode = "ac"
      BY <1>0, <2>5, <3>2 DEF Accountable
    <3>3. CASE battery.started /\ drawn.mode = "charging" /\ battery.mode = "ac"
      <4>1. battery.level = Full /\ drawn.time \div StepTime >= Full - drawn.from
        BY <1>0, <3>3 DEF Accountable
      <4>2. t \div StepTime >= Full - drawn.from
        BY <1>0, <2>7, <2>8, <3>3, <4>1
      <4> QED
        BY <2>5, <3>3, <4>1, <4>2 DEF Accountable
    <3>4. CASE /\ battery.started /\ drawn.mode # "ac"
               /\ ~(drawn.mode = "charging" /\ battery.mode = "ac")
      <4>1. \E k \in Nat : Accounted(battery, drawn, k)
        BY <1>0, <3>4 DEF Accountable
      <4>2. \E k \in Nat : Accounted(battery', drawn', k)
        BY <2>6, <3>4, <4>1
      <4> QED
        BY <2>5, <3>4, <4>2 DEF Accountable
    <3> QED
      BY <3>1, <3>2, <3>3, <3>4
  <2> QED
    BY <2>5, <2>9 DEF BatteryInv
<1>3. CASE AlarmNext \/ UNCHANGED clockVars
  <2>1. battery' = battery /\ drawn' = drawn
    BY <1>3 DEF AlarmNext, SetsTarget, WritesHalf, ClearsAlarm, LooksAtTime, SetsTime,
                ClockTicks, ClockMoves, RtcStep, clockVars
  <2> QED
    BY <2>1 DEF BatteryInv
<1> QED
  BY <1>1, <1>2, <1>3 DEF BatteryNext

(***************************************************************************)
(* For every width of the RTC's registers and every battery: an alarm that *)
(* is set is pending as soon as its time has come until its handler has    *)
(* cleared it, and then until it has looked at the time, in whatever       *)
(* halves clock and compare register are written, unless the clock went    *)
(* back behind it (rtc_rearm_elapsed_irq, rtc_write); and what a read      *)
(* finds of the battery depends on the time gone by alone, not on the      *)
(* reads before (battery_advance).                                         *)
(***************************************************************************)
THEOREM ClocksAreRight == ClockSpec => []ClocksKeepTime
<1>1. ClockInit => AlarmInv /\ BatteryInv
  <2> SUFFICES ASSUME ClockInit PROVE BatteryInv
    BY AlarmStarts
  <2>1. PICK level \in 0..Full, mode \in Modes :
          battery = BatteryInit(level, mode) /\ drawn = [time |-> 0, from |-> level, mode |-> mode]
    BY DEF ClockInit
  <2> QED
    BY <2>1 DEF BatteryInv, BatteryInit, BatteryRec, DrawnRec, Accountable
<1>2. AlarmInv /\ BatteryInv /\ [AlarmNext \/ BatteryNext]_clockVars
        => AlarmInv' /\ BatteryInv'
  BY AlarmSteps, BatterySteps
<1>3. AlarmInv /\ BatteryInv => ClocksKeepTime
  <2> SUFFICES ASSUME AlarmInv, BatteryInv PROVE ClocksKeepTime
    OBVIOUS
  <2>1. Told(battery, drawn) /\ Advance(battery) \in BatteryRec
    BY Levels DEF BatteryInv
  <2>2. alarm.on /\ ~alarm.back /\ Value(rtc.etime) >= alarm.target
           => rtc.int \/ alarm.look
    BY DEF AlarmInv
  <2> DEFINE a == Advance(battery)
             steps == drawn.time \div StepTime
  <2>3. BatteryGpio(a) = CASE a.mode = "discharging" -> {12} [] a.mode = "charging" -> {2}
                           [] OTHER -> {}
    BY DEF BatteryGpio
  <2>4. (a.mode = "ac" => BatteryGpio(a) = {})
        /\ (a.mode # "discharging" => (2 \in BatteryGpio(a) <=> a.mode = "charging"))
    BY <2>1, <2>3 DEF BatteryRec, Modes
  <2> HIDE DEF a, steps
  <2>5. /\ drawn.mode = "ac" => a.level = drawn.from /\ a.mode = "ac"
        /\ drawn.mode = "discharging" =>
              a.level = (IF steps >= drawn.from THEN 0 ELSE drawn.from - steps)
        /\ drawn.mode = "charging" =>
              /\ a.level = (IF steps >= Full - drawn.from THEN Full ELSE drawn.from + steps)
              /\ battery.started /\ steps > 0 => (a.mode = "charging" <=> a.level < Full)
              /\ a.mode # "discharging"
    BY <2>1 DEF Told, a, steps
  <2>6. /\ drawn.mode = "ac" => a.level = drawn.from /\ BatteryGpio(a) = {}
        /\ drawn.mode = "charging" /\ battery.started /\ steps > 0
              => (2 \in BatteryGpio(a) <=> a.level < Full)
    BY <2>4, <2>5
  <2> QED
    BY <2>2, <2>5, <2>6 DEF ClocksKeepTime, a, steps
<1> QED
  BY <1>1, <1>2, <1>3, PTL DEF ClockSpec

--------------------------------------------------------------------------------
(***************************************************************************)
(* The wave output: the type of its record.                                *)
(***************************************************************************)
AiuRec ==
    [ctl : SUBSET {"dma", "arm"}, running : BOOLEAN, cur : {0, 1}, pos : Nat,
     status : SUBSET {0, 1}, reg : [{0, 1} -> Nat], len : [{0, 1} -> Nat], owed : Nat,
     on : BOOLEAN, line : BOOLEAN, out : Seq(Nat \X Nat), mem : [{0, 1} -> Nat],
     fresh : SUBSET {0, 1}, next : Nat, ist : {"idle", "woken", "awake", "ack0", "ack1", "fill"},
     seen : SUBSET {0, 1}, late : BOOLEAN, last : Nat \X Nat]

\* The frame that was heard last.
Latest(s) == IF s.out = <<>> THEN s.last ELSE s.out[Len(s.out)]

\* The block that the cursor is in continues the one heard last.
Continues(s) ==
    LET h == Latest(s)
        b == s.mem[s.cur]
    IN  /\ s.pos > 0 => h = <<b, s.pos>>
        /\ s.pos = 0 => /\ h[2] \in {0, s.reg[0], s.reg[1]}
                        /\ \/ s.len[0] = 0 /\ s.len[1] = 0
                           \/ h[1] = b - 1
                           \/ s.len[s.cur] > 0 /\ s.len[1 - s.cur] = 0 /\ h[1] = b - 2
\* The buffer that is played is filled; the other has the next block, or waits for it.
Filled(s) ==
    LET b == s.mem[s.cur]
    IN  /\ s.cur \in s.fresh
        /\ IF 1 - s.cur \in s.fresh THEN s.mem[1 - s.cur] = b + 1 /\ s.next = b + 2
                                    ELSE s.next = b + 1
Playing(s) == s.len = s.reg /\ s.pos <= s.len[s.cur] /\ InOrder(s) /\ Continues(s) /\ Filled(s)

\* Where the thread has come to with a buffer that has drained.
Drained(s) == {0, 1} \ s.fresh
Tracked(s) ==
    /\ s.ist \in {"woken", "awake", "ack0", "ack1"} => Drained(s) # {}
    /\ s.ist \in {"idle", "woken", "awake"} => s.seen = {} /\ s.status = Drained(s)
    /\ s.ist = "ack0" => s.seen = Drained(s) /\ s.status = Drained(s)
    /\ s.ist = "ack1" => s.seen = Drained(s) /\ s.status \subseteq Drained(s) \ {0}
    /\ s.ist = "fill" => \/ s.seen = {} /\ s.status = Drained(s)
                         \/ s.seen = Drained(s) /\ s.status = {}
Orderly(s) == ~s.late => Playing(s) /\ Tracked(s)

\* Both buffers are filled, and nothing has been played.
Prepared(s) ==
    /\ s.ist = "idle" /\ s.fresh = {0, 1} /\ s.status = {} /\ ~s.line /\ ~s.late
    /\ s.mem[1] = s.mem[0] + 1 /\ s.next = s.mem[0] + 2
    /\ s.last[1] = s.mem[0] - 1 /\ s.last[2] = 0

\* The cursor is within its buffer.
Within(s) == s \in AiuRec /\ s.pos <= s.len[s.cur]

AiuTyped(s) ==
    /\ s \in AiuRec /\ s.ctl \in {{}, {"dma"}, {"dma", "arm"}}
    /\ s.running = (s.ctl = {"dma", "arm"}) /\ s.next >= 1
    /\ s.ist \in {"idle", "woken", "awake"} => s.seen = {}
    /\ s.ist # "woken" => s.on
AiuSound(s) ==
    /\ AiuTyped(s)
    /\ s.ctl = {"dma"} => Prepared(s)
    /\ ~s.running => s.out = <<>>
    /\ s.running /\ s.on => (s.line <=> s.status # {})
    /\ s.running => Within(s) /\ Orderly(s)
AiuInv == AiuSound(aiu)

\* A chip that plays the same buffers, so far as the output goes.
SamePlay(s, t) ==
    /\ t.len = s.len /\ t.reg = s.reg /\ t.pos = s.pos /\ t.cur = s.cur /\ t.mem = s.mem
    /\ t.fresh = s.fresh /\ t.next = s.next /\ t.late = s.late

\* The order of what is heard depends on the buffers and the frames alone.
LEMMA PlayingAlike ==
    ASSUME NEW s, NEW t, SamePlay(s, t), t.out = s.out, t.last = s.last, Playing(s)
    PROVE  Playing(t)
BY DEF Playing, SamePlay, InOrder, NextBlock, Continues, Latest, Filled

\* Hearing the frames that were played makes the last of them the last.
LEMMA HeardKeeps ==
    ASSUME NEW s \in AiuRec
    PROVE  /\ Heard(s) \in AiuRec /\ Heard(s) = [s EXCEPT !.out = <<>>, !.last = Latest(s)]
           /\ Heard(s).out = <<>> /\ Heard(s).last = Latest(s)
           /\ Playing(s) => Playing(Heard(s))
           /\ SamePlay(s, Heard(s))
<1>1. s.out \in Seq(Nat \X Nat) /\ s.last \in Nat \X Nat
  BY DEF AiuRec
<1>2. s.out # <<>> => Len(s.out) \in 1..Len(s.out)
  BY <1>1, LenProperties, EmptySeq
<1>3. Latest(s) \in Nat \X Nat
  BY <1>1, <1>2, ElementOfSeq DEF Latest
<1>4. Heard(s) = [s EXCEPT !.out = <<>>, !.last = Latest(s)]
  BY DEF Heard, Latest, Last
<1> DEFINE l == Latest(s)
           none == <<>>
<1>5. none \in Seq(Nat \X Nat)
  OBVIOUS
<1>6. /\ Heard(s) \in AiuRec /\ Heard(s).out = none /\ Heard(s).last = l /\ SamePlay(s, Heard(s))
  <2> HIDE DEF l, none
  <2>1. Heard(s) = [s EXCEPT !.out = none, !.last = l]
    BY <1>4 DEF l, none
  <2>2. l \in Nat \X Nat
    BY <1>3 DEF l
  <2>3. Heard(s) \in AiuRec
    BY <1>5, <2>1, <2>2, ZenonT(60) DEF AiuRec
  <2>4. Heard(s).out = none /\ Heard(s).last = l /\ SamePlay(s, Heard(s))
    BY <1>5, <2>1, ZenonT(60) DEF AiuRec, SamePlay
  <2> QED BY <2>3, <2>4
<1>7. ASSUME Playing(s) PROVE Playing(Heard(s))
  <2>1. Latest(Heard(s)) = Latest(s)
    BY <1>6 DEF Latest
  <2>2. InOrder(Heard(s))
    BY <1>6 DEF InOrder
  <2> QED
    BY <1>6, <1>7, <2>1, <2>2 DEF Playing, SamePlay, Continues, Filled
<1> QED
  BY <1>4, <1>6, <1>7

\* The frames that follow the cursor.
LEMMA EmittedIs ==
    ASSUME NEW s \in AiuRec, NEW n \in Nat
    PROVE  /\ Emitted(s, n) \in Seq(Nat \X Nat) /\ Len(Emitted(s, n)) = n
           /\ \A k \in 1..n : Emitted(s, n)[k] = <<s.mem[s.cur], s.pos + k>>
<1>1. s.mem[s.cur] \in Nat /\ s.pos \in Nat
  BY DEF AiuRec
<1> DEFINE f(k) == <<s.mem[s.cur], s.pos + k>>
<1>2. \A k \in 1..n : f(k) \in Nat \X Nat
  BY <1>1
<1>3. Emitted(s, n) = [k \in 1..n |-> f(k)]
  BY DEF Emitted
<1> HIDE DEF f
<1>4. [k \in 1..n |-> f(k)] \in [1..n -> Nat \X Nat]
  BY <1>2
<1>5. Emitted(s, n) \in Seq(Nat \X Nat) /\ DOMAIN Emitted(s, n) = 1..n
  BY <1>3, <1>4, SeqDef
<1>6. Len(Emitted(s, n)) = n
  BY <1>5, LenProperties
<1> QED
  BY <1>3, <1>5, <1>6 DEF f

\* Length and concatenation under names the provers leave alone.
Size(t) == Len(t)
Cat(s, t) == s \o t

Joint(S, u, s, t, a, b) ==
    /\ u \in Seq(S) /\ Size(u) = a + b /\ a \in Nat /\ b \in Nat
    /\ \A i \in 1..a : u[i] = s[i]
    /\ \A j \in 1..b : u[a + j] = t[j]

\* A concatenation has the elements of the one, then those of the other.
LEMMA CatIs ==
    ASSUME NEW S, NEW s \in Seq(S), NEW t \in Seq(S)
    PROVE  Joint(S, Cat(s, t), s, t, Size(s), Size(t))
<1> DEFINE u == Cat(s, t)
           m == Size(s)
           n == Size(t)
<1>1. /\ u \in Seq(S) /\ Size(u) = m + n /\ m \in Nat /\ n \in Nat
      /\ \A i \in 1..m + n : u[i] = IF i <= m THEN s[i] ELSE t[i - m]
  BY ConcatProperties, LenProperties DEF Size, Cat
<1> HIDE DEF u, m, n
<1>3. ASSUME NEW i \in 1..m PROVE u[i] = s[i]
  BY <1>1
<1>4. ASSUME NEW j \in 1..n PROVE u[m + j] = t[j]
  <2>1. m + j \in 1..m + n /\ ~(m + j <= m) /\ (m + j) - m = j
    BY <1>1
  <2> QED BY <1>1, <2>1
<1> QED
  BY <1>1, <1>3, <1>4 DEF u, m, n, Joint

\* The frame heard before the step, and those of the step.
Led(S, c, x, q, m) == \A k \in 1..m + 1 : c[k] = IF k = 1 THEN x ELSE q[k - 1]

\* The frames of a step, after the frame that was heard before them.
LEMMA Prefixed ==
    ASSUME NEW S, NEW x \in S, NEW q \in Seq(S)
    PROVE  Led(S, Cat(<<x>>, q), x, q, Size(q))
<1> DEFINE p == <<x>>
           c == Cat(p, q)
           m == Size(q)
<1>1. p \in Seq(S) /\ Size(p) = 1 /\ p[1] = x
  BY DEF Size
<1> HIDE DEF p
<1>2. /\ m \in Nat /\ \A i \in 1..1 : c[i] = p[i]
      /\ \A j \in 1..m : c[1 + j] = q[j]
  <2>1. Joint(S, c, p, q, Size(p), m)
    BY <1>1, CatIs
  <2> HIDE DEF c, m
  <2> QED BY <1>1, <2>1 DEF Joint
<1> HIDE DEF c, m
<1>3. ASSUME NEW k \in 1..m + 1 PROVE c[k] = IF k = 1 THEN x ELSE q[k - 1]
  <2>1. k # 1 => k - 1 \in 1..m /\ 1 + (k - 1) = k
    BY <1>2
  <2> QED BY <1>1, <1>2, <2>1
<1> QED
  BY <1>3 DEF c, p, m, Led

\* Where the frames of a step come after those heard before.
After(m, n, o, u, e) == (\A k \in 1..m : u[k] = o[k]) /\ (\A k \in 1..n : u[m + k] = e[k])
Placement(m, n, o, u, e, all, more, x) ==
    /\ \A k \in 1..m + 1 : more[k] = all[k]
    /\ \A k \in 1..n : more[m + 1 + k] = e[k]
    /\ all[m + 1] = IF m = 0 THEN x ELSE o[m]
    /\ more[m + n + 1] = IF m + n = 0 THEN x ELSE u[m + n]

\* Frames that are appended leave those before them where they were.
LEMMA Placed ==
    ASSUME NEW m \in Nat, NEW n \in Nat, NEW o, NEW u, NEW e, NEW all, NEW more, NEW x, NEW S,
           After(m, n, o, u, e), Led(S, all, x, o, m), Led(S, more, x, u, m + n)
    PROVE  Placement(m, n, o, u, e, all, more, x)
<1>1. /\ \A k \in 1..m + 1 : all[k] = IF k = 1 THEN x ELSE o[k - 1]
      /\ \A k \in 1..m + n + 1 : more[k] = IF k = 1 THEN x ELSE u[k - 1]
  BY DEF Led
<1>2. ASSUME NEW k \in 1..m + 1 PROVE more[k] = all[k]
  <2>1. k \in 1..m + n + 1 /\ (k # 1 => k - 1 \in 1..m)
    OBVIOUS
  <2> QED BY <1>1, <2>1 DEF After
<1>3. ASSUME NEW k \in 1..n PROVE more[m + 1 + k] = e[k]
  <2>1. m + 1 + k \in 1..m + n + 1 /\ m + 1 + k # 1 /\ (m + 1 + k) - 1 = m + k
    OBVIOUS
  <2> QED BY <1>1, <2>1 DEF After
<1>4. all[m + 1] = IF m = 0 THEN x ELSE o[m]
  <2>1. m + 1 \in 1..m + 1 /\ (m + 1) - 1 = m /\ (m + 1 = 1 <=> m = 0)
    OBVIOUS
  <2> QED BY <1>1, <2>1
<1>5. more[m + n + 1] = IF m + n = 0 THEN x ELSE u[m + n]
  <2>1. m + n + 1 \in 1..m + n + 1 /\ (m + n + 1) - 1 = m + n /\ (m + n + 1 = 1 <=> m + n = 0)
    OBVIOUS
  <2> QED BY <1>1, <2>1
<1> QED
  BY <1>2, <1>3, <1>4, <1>5 DEF Placement

\* Frames of one block, after the frame that was heard last, are in order.
LEMMA Appended ==
    ASSUME NEW s \in AiuRec, InOrder(s), Continues(s), s.len = s.reg, s.pos <= s.len[s.cur],
           NEW n \in Nat, n > 0 => s.len[s.cur] > 0,
           NEW t, t.out = s.out \o Emitted(s, n), t.last = s.last, t.reg = s.reg
    PROVE  /\ InOrder(t) /\ t.out \in Seq(Nat \X Nat)
           /\ n > 0 => Latest(t) = <<s.mem[s.cur], s.pos + n>>
           /\ n = 0 => Latest(t) = Latest(s)
<1> DEFINE e == Emitted(s, n)
           all == Cat(<<s.last>>, s.out)
           more == Cat(<<t.last>>, t.out)
           m == Size(s.out)
           l == Size(t.out)
<1>1. e \in Seq(Nat \X Nat) /\ Size(e) = n /\ \A k \in 1..n : e[k] = <<s.mem[s.cur], s.pos + k>>
  BY EmittedIs DEF Size
<1>2. s.out \in Seq(Nat \X Nat) /\ s.last \in Nat \X Nat /\ m \in Nat /\ (s.out = <<>> <=> m = 0)
  BY LenProperties, EmptySeq DEF AiuRec, Size
<1> HIDE DEF e
<1>3. t.out = Cat(s.out, e)
  BY DEF e, Cat
<1>4. /\ t.out \in Seq(Nat \X Nat) /\ l = m + n
      /\ \A k \in 1..m : t.out[k] = s.out[k]
      /\ \A k \in 1..n : t.out[m + k] = e[k]
  <2>1. Joint(Nat \X Nat, Cat(s.out, e), s.out, e, m, Size(e))
    BY <1>1, <1>2, CatIs
  <2> HIDE DEF m
  <2> QED BY <1>1, <1>3, <2>1 DEF Joint
<1>5. t.out = <<>> <=> l = 0
  BY <1>4, LenProperties, EmptySeq DEF Size
<1>6. Led(Nat \X Nat, all, s.last, s.out, m)
  BY <1>2, Prefixed
<1>7. Led(Nat \X Nat, more, t.last, t.out, l)
  BY <1>2, <1>4, Prefixed
<1>16. /\ Latest(s) = IF m = 0 THEN s.last ELSE s.out[m]
       /\ Latest(t) = IF l = 0 THEN s.last ELSE t.out[l]
  BY <1>2, <1>5 DEF Latest, Size
<1> DEFINE Step(x, y) ==
              \/ y = <<x[1], x[2] + 1>>
              \/ y[1] \in NextBlock(s, x[1]) /\ y[2] = 1 /\ x[2] \in {0, s.reg[0], s.reg[1]}
<1>11. \A k \in 1..m : Step(all[k], all[k + 1])
  BY DEF InOrder, Cat, Size
<1>0. ASSUME \A k \in 1..l : Step(more[k], more[k + 1]) PROVE InOrder(t)
  <2>1. \A b : NextBlock(t, b) = NextBlock(s, b)
    BY DEF NextBlock
  <2> QED BY <1>0, <2>1 DEF InOrder, Cat, Size
<1> HIDE DEF all, more, m, l
<1>8. /\ \A k \in 1..m + 1 : more[k] = all[k]
      /\ \A k \in 1..n : more[m + 1 + k] = e[k]
      /\ all[m + 1] = IF m = 0 THEN s.last ELSE s.out[m]
      /\ more[m + n + 1] = IF m + n = 0 THEN s.last ELSE t.out[m + n]
  <2>1. m \in Nat /\ l = m + n /\ t.last = s.last
    BY <1>2, <1>4
  <2>2. After(m, n, s.out, t.out, e)
    BY <1>4 DEF After
  <2>4. Led(Nat \X Nat, more, s.last, t.out, m + n)
    BY <1>7, <2>1
  <2>5. Placement(m, n, s.out, t.out, e, all, more, s.last)
    BY <1>6, <2>1, <2>2, <2>4, Placed
  <2> QED BY <2>5 DEF Placement
<1>9. Latest(s) = all[m + 1] /\ Latest(t) = more[m + n + 1] /\ m \in Nat /\ l = m + n
  BY <1>2, <1>4, <1>8, <1>16
<1>10. \A k \in 1..n : more[m + 1 + k] = <<s.mem[s.cur], s.pos + k>>
  BY <1>1, <1>8
<1>12. ASSUME NEW k \in 1..n PROVE Step(more[m + k], more[m + k + 1])
  <2>1. s.pos \in Nat /\ s.mem[s.cur] \in Nat /\ s.len[s.cur] \in Nat /\ s.cur \in {0, 1}
        /\ s.len[0] \in Nat /\ s.len[1] \in Nat
    BY DEF AiuRec
  <2>2. CASE k = 1
    <3>1. more[m + k] = Latest(s) /\ more[m + k + 1] = <<s.mem[s.cur], s.pos + 1>>
      BY <1>8, <1>9, <1>10, <2>2
    <3>2. CASE s.pos > 0
      BY <2>1, <3>1, <3>2 DEF Continues
    <3>3. CASE s.pos = 0
      <4>1. Latest(s)[2] \in {0, s.reg[0], s.reg[1]}
        BY <3>3 DEF Continues
      <4>2. Latest(s)[1] \in Nat
        BY <1>2, ElementOfSeq, LenProperties, EmptySeq DEF Latest
      <4>3. s.mem[s.cur] \in NextBlock(s, Latest(s)[1])
        BY <2>1, <3>3, <4>2, SMTT(60) DEF Continues, NextBlock
      <4> QED BY <2>1, <3>1, <3>3, <4>1, <4>3
    <3> QED BY <2>1, <3>2, <3>3
  <2>3. CASE k # 1
    <3>1. k - 1 \in 1..n /\ m + 1 + (k - 1) = m + k
      BY <1>9, <2>3
    <3>2. more[m + k] = <<s.mem[s.cur], s.pos + (k - 1)>> /\ more[m + k + 1] = <<s.mem[s.cur], s.pos + k>>
      <4>1. m + 1 + k = m + k + 1
        BY <1>9
      <4> QED BY <1>10, <3>1, <4>1
    <3>3. s.pos + (k - 1) + 1 = s.pos + k
      BY <2>1
    <3> QED BY <3>2, <3>3
  <2> QED BY <2>2, <2>3
<1>13. ASSUME NEW k \in 1..m + n PROVE Step(more[k], more[k + 1])
  <2>1. CASE k <= m
    <3>1. k \in 1..m /\ k \in 1..m + 1 /\ k + 1 \in 1..m + 1
      BY <1>2, <2>1
    <3>2. more[k] = all[k] /\ more[k + 1] = all[k + 1]
      BY <1>8, <3>1
    <3> QED BY <1>11, <3>1, <3>2
  <2>2. CASE k > m
    <3>1. k - m \in 1..n /\ m + (k - m) = k
      BY <1>2, <2>2
    <3> HIDE DEF Step
    <3>2. Step(more[m + (k - m)], more[m + (k - m) + 1])
      BY <1>12, <3>1
    <3> QED BY <3>1, <3>2
  <2> QED BY <1>2, <2>1, <2>2
<1>14. InOrder(t)
  <2> HIDE DEF Step
  <2> QED BY <1>0, <1>4, <1>13
<1>15. n > 0 => Latest(t) = <<s.mem[s.cur], s.pos + n>>
  <2>1. n > 0 => n \in 1..n /\ m + 1 + n = m + n + 1
    BY <1>9
  <2> QED BY <1>9, <1>10, <2>1
<1>17. n = 0 => Latest(t) = Latest(s)
  <2>1. n = 0 => m + n + 1 = m + 1 /\ m + 1 \in 1..m + 1
    BY <1>2
  <2> QED BY <1>8, <1>9, <2>1
<1> QED
  BY <1>4, <1>14, <1>15, <1>17

\* What playing does not change.
Unmoved(s, t) ==
    /\ t.ctl = s.ctl /\ t.running = s.running /\ t.reg = s.reg /\ t.mem = s.mem /\ t.on = s.on
    /\ t.next = s.next /\ t.ist = s.ist /\ t.seen = s.seen /\ t.last = s.last

\* The record of a chip whose cursor has moved.
LEMMA MovedTyped ==
    ASSUME NEW s \in AiuRec, NEW p \in Nat, NEW w \in Nat, NEW o \in Seq(Nat \X Nat)
    PROVE  [s EXCEPT !.pos = p, !.owed = w, !.out = o] \in AiuRec
BY DEF AiuRec

\* The cursor moves on inside a buffer.
LEMMA AdvanceKeeps ==
    ASSUME NEW s, Within(s), Orderly(s), NEW n \in Nat, n <= s.owed, s.pos + n <= s.len[s.cur],
           NEW t, t = [s EXCEPT !.pos = @ + n, !.owed = @ - n, !.out = @ \o Emitted(s, n)]
    PROVE  /\ Within(t) /\ Orderly(t) /\ Unmoved(s, t)
           /\ t.cur = s.cur /\ t.len = s.len /\ t.pos = s.pos + n /\ t.owed = s.owed - n
<1> DEFINE o == s.out \o Emitted(s, n)
           p == s.pos + n
           w == s.owed - n
<1>1. s \in AiuRec /\ p \in Nat /\ w \in Nat /\ o \in Seq(Nat \X Nat)
  <2>1. s \in AiuRec
    BY DEF Within
  <2>2. s.out \in Seq(Nat \X Nat) /\ Emitted(s, n) \in Seq(Nat \X Nat)
    BY <2>1, EmittedIs DEF AiuRec
  <2>3. o \in Seq(Nat \X Nat)
    BY <2>2, ConcatProperties
  <2> QED BY <2>1, <2>3, SMTT(60) DEF AiuRec
<1>2. t = [s EXCEPT !.pos = p, !.owed = w, !.out = o]
  OBVIOUS
<1>3. ASSUME Playing(s) PROVE Playing(t)
  <2>1. /\ s.cur \in {0, 1} /\ s.mem[s.cur] \in Nat /\ s.pos \in Nat /\ s.len[s.cur] \in Nat
    BY <1>1 DEF AiuRec
  <2>2. t.out = o /\ t.last = s.last /\ t.reg = s.reg /\ SamePlay([s EXCEPT !.pos = p], t)
    <3> HIDE DEF o, p, w
    <3> QED BY <1>1, <1>2 DEF AiuRec, SamePlay
  <2>3. t.pos = p /\ t.len = s.len /\ t.cur = s.cur /\ t.mem = s.mem /\ t.fresh = s.fresh
        /\ t.next = s.next
    <3> HIDE DEF o, p, w
    <3> QED BY <1>1, <1>2 DEF AiuRec
  <2>4. /\ InOrder(t) /\ (n > 0 => Latest(t) = <<s.mem[s.cur], s.pos + n>>)
        /\ (n = 0 => Latest(t) = Latest(s))
    <3>1. s \in AiuRec /\ InOrder(s) /\ Continues(s) /\ s.len = s.reg /\ s.pos <= s.len[s.cur]
      BY <1>1, <1>3 DEF Playing
    <3>2. n > 0 => s.len[s.cur] > 0
      BY <2>1
    <3>3. t.out = s.out \o Emitted(s, n) /\ t.last = s.last /\ t.reg = s.reg
      BY <2>2
    <3> QED BY <3>1, <3>2, <3>3, Appended
  <2> HIDE DEF o
  <2>5. Continues(t)
    <3>1. CASE n = 0
      <4>1. t.pos = s.pos /\ Latest(t) = Latest(s)
        BY <2>1, <2>3, <2>4, <3>1
      <4> QED BY <1>3, <2>2, <2>3, <4>1 DEF Playing, Continues
    <3>2. CASE n > 0
      <4>1. t.pos > 0 /\ t.pos # 0 /\ t.pos = s.pos + n
        BY <2>1, <2>3, <3>2
      <4> QED BY <2>3, <2>4, <3>2, <4>1 DEF Continues
    <3> QED BY <3>1, <3>2
  <2>6. Filled(t)
    BY <1>3, <2>3 DEF Playing, Filled
  <2> QED
    BY <1>3, <2>2, <2>3, <2>4, <2>5, <2>6 DEF Playing
<1> HIDE DEF o
<1>4. /\ t \in AiuRec /\ Unmoved(s, t) /\ t.late = s.late /\ t.status = s.status
      /\ t.fresh = s.fresh /\ t.cur = s.cur /\ t.len = s.len /\ t.pos = p /\ t.owed = w
  <2> HIDE DEF p, w
  <2>0. [s EXCEPT !.pos = p, !.owed = w, !.out = o] \in AiuRec
    BY <1>1, MovedTyped
  <2>1. t \in AiuRec
    BY ONLY <1>2, <2>0
  <2>2. /\ t.late = s.late /\ t.status = s.status /\ t.fresh = s.fresh /\ t.cur = s.cur
        /\ t.len = s.len /\ t.pos = p /\ t.owed = w
    BY <1>1, <1>2 DEF AiuRec
  <2>3. Unmoved(s, t)
    BY <1>1, <1>2 DEF AiuRec, Unmoved
  <2> QED BY <2>1, <2>2, <2>3
<1>5. Within(t)
  BY <1>1, <1>4 DEF Within
<1>6. Tracked(s) => Tracked(t)
  BY <1>4 DEF Tracked, Drained, Unmoved
<1> QED
  BY <1>3, <1>4, <1>5, <1>6 DEF Orderly

\* A drained buffer gives way to the other.
LEMMA FlipKeeps ==
    ASSUME NEW s, Within(s), Orderly(s), s.pos = s.len[s.cur]
    PROVE  Within(Flip(s)) /\ Orderly(Flip(s)) /\ Unmoved(s, Flip(s)) /\ Flip(s).owed = s.owed
<1> DEFINE c == s.cur
           o == 1 - s.cur
           t == Flip(s)
           l == [s.len EXCEPT ![o] = s.reg[o]]
           tard == s.late \/ o \notin s.fresh
<1>1. /\ s \in AiuRec /\ c \in {0, 1} /\ o \in {0, 1} /\ o # c /\ {0, 1} = {c, o}
      /\ l \in [{0, 1} -> Nat] /\ l[o] = s.reg[o] /\ l[c] = s.len[c] /\ tard \in BOOLEAN
  BY DEF Within, AiuRec
<1>2. /\ t = [s EXCEPT !.status = @ \cup {c}, !.fresh = @ \ {c}, !.cur = o, !.pos = 0,
                       !.late = tard, !.len = l]
  BY <1>1 DEF Flip, LoadBuffer, AiuRec
<1>3. /\ t \in AiuRec /\ Unmoved(s, t) /\ t.owed = s.owed /\ t.out = s.out
      /\ t.status = s.status \cup {c} /\ t.fresh = s.fresh \ {c} /\ t.cur = o /\ t.pos = 0
      /\ t.late = tard /\ t.len = l
  <2> HIDE DEF c, o, l, tard, t
  <2> QED BY <1>1, <1>2, ZenonT(60) DEF AiuRec, Unmoved
<1>4. Within(t)
  <2> HIDE DEF t
  <2>1. t.len[t.cur] \in Nat /\ t.pos = 0
    <3> HIDE DEF l, tard
    <3> QED BY <1>1, <1>3
  <2> QED BY <1>3, <2>1 DEF Within
<1>5. ASSUME ~t.late PROVE Playing(t) /\ Tracked(t)
  <2>1. ~s.late /\ o \in s.fresh
    BY <1>3, <1>5
  <2>2. Playing(s) /\ Tracked(s)
    BY <2>1 DEF Orderly
  <2>3. s.fresh = {0, 1} /\ s.len = s.reg /\ s.mem[o] = s.mem[c] + 1 /\ s.next = s.mem[c] + 2
    BY <1>1, <2>1, <2>2 DEF Playing, Filled, AiuRec
  <2>4. t.len = t.reg
    BY <1>1, <1>3, <2>3 DEF AiuRec, Unmoved
  <2>5. Drained(s) = {} /\ Drained(t) = {c} /\ t.status = {c} /\ s.ist \in {"idle", "fill"} /\ s.seen = {}
    <3>1. Drained(s) = {} /\ s.ist \in {"idle", "woken", "awake", "ack0", "ack1", "fill"}
      BY <1>1, <2>3 DEF Drained, AiuRec
    <3>2. s.status = {} /\ s.ist \in {"idle", "fill"} /\ s.seen = {}
      BY <2>2, <3>1 DEF Tracked
    <3> QED BY <1>1, <1>3, <2>3, <3>1, <3>2 DEF Drained
  <2>6. Tracked(t)
    BY <1>3, <2>5 DEF Tracked, Unmoved
  <2>7. Latest(t) = Latest(s) /\ InOrder(t)
    <3> HIDE DEF t
    <3>1. InOrder(s) /\ t.out = s.out /\ t.last = s.last /\ t.reg = s.reg
      BY <1>3, <2>2 DEF Unmoved, Playing
    <3> QED BY <3>1 DEF Latest, InOrder, NextBlock
  <2>8. /\ s.mem[c] \in Nat /\ s.len[0] \in Nat /\ s.len[1] \in Nat /\ s.pos \in Nat
        /\ s.len[c] \in Nat /\ s.len[o] \in Nat /\ t.len = s.len /\ t.mem = s.mem /\ t.reg = s.reg
    BY <1>1, <1>3, <2>3, <2>4 DEF AiuRec, Unmoved
  <2>9. Latest(s)[1] \in Int
    <3>1. s.out \in Seq(Nat \X Nat) /\ s.last \in Nat \X Nat
      BY <1>1 DEF AiuRec
    <3>2. s.out # <<>> => Len(s.out) \in 1..Len(s.out)
      BY <3>1, LenProperties, EmptySeq
    <3> QED BY <3>1, <3>2, ElementOfSeq DEF Latest
  <2>10. Continues(t)
    <3> DEFINE h == Latest(s)
               b == s.mem[c]
    <3>1. CASE s.pos > 0
      <4>1. h = <<b, s.pos>> /\ s.pos = s.reg[c]
        BY <2>2, <2>3, <3>1 DEF Playing, Continues
      <4>2. h[2] \in {0, s.reg[0], s.reg[1]} /\ h[1] = s.mem[o] - 1
        BY <1>1, <2>3, <2>8, <4>1
      <4> QED BY <1>1, <1>3, <2>7, <2>8, <4>2 DEF Continues
    <3>2. CASE s.pos = 0
      <4>1. /\ h[2] \in {0, s.reg[0], s.reg[1]} /\ s.len[c] = 0
            /\ (s.len[0] = 0 /\ s.len[1] = 0) \/ h[1] = b - 1
        BY <2>2, <2>8, <3>2 DEF Playing, Continues
      <4>2. \/ t.len[0] = 0 /\ t.len[1] = 0
            \/ t.len[t.cur] > 0 /\ t.len[1 - t.cur] = 0 /\ h[1] = t.mem[t.cur] - 2
        <5>1. t.cur = o /\ 1 - t.cur = c /\ t.mem[o] - 2 = b - 1
          BY <1>1, <1>3, <2>3, <2>8
        <5>2. s.len[o] = 0 => s.len[0] = 0 /\ s.len[1] = 0
          BY <1>1, <4>1
        <5> QED BY <2>8, <4>1, <5>1, <5>2
      <4> QED BY <1>3, <2>7, <2>8, <4>1, <4>2 DEF Continues
    <3> QED BY <2>8, <3>1, <3>2
  <2>11. Filled(t)
    <3>1. t.cur = o /\ 1 - t.cur = c /\ o \in t.fresh /\ c \notin t.fresh
      BY <1>1, <1>3, <2>1
    <3>2. t.next = t.mem[o] + 1
      BY <1>3, <2>3, <2>8 DEF Unmoved
    <3> QED BY <3>1, <3>2 DEF Filled
  <2> QED
    BY <1>3, <1>4, <2>4, <2>6, <2>7, <2>10, <2>11 DEF Playing, Within
<1> QED
  BY <1>3, <1>4, <1>5 DEF Orderly

\* A round of the playing loop.
LEMMA PlayBufferKeeps ==
    ASSUME NEW s, Within(s), Orderly(s)
    PROVE  Within(PlayBuffer(s)) /\ Orderly(PlayBuffer(s)) /\ Unmoved(s, PlayBuffer(s))
<1> DEFINE n == IF s.owed < Left(s) THEN s.owed ELSE Left(s)
           t == [s EXCEPT !.pos = @ + n, !.owed = @ - n, !.out = @ \o Emitted(s, n)]
<1>1. /\ s \in AiuRec /\ s.owed \in Nat /\ s.pos \in Nat /\ s.len[s.cur] \in Nat
      /\ Left(s) = s.len[s.cur] - s.pos /\ s.pos <= s.len[s.cur]
  BY DEF Within, AiuRec, Left
<1>2. n \in Nat /\ n <= s.owed /\ s.pos + n <= s.len[s.cur]
  BY <1>1
<1>3. /\ Within(t) /\ Orderly(t) /\ Unmoved(s, t)
      /\ t.cur = s.cur /\ t.len = s.len /\ t.pos = s.pos + n
  <2> HIDE DEF n
  <2> QED BY <1>2, AdvanceKeeps, ZenonT(60)
<1>4. CASE s.owed = 0
  BY <1>4 DEF PlayBuffer, Unmoved
<1>5. CASE s.owed # 0 /\ n < Left(s)
  BY <1>3, <1>5 DEF PlayBuffer
<1>6. CASE s.owed # 0 /\ Left(s) = 0
  <2> DEFINE f == Flip(s)
  <2>1. Within(f) /\ Orderly(f) /\ Unmoved(s, f)
    BY <1>1, <1>6, FlipKeeps
  <2>2. PlayBuffer(s) = [f EXCEPT !.owed = 0]
    BY <1>1, <1>6 DEF PlayBuffer
  <2> HIDE DEF f
  <2> DEFINE g == [f EXCEPT !.owed = 0]
  <2>3. /\ g \in AiuRec /\ SamePlay(f, g) /\ g.out = f.out /\ g.last = f.last /\ Unmoved(f, g)
        /\ g.status = f.status
    BY <2>1, ZenonT(60) DEF Within, AiuRec, SamePlay, Unmoved
  <2> HIDE DEF g
  <2>4. Playing(f) => Playing(g)
    BY <2>3, PlayingAlike
  <2>5. Tracked(f) => Tracked(g)
    BY <2>3 DEF Tracked, Drained, SamePlay, Unmoved
  <2>6. Within(g) /\ Orderly(g) /\ Unmoved(s, g)
    BY <2>1, <2>3, <2>4, <2>5 DEF Within, Orderly, SamePlay, Unmoved
  <2> QED BY <2>2, <2>6 DEF g
<1>7. CASE s.owed # 0 /\ n >= Left(s) /\ Left(s) # 0
  <2>1. t.pos = t.len[t.cur]
    <3> HIDE DEF t
    <3> QED BY <1>1, <1>2, <1>3, <1>7
  <2>2. PlayBuffer(s) = Flip(t)
    BY <1>1, <1>2, <1>7 DEF PlayBuffer
  <2> HIDE DEF t
  <2>3. Within(Flip(t)) /\ Orderly(Flip(t)) /\ Unmoved(t, Flip(t))
    BY <1>3, <2>1, FlipKeeps
  <2> QED BY <1>3, <2>2, <2>3 DEF Unmoved
<1> QED
  BY <1>1, <1>2, <1>4, <1>5, <1>6, <1>7

(***************************************************************************)
(* Induction over the natural numbers, of sets, and what it gives of a     *)
(* recursive function: the rounds of the playing loop.                     *)
(***************************************************************************)
\* A set of natural numbers with 0 and every successor is all of them.
LEMMA SetInduction ==
    ASSUME NEW S \in SUBSET Nat, 0 \in S, \A m \in S : m + 1 \in S
    PROVE  S = Nat
<1> DEFINE T == Nat \ S
           R == {ss \in Nat \X Nat : ss[1] < ss[2]}
<1> SUFFICES ASSUME T # {} PROVE FALSE
  OBVIOUS
<1>1. R = OpToRel(<, Nat)
  BY DEF OpToRel
<1>2. IsWellFoundedOn(R, Nat)
  BY <1>1, NatLessThanWellFounded
<1>3. T \subseteq Nat
  OBVIOUS
<1>4. \E x \in T : \A y \in T : ~(<<y, x>> \in R)
  <2> HIDE DEF T, R
  <2> QED BY <1>2, <1>3, WFMin
<1>5. PICK x \in T : \A y \in T : ~(<<y, x>> \in R)
  BY <1>4
<1>6. x \in Nat /\ x # 0 /\ x - 1 \in Nat
  OBVIOUS
<1>7. <<x - 1, x>> \in R
  BY <1>6
<1>8. x - 1 \in S
  BY <1>5, <1>6, <1>7
<1> QED
  BY <1>6, <1>8

\* Each value of f is a round of the playing loop after the one before it.
Rounds(f, m, s) == \A i \in 0..m : f[i] = IF i = 0 THEN s ELSE PlayBuffer(f[i - 1])
\* What a round leaves of the chip s.
Played(s) == {x \in AiuRec : Within(x) /\ Orderly(x) /\ Unmoved(s, x)}

\* A round takes a state of the loop to another one.
LEMMA RoundStays ==
    ASSUME NEW s, NEW x \in Played(s)
    PROVE  PlayBuffer(x) \in Played(s)
<1>1. Within(x) /\ Orderly(x) /\ Unmoved(s, x)
  BY DEF Played
<1>2. Within(PlayBuffer(x)) /\ Orderly(PlayBuffer(x)) /\ Unmoved(x, PlayBuffer(x))
  BY <1>1, PlayBufferKeeps
<1> DEFINE y == PlayBuffer(x)
<1> HIDE DEF y
<1>3. Within(y) /\ Orderly(y) /\ Unmoved(x, y)
  BY <1>2 DEF y
<1>4. y \in AiuRec /\ Unmoved(s, y)
  BY <1>1, <1>3 DEF Within, Unmoved
<1>5. y \in Played(s)
  BY <1>3, <1>4 DEF Played
<1> QED
  BY <1>5 DEF y

\* The rounds exist, for every number of them.
LEMMA RoundsExist ==
    ASSUME NEW s, s \in Played(s), NEW N \in Nat
    PROVE  \E f \in [0..N -> Played(s)] : Rounds(f, N, s)
<1> DEFINE S == Played(s)
           Upto(f, m) == Rounds(f, m, s)
           T == {m \in Nat : \E f \in [0..m -> S] : Upto(f, m)}
<1>1. 0 \in T
  <2> DEFINE f == [i \in 0..0 |-> s]
  <2>1. f \in [0..0 -> S] /\ Upto(f, 0)
    BY DEF Rounds
  <2> QED
    BY <2>1
<1>2. ASSUME NEW m \in T PROVE m + 1 \in T
  <2>0. m \in Nat /\ m + 1 \in Nat
    OBVIOUS
  <2>1. PICK f \in [0..m -> S] : Upto(f, m)
    OBVIOUS
  <2> DEFINE y == PlayBuffer(f[m])
             g == [i \in 0..m + 1 |-> IF i = m + 1 THEN y ELSE f[i]]
  <2>2. f[m] \in S
    BY <2>0, <2>1
  <2>3. y \in S
    BY <2>2, RoundStays
  <2>8. y = PlayBuffer(f[m])
    OBVIOUS
  <2> HIDE DEF y, S
  <2>4. g \in [0..m + 1 -> S]
    <3>1. \A i \in 0..m + 1 : i = m + 1 \/ i \in 0..m
      BY <2>0
    <3> QED
      BY <2>1, <2>3, <3>1
  <2>5. ASSUME NEW i \in 0..m + 1
        PROVE  g[i] = IF i = 0 THEN s ELSE PlayBuffer(g[i - 1])
    <3>1. CASE i = m + 1
      <4>1. i # 0 /\ i - 1 = m /\ m \in 0..m + 1 /\ m # m + 1
        BY <2>0, <3>1
      <4>2. g[i - 1] = f[m] /\ g[i] = y
        BY <3>1, <4>1
      <4> HIDE DEF g
      <4> QED
        BY <2>8, <4>1, <4>2
    <3>2. CASE i # m + 1
      <4>1. i \in 0..m /\ g[i] = f[i]
        BY <2>0, <3>2
      <4>2. f[i] = IF i = 0 THEN s ELSE PlayBuffer(f[i - 1])
        BY <2>1, <4>1 DEF Rounds
      <4>3. i # 0 => i - 1 \in 0..m + 1 /\ i - 1 # m + 1
        BY <2>0, <3>2
      <4>4. i # 0 => g[i - 1] = f[i - 1]
        BY <4>3
      <4> HIDE DEF g
      <4> QED
        BY <4>1, <4>2, <4>4
    <3> QED
      BY <3>1, <3>2
  <2> HIDE DEF g
  <2> QED
    BY <2>0, <2>4, <2>5 DEF Rounds
<1>3. T = Nat
  <2>1. T \in SUBSET Nat
    OBVIOUS
  <2> HIDE DEF T
  <2> QED
    BY <1>1, <1>2, <2>1, SetInduction
<1> QED
  BY <1>3

\* The playing loop.
LEMMA PlayKeeps ==
    ASSUME NEW s, Within(s), Orderly(s)
    PROVE  Within(Play(s)) /\ Orderly(Play(s)) /\ Unmoved(s, Play(s))
<1> DEFINE N == s.owed
           Next1(f) == [k \in 0..N |-> IF k = 0 THEN s ELSE PlayBuffer(f[k - 1])]
           r == CHOOSE f : f = Next1(f)
<1>1. N \in Nat /\ s \in Played(s)
  BY DEF Within, AiuRec, Played, Unmoved
<1>2. Play(s) = r[N]
  BY DEF Play
<1> HIDE DEF N
<1>3. PICK f \in [0..N -> Played(s)] : Rounds(f, N, s)
  BY <1>1, RoundsExist
<1>4. f = Next1(f)
  <2>1. ASSUME NEW i \in 0..N PROVE f[i] = Next1(f)[i]
    BY <1>3 DEF Rounds
  <2> QED
    BY <1>3, <2>1
<1>5. r = Next1(r)
  <2> HIDE DEF Next1
  <2> QED BY <1>4
<1> HIDE DEF r
<1>6. \A i \in 0..N : r[i] = IF i = 0 THEN s ELSE PlayBuffer(r[i - 1])
  BY <1>5
<1> DEFINE T == {m \in Nat : m <= N => r[m] \in Played(s)}
<1>7. 0 \in T
  BY <1>1, <1>6
<1>8. ASSUME NEW m \in T PROVE m + 1 \in T
  <2>1. SUFFICES ASSUME m + 1 <= N PROVE r[m + 1] \in Played(s)
    OBVIOUS
  <2>2. m \in Nat /\ m + 1 \in 0..N /\ m + 1 # 0 /\ (m + 1) - 1 = m /\ r[m] \in Played(s)
    BY <1>1, <2>1
  <2>3. r[m + 1] = PlayBuffer(r[m])
    BY <1>6, <2>2
  <2> QED
    BY <2>2, <2>3, RoundStays
<1>9. T = Nat
  <2>1. T \in SUBSET Nat
    OBVIOUS
  <2> HIDE DEF T
  <2> QED
    BY <1>7, <1>8, <2>1, SetInduction
<1>10. r[N] \in Played(s)
  BY <1>1, <1>9
<1> QED
  BY <1>2, <1>10 DEF Played

(***************************************************************************)
(* The actions.                                                            *)
(***************************************************************************)
\* A step that leaves the sound alone, of a chip that is not about to start.
LEMMA SoundAlike ==
    ASSUME NEW s, AiuSound(s), NEW t, t \in AiuRec, SamePlay(s, t), t.out = s.out, t.last = s.last,
           t.ctl = s.ctl, t.running = s.running, t.ctl # {"dma"},
           t.ist \in {"idle", "woken", "awake"} => t.seen = {},
           t.ist # "woken" => t.on,
           t.running /\ t.on => (t.line <=> t.status # {}),
           t.running /\ Tracked(s) => Tracked(t)
    PROVE  AiuSound(t)
<1>1. AiuTyped(t)
  BY DEF AiuSound, AiuTyped, SamePlay
<1>2. ASSUME t.running PROVE Within(t) /\ Orderly(t)
  <2>1. Within(s) /\ Orderly(s)
    BY <1>2 DEF AiuSound
  <2>2. Within(t)
    BY <2>1 DEF Within, SamePlay
  <2>3. ASSUME ~t.late PROVE Playing(t) /\ Tracked(t)
    <3>1. Playing(s) /\ Tracked(s)
      BY <2>1, <2>3 DEF Orderly, SamePlay
    <3> QED BY <1>2, <3>1, PlayingAlike
  <2> QED BY <2>2, <2>3 DEF Orderly
<1> QED
  BY <1>1, <1>2 DEF AiuSound

\* Once the frames of a step are heard, the next step begins with none.
LEMMA HeardSound ==
    ASSUME NEW s, AiuSound(s)
    PROVE  /\ AiuSound(Heard(s)) /\ Heard(s).out = <<>>
           /\ Heard(s).ctl = s.ctl /\ Heard(s).running = s.running /\ Heard(s).ist = s.ist
           /\ Heard(s).status = s.status /\ Heard(s).next = s.next /\ Heard(s).seen = s.seen
           /\ Heard(s).on = s.on /\ Heard(s).line = s.line /\ Heard(s).owed = s.owed
<1> DEFINE t == Heard(s)
           l == Latest(s)
           none == <<>>
<1>1. s \in AiuRec
  BY DEF AiuSound, AiuTyped
<1>2. /\ t \in AiuRec /\ t = [s EXCEPT !.out = none, !.last = l] /\ t.out = none /\ t.last = l
      /\ (Playing(s) => Playing(t)) /\ SamePlay(s, t)
  BY <1>1, HeardKeeps
<1>3. ~s.running => l = s.last
  BY DEF AiuSound, Latest
<1> HIDE DEF t, l, none
<1>4. /\ t.ctl = s.ctl /\ t.running = s.running /\ t.ist = s.ist /\ t.status = s.status
      /\ t.seen = s.seen /\ t.on = s.on /\ t.line = s.line /\ t.owed = s.owed /\ t.next = s.next
      /\ t.fresh = s.fresh /\ t.mem = s.mem /\ t.late = s.late
  BY <1>1, <1>2 DEF AiuRec, SamePlay
<1>5. AiuTyped(t)
  BY <1>2, <1>4 DEF AiuSound, AiuTyped
<1>6. ASSUME t.ctl = {"dma"} PROVE Prepared(t)
  <2>0. {"dma"} # {"dma", "arm"}
    OBVIOUS
  <2>1. Prepared(s) /\ ~s.running
    BY <1>4, <1>6, <2>0 DEF AiuSound, AiuTyped
  <2> QED BY <1>2, <1>3, <1>4, <2>1 DEF Prepared
<1>7. ASSUME t.running PROVE Within(t) /\ Orderly(t)
  <2>1. Within(s) /\ Orderly(s)
    BY <1>4, <1>7 DEF AiuSound
  <2>2. Within(t)
    BY <1>2, <2>1 DEF Within, SamePlay
  <2>3. Tracked(s) => Tracked(t)
    BY <1>4 DEF Tracked, Drained
  <2> QED BY <1>2, <1>4, <2>1, <2>2, <2>3 DEF Orderly
<1>8. AiuSound(t)
  BY <1>2, <1>4, <1>5, <1>6, <1>7 DEF AiuSound, none
<1> QED
  BY <1>2, <1>4, <1>8 DEF t, none

\* A write to a register of a chip that is running as it is set to, or is not set to.
LEMMA NoteKeeps ==
    ASSUME NEW s \in AiuRec, s.running = (s.ctl = {"dma", "arm"})
    PROVE  NoteWrite(s) = [s EXCEPT !.line = AiuSource(s)]
<1>1. NoteWrite(s) = AiuIrqUpdate([s EXCEPT !.running = (s.ctl = {"dma", "arm"})])
  BY DEF NoteWrite
<1>2. [s EXCEPT !.running = (s.ctl = {"dma", "arm"})] = s
  BY DEF AiuRec
<1> QED
  BY <1>1, <1>2 DEF AiuIrqUpdate

\* The output is armed: the first buffer starts.
LEMMA StartsSound ==
    ASSUME AiuInv, DriverStarts
    PROVE  AiuInv'
<1> DEFINE s == aiu
           c == {"dma", "arm"}
           t == [s EXCEPT !.ctl = c, !.running = TRUE, !.cur = 0, !.pos = 0, !.owed = 0,
                          !.len = s.reg, !.line = FALSE]
<1>1. /\ s \in AiuRec /\ s.ctl = {"dma"} /\ ~s.running /\ Prepared(s) /\ AiuTyped(s)
      /\ s.out = <<>>
  BY DEF AiuInv, AiuSound, AiuTyped, DriverStarts
<1>2. s.status = {} /\ s.reg \in [{0, 1} -> Nat] /\ s.len \in [{0, 1} -> Nat]
  BY <1>1 DEF Prepared, AiuRec
<1>3. [[s.len EXCEPT ![0] = s.reg[0]] EXCEPT ![1] = s.reg[1]] = s.reg
  BY <1>2
<1>4. aiu' = t
  <2> DEFINE a == [s EXCEPT !.ctl = c]
             b == AiuStart(a)
  <2>1. NoteWrite(a) = AiuIrqUpdate(b)
    BY <1>1 DEF NoteWrite, AiuRec
  <2>2. b = [s EXCEPT !.ctl = c, !.running = TRUE, !.cur = 0, !.pos = 0, !.owed = 0, !.len = s.reg]
    BY <1>1, <1>2, <1>3 DEF AiuStart, LoadBuffer, AiuRec
  <2> HIDE DEF b
  <2>3. AiuIrqUpdate(b) = t
    BY <1>1, <1>2, <2>2 DEF AiuIrqUpdate, AiuSource, AiuRec
  <2> QED BY <2>1, <2>3 DEF DriverStarts, AiuStep
<1>5. /\ t \in AiuRec /\ t.ctl = c /\ t.running /\ t.cur = 0 /\ t.pos = 0 /\ t.len = s.reg /\ ~t.line
      /\ t.reg = s.reg /\ t.out = s.out /\ t.last = s.last /\ t.fresh = s.fresh /\ t.mem = s.mem
      /\ t.next = s.next /\ t.ist = s.ist /\ t.seen = s.seen /\ t.status = {} /\ t.on = s.on
  BY <1>1, <1>2 DEF AiuRec
<1> HIDE DEF t, s
<1>6. AiuTyped(t)
  BY <1>1, <1>5 DEF AiuTyped
<1>7. Within(t)
  BY <1>2, <1>5 DEF Within
<1>8. /\ t.fresh = {0, 1} /\ t.mem[1] = t.mem[0] + 1 /\ t.next = t.mem[0] + 2
      /\ t.last[1] = t.mem[0] - 1 /\ t.last[2] = 0 /\ t.ist = "idle" /\ t.seen = {}
  BY <1>1, <1>5 DEF Prepared, AiuTyped
<1>9. InOrder(t)
  BY <1>1, <1>5 DEF InOrder
<1>10. Continues(t)
  BY <1>1, <1>5, <1>8 DEF Continues, Latest
<1>11. Filled(t)
  BY <1>5, <1>8 DEF Filled
<1>12. Tracked(t)
  BY <1>5, <1>8 DEF Tracked, Drained
<1>13. c # {"dma"}
  OBVIOUS
<1>14. AiuSound(t)
  BY <1>5, <1>6, <1>7, <1>9, <1>10, <1>11, <1>12, <1>13 DEF AiuSound, Orderly, Playing, Within
<1> QED
  BY <1>4, <1>14 DEF AiuInv

\* The record of a chip whose buffers have been filled.
LEMMA PreparedTyped ==
    ASSUME NEW h \in AiuRec, NEW m \in [{0, 1} -> Nat], NEW w \in Nat, NEW g \in SUBSET {0, 1},
           NEW r \in [{0, 1} -> Nat], NEW d \in SUBSET {"dma", "arm"}, NEW l \in Nat \X Nat
    PROVE  [h EXCEPT !.mem = m, !.next = w, !.fresh = g, !.reg = r, !.status = {},
                     !.line = FALSE, !.ctl = d, !.late = FALSE, !.last = l] \in AiuRec
<1> DEFINE k == [h EXCEPT !.mem = m, !.next = w, !.fresh = g, !.reg = r]
           u == [k EXCEPT !.status = {}, !.line = FALSE, !.ctl = d, !.late = FALSE, !.last = l]
<1>1. k \in AiuRec
  BY DEF AiuRec
<1>2. u = [h EXCEPT !.mem = m, !.next = w, !.fresh = g, !.reg = r, !.status = {},
                    !.line = FALSE, !.ctl = d, !.late = FALSE, !.last = l]
  OBVIOUS
<1> HIDE DEF k
<1>3. u \in AiuRec
  BY <1>1, ZenonT(60) DEF AiuRec
<1> HIDE DEF u
<1> QED
  BY <1>2, <1>3

\* The driver fills both buffers.
LEMMA PreparesSound ==
    ASSUME AiuInv, DriverPrepares
    PROVE  AiuInv'
<1> DEFINE h == Heard(aiu)
<1>1. PICK a, b \in BufLens :
         aiu' = [Fill(Fill(h, 0), 1) EXCEPT !.reg = [i \in 0..1 |-> IF i = 0 THEN a ELSE b],
                      !.status = {}, !.line = FALSE, !.ctl = {"dma"}, !.late = FALSE,
                      !.last = <<aiu.next - 1, 0>>]
  BY DEF DriverPrepares, AiuStep
<1> DEFINE r == [i \in 0..1 |-> IF i = 0 THEN a ELSE b]
           n == aiu.next
           l == <<n - 1, 0>>
           d == {"dma"}
           m == [[h.mem EXCEPT ![0] = n] EXCEPT ![1] = n + 1]
           g == (h.fresh \cup {0}) \cup {1}
           t == [h EXCEPT !.mem = m, !.next = (n + 1) + 1, !.fresh = g, !.reg = r, !.status = {},
                          !.line = FALSE, !.ctl = d, !.late = FALSE, !.last = l]
<1>2. /\ AiuSound(h) /\ h.out = <<>> /\ h.ctl = {} /\ h.ist = "idle" /\ h.next = n
  BY HeardSound DEF AiuInv, DriverPrepares
<1>3. /\ h \in AiuRec /\ AiuTyped(h) /\ n \in Nat /\ n >= 1 /\ h.mem \in [{0, 1} -> Nat]
      /\ h.fresh \in SUBSET {0, 1}
  BY <1>2 DEF AiuSound, AiuTyped, AiuRec
<1>4. r \in [{0, 1} -> Nat]
  <2>1. a \in Nat /\ b \in Nat /\ 0..1 = {0, 1}
    BY AiuAssumption DEF AiuAssumption
  <2> QED BY <2>1
<1>5. /\ m \in [{0, 1} -> Nat] /\ m[0] = n /\ m[1] = n + 1 /\ g = {0, 1} /\ l \in Nat \X Nat
      /\ l[1] = n - 1 /\ l[2] = 0
  BY <1>3
<1>6. aiu' = t
  <2> HIDE DEF r, l, h, d
  <2>1. aiu' = [Fill(Fill(h, 0), 1) EXCEPT !.reg = r, !.status = {}, !.line = FALSE, !.ctl = d,
                                           !.late = FALSE, !.last = l]
    BY <1>1 DEF r, l, d
  <2>2. Fill(Fill(h, 0), 1) = [h EXCEPT !.mem = m, !.next = (n + 1) + 1, !.fresh = g]
    BY <1>2, <1>3 DEF Fill, AiuRec
  <2> HIDE DEF m, g
  <2> QED BY <1>3, <2>1, <2>2 DEF AiuRec
<1>7. d \in SUBSET {"dma", "arm"} /\ d # {"dma", "arm"} /\ d = {"dma"} /\ h.ctl # {"dma", "arm"}
      /\ {} # {"dma", "arm"}
  BY <1>2
<1> HIDE DEF r, l, h, d, m, g
<1>8. /\ t \in AiuRec /\ t.mem = m /\ t.next = n + 2 /\ t.fresh = g /\ t.status = {} /\ ~t.line
      /\ t.ctl = d /\ ~t.late /\ t.last = l /\ t.ist = "idle" /\ t.running = h.running
      /\ t.seen = h.seen /\ t.on = h.on /\ t.out = h.out
  <2>1. g \in SUBSET {0, 1} /\ (n + 1) + 1 \in Nat /\ (n + 1) + 1 = n + 2
    BY <1>3, <1>5
  <2>2. \A w : w = (n + 1) + 1 => t = [h EXCEPT !.mem = m, !.next = w, !.fresh = g, !.reg = r,
                   !.status = {}, !.line = FALSE, !.ctl = d, !.late = FALSE, !.last = l]
    OBVIOUS
  <2> HIDE DEF n, t
  <2>3. PICK w : w = (n + 1) + 1
    OBVIOUS
  <2>4. t = [h EXCEPT !.mem = m, !.next = w, !.fresh = g, !.reg = r,
                   !.status = {}, !.line = FALSE, !.ctl = d, !.late = FALSE, !.last = l]
    BY <2>2, <2>3
  <2>5. w \in Nat /\ w = n + 2
    BY <2>1, <2>3
  <2>7. h \in AiuRec /\ m \in [{0, 1} -> Nat] /\ w \in Nat /\ g \in SUBSET {0, 1}
        /\ d \in SUBSET {"dma", "arm"} /\ l \in Nat \X Nat
    BY <1>3, <1>5, <1>7, <2>1, <2>5
  <2>6. t \in AiuRec
    <3>1. [h EXCEPT !.mem = m, !.next = w, !.fresh = g, !.reg = r, !.status = {},
                    !.line = FALSE, !.ctl = d, !.late = FALSE, !.last = l] \in AiuRec
      BY <1>4, <2>7, PreparedTyped
    <3> QED BY ONLY <2>4, <3>1
  <2>8. /\ t.mem = m /\ t.next = w /\ t.fresh = g /\ t.status = {} /\ t.line = FALSE
        /\ t.ctl = d /\ t.late = FALSE /\ t.last = l
    BY ONLY <2>4, <2>7 DEF AiuRec
  <2>9. t.ist = h.ist /\ t.running = h.running /\ t.seen = h.seen /\ t.on = h.on /\ t.out = h.out
    BY ONLY <2>4, <2>7 DEF AiuRec
  <2> QED BY <1>2, <2>5, <2>6, <2>8, <2>9
<1> HIDE DEF t
<1>9. ~t.running
  BY <1>2, <1>3, <1>7, <1>8 DEF AiuTyped
<1>10. AiuTyped(t)
  BY <1>2, <1>3, <1>7, <1>8, <1>9 DEF AiuTyped
<1>11. Prepared(t)
  BY <1>3, <1>5, <1>8 DEF Prepared
<1>12. AiuSound(t)
  BY <1>2, <1>8, <1>9, <1>10, <1>11 DEF AiuSound
<1> QED
  BY <1>6, <1>12 DEF AiuInv

\* A step of the chip or of the thread that leaves the buffers as they are.
Stages == {"idle", "woken", "awake", "ack0", "ack1", "fill"}
Retuned(h, z, l, i, x, q, w) ==
    [h EXCEPT !.on = z, !.line = l, !.ist = i, !.seen = x, !.status = q, !.owed = w]
Retune(h, t, z, l, i, x, q) ==
    /\ t \in AiuRec /\ SamePlay(h, t) /\ t.out = h.out /\ t.last = h.last /\ t.ctl = h.ctl
    /\ t.running = h.running /\ t.on = z /\ t.line = l /\ t.ist = i /\ t.seen = x /\ t.status = q

\* Such a step changes these fields and no other.
LEMMA RetunedIs ==
    ASSUME NEW h \in AiuRec, NEW z \in BOOLEAN, NEW l \in BOOLEAN, NEW i \in Stages,
           NEW x \in SUBSET {0, 1}, NEW q \in SUBSET {0, 1}, NEW w \in Nat
    PROVE  Retune(h, Retuned(h, z, l, i, x, q, w), z, l, i, x, q)
<1> DEFINE k == [h EXCEPT !.on = z, !.line = l, !.ist = i]
           t == [k EXCEPT !.seen = x, !.status = q, !.owed = w]
<1>1. k \in AiuRec /\ SamePlay(h, k) /\ k.out = h.out /\ k.last = h.last /\ k.ctl = h.ctl
      /\ k.running = h.running /\ k.on = z /\ k.line = l /\ k.ist = i
  BY ZenonT(60) DEF AiuRec, SamePlay, Stages
<1>2. Retuned(h, z, l, i, x, q, w) = t
  BY DEF Retuned
<1> HIDE DEF k
<1>3. t \in AiuRec /\ SamePlay(k, t) /\ t.out = k.out /\ t.last = k.last /\ t.ctl = k.ctl
      /\ t.running = k.running /\ t.on = k.on /\ t.line = k.line /\ t.ist = k.ist
      /\ t.seen = x /\ t.status = q
  BY <1>1, ZenonT(60) DEF AiuRec, SamePlay
<1> HIDE DEF t
<1> QED
  BY <1>1, <1>2, <1>3 DEF Retune, SamePlay

\* Such a step keeps the invariant, if it keeps the line and the thread's place.
LEMMA RetunedSound ==
    ASSUME NEW h, AiuSound(h), h.ctl # {"dma"}, NEW z \in BOOLEAN, NEW l \in BOOLEAN, NEW i \in Stages,
           NEW x \in SUBSET {0, 1}, NEW q \in SUBSET {0, 1}, NEW w \in Nat,
           i \in {"idle", "woken", "awake"} => x = {},
           i # "woken" => z,
           h.running /\ z => (l <=> q # {}),
           NEW t, t = Retuned(h, z, l, i, x, q, w),
           h.running /\ Tracked(h) => Tracked(t)
    PROVE  AiuSound(t)
<1>1. h \in AiuRec
  BY DEF AiuSound, AiuTyped
<1>2. Retune(h, t, z, l, i, x, q)
  BY <1>1, RetunedIs
<1> QED
  BY <1>2, SoundAlike DEF Retune

\* The fields of a chip as it is.
LEMMA Fields ==
    ASSUME NEW s, AiuSound(s)
    PROVE  /\ s \in AiuRec /\ s.on \in BOOLEAN /\ s.line \in BOOLEAN /\ s.ist \in Stages
           /\ s.seen \in SUBSET {0, 1} /\ s.status \in SUBSET {0, 1} /\ s.owed \in Nat
           /\ s.fresh \in SUBSET {0, 1} /\ s.cur \in {0, 1} /\ s.running \in BOOLEAN
BY DEF AiuSound, AiuTyped, AiuRec, Stages

\* The thread is at work only when the output is not about to start.
LEMMA NotPrepared ==
    ASSUME NEW s, AiuSound(s), s.running \/ s.ist # "idle" \/ s.line
    PROVE  s.ctl # {"dma"}
<1>1. {"dma"} # {"dma", "arm"}
  OBVIOUS
<1> QED
  BY <1>1 DEF AiuSound, AiuTyped, Prepared

\* The OAL's handler takes the interrupt.
LEMMA OalTakesSound ==
    ASSUME AiuInv, OalTakesAudio
    PROVE  AiuInv'
<1> DEFINE h == Heard(aiu)
           t == Retuned(h, FALSE, FALSE, "woken", h.seen, h.status, h.owed)
<1>1. AiuSound(h) /\ h.line /\ h.ist = "idle" /\ h.on = aiu.on
  BY HeardSound DEF AiuInv, OalTakesAudio
<1>2. aiu' = AiuIrqUpdate([h EXCEPT !.on = FALSE, !.ist = "woken"])
  BY DEF OalTakesAudio, AiuStep
<1> HIDE DEF h
<1>3. /\ h \in AiuRec /\ h.seen \in SUBSET {0, 1} /\ h.status \in SUBSET {0, 1} /\ h.owed \in Nat
      /\ h.ctl # {"dma"} /\ "woken" \in Stages /\ h.on /\ h.seen = {}
  BY <1>1, Fields, NotPrepared DEF Stages, AiuSound, AiuTyped
<1>4. aiu' = t
  BY <1>2, <1>3 DEF AiuIrqUpdate, AiuSource, Retuned, AiuRec
<1>5. Retune(h, t, FALSE, FALSE, "woken", h.seen, h.status)
  BY <1>3, RetunedIs
<1> HIDE DEF t
<1>6. ASSUME h.running, Tracked(h) PROVE Tracked(t)
  <2>1. h.status # {} /\ h.status = Drained(h)
    BY <1>1, <1>3, <1>6 DEF AiuSound, Tracked
  <2>2. Drained(t) = Drained(h) /\ t.status = h.status /\ t.seen = {} /\ t.ist = "woken"
    BY <1>3, <1>5 DEF Retune, SamePlay, Drained
  <2> QED BY <2>1, <2>2 DEF Tracked
<1>7. AiuSound(t)
  BY <1>1, <1>3, <1>6, RetunedSound DEF t
<1> QED
  BY <1>4, <1>7 DEF AiuInv

\* The thread lets the interrupt in again.
LEMMA IstDoneSound ==
    ASSUME AiuInv, IstDone
    PROVE  AiuInv'
<1> DEFINE h == Heard(aiu)
           l == h.status # {}
           t == Retuned(h, TRUE, l, "awake", h.seen, h.status, h.owed)
<1>1. AiuSound(h) /\ h.ist = "woken"
  BY HeardSound DEF AiuInv, IstDone
<1>2. aiu' = AiuIrqUpdate([h EXCEPT !.on = TRUE, !.ist = "awake"])
  BY DEF IstDone, AiuStep
<1> HIDE DEF h
<1>3. /\ h \in AiuRec /\ h.seen \in SUBSET {0, 1} /\ h.status \in SUBSET {0, 1} /\ h.owed \in Nat
      /\ h.ctl # {"dma"} /\ "awake" \in Stages /\ h.seen = {} /\ l \in BOOLEAN
  BY <1>1, Fields, NotPrepared DEF Stages, AiuSound, AiuTyped
<1>4. aiu' = t
  BY <1>2, <1>3 DEF AiuIrqUpdate, AiuSource, Retuned, AiuRec
<1>5. Retune(h, t, TRUE, l, "awake", h.seen, h.status)
  BY <1>3, RetunedIs
<1> HIDE DEF t
<1>6. ASSUME h.running, Tracked(h) PROVE Tracked(t)
  <2>1. h.status = Drained(h) /\ Drained(h) # {}
    BY <1>1, <1>6 DEF Tracked
  <2>2. Drained(t) = Drained(h) /\ t.status = h.status /\ t.seen = {} /\ t.ist = "awake"
    BY <1>3, <1>5 DEF Retune, SamePlay, Drained
  <2> QED BY <2>1, <2>2 DEF Tracked
<1>7. AiuSound(t)
  BY <1>1, <1>3, <1>6, RetunedSound DEF t
<1> QED
  BY <1>4, <1>7 DEF AiuInv

\* The thread reads which buffers have drained.
LEMMA IstReadsSound ==
    ASSUME AiuInv, IstReads
    PROVE  AiuInv'
<1> DEFINE h == Heard(aiu)
           t == Retuned(h, h.on, h.line, "ack0", h.status, h.status, h.owed)
<1>1. AiuSound(h) /\ h.ist = "awake" /\ h.status = aiu.status
  BY HeardSound DEF AiuInv, IstReads
<1>2. aiu' = [h EXCEPT !.seen = h.status, !.ist = "ack0"]
  BY <1>1 DEF IstReads, AiuStep
<1> HIDE DEF h
<1>3. /\ h \in AiuRec /\ h.on \in BOOLEAN /\ h.line \in BOOLEAN /\ h.status \in SUBSET {0, 1}
      /\ h.owed \in Nat /\ h.ctl # {"dma"} /\ "ack0" \in Stages /\ h.on
  BY <1>1, Fields, NotPrepared DEF Stages, AiuSound, AiuTyped
<1>4. aiu' = t
  BY <1>2, <1>3 DEF Retuned, AiuRec
<1>5. Retune(h, t, h.on, h.line, "ack0", h.status, h.status)
  BY <1>3, RetunedIs
<1>8. h.running => (h.line <=> h.status # {})
  BY <1>1, <1>3 DEF AiuSound
<1> HIDE DEF t
<1>6. ASSUME h.running, Tracked(h) PROVE Tracked(t)
  <2>1. h.status = Drained(h) /\ Drained(h) # {}
    BY <1>1, <1>6 DEF Tracked
  <2>2. Drained(t) = Drained(h) /\ t.status = h.status /\ t.seen = h.status /\ t.ist = "ack0"
    BY <1>3, <1>5 DEF Retune, SamePlay, Drained
  <2> QED BY <2>1, <2>2 DEF Tracked
<1>7. AiuSound(t)
  BY <1>1, <1>3, <1>6, <1>8, RetunedSound DEF t
<1> QED
  BY <1>4, <1>7 DEF AiuInv

\* The thread acknowledges one buffer after the other.
LEMMA IstAcksSound ==
    ASSUME AiuInv, IstAcks
    PROVE  AiuInv'
<1> DEFINE h == Heard(aiu)
<1>1. AiuSound(h) /\ h.ist = aiu.ist
  BY HeardSound DEF AiuInv
<1>2. PICK b \in {0, 1}, j \in {"ack1", "fill"} :
         /\ aiu' = [AckBuffer(h, b) EXCEPT !.ist = j]
         /\ b = 0 => h.ist = "ack0" /\ j = "ack1"
         /\ b = 1 => h.ist = "ack1" /\ j = "fill"
  BY <1>1 DEF IstAcks, AiuStep
<1> HIDE DEF h
<1> DEFINE q == h.status \ {b}
           l == q # {} /\ h.on
           t == Retuned(h, h.on, l, j, h.seen, q, h.owed)
           k == [h EXCEPT !.status = q]
<1>3. /\ h \in AiuRec /\ h.on \in BOOLEAN /\ l \in BOOLEAN /\ h.status \in SUBSET {0, 1}
      /\ q \in SUBSET {0, 1} /\ h.seen \in SUBSET {0, 1} /\ h.owed \in Nat /\ h.ctl # {"dma"}
      /\ j \in Stages /\ h.on /\ h.running = (h.ctl = {"dma", "arm"})
  BY <1>1, <1>2, Fields, NotPrepared DEF Stages, AiuSound, AiuTyped
<1>4. aiu' = t
  <2>1. k \in AiuRec /\ k.running = h.running /\ k.ctl = h.ctl
    <3> HIDE DEF q
    <3> QED BY <1>3 DEF AiuRec
  <2>2. k = [h EXCEPT !.status = @ \ {b}]
    OBVIOUS
  <2>3. AckBuffer(h, b) = NoteWrite(k)
    BY <2>2 DEF AckBuffer
  <2> HIDE DEF k
  <2>4. NoteWrite(k) = [k EXCEPT !.line = AiuSource(k)]
    BY <1>3, <2>1, NoteKeeps
  <2>5. k = [h EXCEPT !.status = q]
    BY DEF k
  <2> HIDE DEF q
  <2>6. [k EXCEPT !.line = AiuSource(k)] = [h EXCEPT !.status = q, !.line = l]
    BY <1>3, <2>5 DEF AiuSource, AiuRec
  <2> HIDE DEF l
  <2>7. aiu' = [h EXCEPT !.status = q, !.line = l, !.ist = j]
    BY <1>2, <2>3, <2>4, <2>6
  <2> QED BY <1>3, <2>7 DEF Retuned, AiuRec
<1>5. Retune(h, t, h.on, l, j, h.seen, q)
  BY <1>3, RetunedIs
<1> HIDE DEF t
<1>6. ASSUME h.running, Tracked(h) PROVE Tracked(t)
  <2>1. Drained(t) = Drained(h) /\ t.status = h.status \ {b} /\ t.seen = h.seen /\ t.ist = j
    BY <1>5 DEF Retune, SamePlay, Drained
  <2>2. CASE b = 0
    <3>1. Drained(h) # {} /\ h.seen = Drained(h) /\ h.status = Drained(h) /\ j = "ack1"
      BY <1>2, <1>6, <2>2 DEF Tracked
    <3> QED BY <2>1, <2>2, <3>1 DEF Tracked
  <2>3. CASE b = 1
    <3>1. h.seen = Drained(h) /\ h.status \subseteq Drained(h) \ {0} /\ j = "fill"
      BY <1>2, <1>6, <2>3 DEF Tracked
    <3>2. t.status = {}
      BY <1>3, <2>1, <2>3, <3>1
    <3> QED BY <2>1, <3>1, <3>2 DEF Tracked
  <2> QED BY <2>2, <2>3
<1>8. j \notin {"idle", "woken", "awake"} /\ (l <=> q # {})
  BY <1>2, <1>3
<1> HIDE DEF l, q
<1>7. AiuSound(t)
  BY <1>1, <1>3, <1>6, <1>8, RetunedSound DEF t
<1> QED
  BY <1>4, <1>7 DEF AiuInv

\* The thread refills a buffer that has drained, or is done.
LEMMA IstRefillsSound ==
    ASSUME AiuInv, aiu.ist = "fill", NEW i \in aiu.seen,
           aiu' = [Fill(Heard(aiu), i) EXCEPT !.seen = @ \ {i}]
    PROVE  AiuInv'
<1> DEFINE h == Heard(aiu)
           n == h.next
           m == [h.mem EXCEPT ![i] = n]
           g == h.fresh \cup {i}
           x == h.seen \ {i}
           t == [h EXCEPT !.mem = m, !.next = n + 1, !.fresh = g, !.seen = x]
<1>1. AiuSound(h) /\ h.ist = "fill" /\ i \in h.seen
  BY HeardSound DEF AiuInv
<1>2. aiu' = [Fill(h, i) EXCEPT !.seen = @ \ {i}]
  OBVIOUS
<1> HIDE DEF h
<1>3. /\ h \in AiuRec /\ AiuTyped(h) /\ n \in Nat /\ i \in {0, 1} /\ h.mem \in [{0, 1} -> Nat]
      /\ h.fresh \in SUBSET {0, 1} /\ h.seen \in SUBSET {0, 1} /\ h.cur \in {0, 1}
      /\ h.ctl # {"dma"}
  BY <1>1, Fields, NotPrepared DEF AiuSound, AiuTyped, AiuRec
<1>4. m \in [{0, 1} -> Nat] /\ g \in SUBSET {0, 1} /\ x \in SUBSET {0, 1} /\ n + 1 \in Nat
  BY <1>3
<1>5. aiu' = t
  BY <1>2, <1>3 DEF Fill, AiuRec
<1>14. m[i] = n /\ \A c \in {0, 1} : c # i => m[c] = h.mem[c]
  BY <1>3
<1> HIDE DEF m, g, x, n
<1>6. /\ t \in AiuRec /\ t.mem = m /\ t.next = n + 1 /\ t.fresh = g /\ t.seen = x /\ t.cur = h.cur
      /\ t.pos = h.pos /\ t.len = h.len /\ t.reg = h.reg /\ t.out = h.out /\ t.last = h.last
      /\ t.ctl = h.ctl /\ t.running = h.running /\ t.late = h.late /\ t.status = h.status
      /\ t.ist = h.ist /\ t.on = h.on /\ t.line = h.line
  BY <1>3, <1>4 DEF AiuRec
<1> HIDE DEF t
<1>7. AiuTyped(t)
  BY <1>1, <1>3, <1>6 DEF AiuTyped, n
<1>8. ASSUME t.running PROVE Within(t) /\ Orderly(t)
  <2>1. Within(h) /\ Orderly(h)
    BY <1>1, <1>6, <1>8 DEF AiuSound
  <2>2. Within(t)
    BY <1>6, <2>1 DEF Within
  <2>3. ASSUME ~t.late PROVE Playing(t) /\ Tracked(t)
    <3>1. Playing(h) /\ Tracked(h)
      BY <1>6, <2>1, <2>3 DEF Orderly
    <3>2. h.seen = Drained(h) /\ h.status = {}
      BY <1>1, <3>1 DEF Tracked
    <3>3. /\ h.cur \in h.fresh /\ i \notin h.fresh /\ i = 1 - h.cur /\ i # h.cur
          /\ n = h.mem[h.cur] + 1
      BY <1>1, <1>3, <3>1, <3>2 DEF Playing, Filled, Drained, n
    <3>4. g = {0, 1} /\ x = {}
      BY <1>3, <3>2, <3>3 DEF Drained, g, x
    <3>5. m[i] = n /\ m[h.cur] = h.mem[h.cur] /\ h.mem[h.cur] \in Nat
      BY <1>3, <1>14, <3>3
    <3>6. Filled(t)
      BY <1>3, <1>6, <3>3, <3>4, <3>5 DEF Filled
    <3>7. Continues(t)
      BY <1>6, <3>1, <3>5 DEF Playing, Continues, Latest
    <3>8. InOrder(t)
      BY <1>6, <3>1 DEF Playing, InOrder, NextBlock
    <3>9. Tracked(t)
      BY <1>1, <1>6, <3>2, <3>4 DEF Tracked, Drained
    <3> QED BY <1>6, <3>1, <3>6, <3>7, <3>8, <3>9 DEF Playing
  <2> QED BY <2>2, <2>3 DEF Orderly
<1>9. AiuSound(t)
  BY <1>1, <1>3, <1>6, <1>7, <1>8 DEF AiuSound
<1> QED
  BY <1>5, <1>9 DEF AiuInv

\* The thread's refilling, one step of it.
LEMMA IstFillsSound ==
    ASSUME AiuInv, IstFills
    PROVE  AiuInv'
<1> DEFINE h == Heard(aiu)
           t == Retuned(h, h.on, h.line, "idle", h.seen, h.status, h.owed)
<1>0. CASE \E i \in aiu.seen : aiu' = [Fill(Heard(aiu), i) EXCEPT !.seen = @ \ {i}]
  BY <1>0, IstRefillsSound DEF IstFills
<1>9. CASE aiu.seen = {} /\ aiu' = [h EXCEPT !.ist = "idle"]
  <2>1. AiuSound(h) /\ h.ist = "fill" /\ h.seen = {}
    BY <1>9, HeardSound DEF AiuInv, IstFills
  <2> HIDE DEF h
  <2>2. /\ h \in AiuRec /\ h.on \in BOOLEAN /\ h.line \in BOOLEAN /\ h.status \in SUBSET {0, 1}
        /\ h.seen \in SUBSET {0, 1} /\ h.owed \in Nat /\ h.ctl # {"dma"} /\ "idle" \in Stages /\ h.on
    BY <2>1, Fields, NotPrepared DEF Stages, AiuSound, AiuTyped
  <2>3. aiu' = t
    BY <1>9, <2>2 DEF Retuned, AiuRec
  <2>4. Retune(h, t, h.on, h.line, "idle", h.seen, h.status)
    BY <2>2, RetunedIs
  <2>5. h.running => (h.line <=> h.status # {})
    BY <2>1, <2>2 DEF AiuSound
  <2> HIDE DEF t
  <2>6. ASSUME h.running, Tracked(h) PROVE Tracked(t)
    <3>1. h.status = Drained(h)
      BY <2>1, <2>6 DEF Tracked
    <3>2. Drained(t) = Drained(h) /\ t.status = h.status /\ t.seen = {} /\ t.ist = "idle"
      BY <2>1, <2>4 DEF Retune, SamePlay, Drained
    <3> QED BY <3>1, <3>2 DEF Tracked
  <2>7. AiuSound(t)
    BY <2>1, <2>2, <2>5, <2>6, RetunedSound DEF t
  <2> QED BY <2>3, <2>7 DEF AiuInv
<1> QED
  BY <1>0, <1>9 DEF IstFills, AiuStep

\* The host's clock runs ahead of the cursor.
LEMMA HostTimeSound ==
    ASSUME AiuInv, HostTime
    PROVE  AiuInv'
<1> DEFINE h == Heard(aiu)
<1>1. AiuSound(h) /\ h.running
  BY HeardSound DEF AiuInv, HostTime
<1>2. PICK n \in 1..Catchup + 1 :
         aiu' = [h EXCEPT !.owed = IF @ + n > Catchup THEN Catchup + 1 ELSE @ + n]
  BY DEF HostTime, AiuStep
<1> HIDE DEF h
<1> DEFINE w == IF h.owed + n > Catchup THEN Catchup + 1 ELSE h.owed + n
           t == Retuned(h, h.on, h.line, h.ist, h.seen, h.status, w)
<1>3. /\ h \in AiuRec /\ h.on \in BOOLEAN /\ h.line \in BOOLEAN /\ h.status \in SUBSET {0, 1}
      /\ h.seen \in SUBSET {0, 1} /\ h.owed \in Nat /\ h.ctl # {"dma"} /\ h.ist \in Stages
  BY <1>1, Fields, NotPrepared
<1>4. w \in Nat
  BY <1>3, AiuAssumption DEF AiuAssumption
<1>5. aiu' = [h EXCEPT !.owed = w]
  BY <1>2
<1> HIDE DEF w
<1>6. aiu' = t
  BY <1>3, <1>5 DEF Retuned, AiuRec
<1>7. Retune(h, t, h.on, h.line, h.ist, h.seen, h.status)
  BY <1>3, <1>4, RetunedIs
<1>8. /\ h.running /\ h.on => (h.line <=> h.status # {})
      /\ h.ist \in {"idle", "woken", "awake"} => h.seen = {}
      /\ h.ist # "woken" => h.on
  BY <1>1 DEF AiuSound, AiuTyped
<1> HIDE DEF t
<1>9. Tracked(h) => Tracked(t)
  BY <1>7 DEF Retune, SamePlay, Drained, Tracked
<1>10. AiuSound(t)
  BY <1>1, <1>3, <1>4, <1>8, <1>9, RetunedSound DEF t
<1> QED
  BY <1>6, <1>10 DEF AiuInv

\* The driver stops the output.
LEMMA StopsSound ==
    ASSUME AiuInv, DriverStops
    PROVE  AiuInv'
<1> DEFINE h == Heard(aiu)
           none == {}
           l == h.status # {} /\ h.on
           t == [h EXCEPT !.ctl = none, !.running = FALSE, !.line = l]
<1>1. AiuSound(h) /\ h.ist = "idle" /\ h.out = <<>>
  BY HeardSound DEF AiuInv, DriverStops
<1>2. aiu' = NoteWrite([h EXCEPT !.ctl = none])
  BY DEF DriverStops, AiuStep
<1> HIDE DEF h
<1>3. h \in AiuRec /\ AiuTyped(h) /\ l \in BOOLEAN /\ none \in SUBSET {"dma", "arm"}
      /\ none # {"dma", "arm"} /\ none # {"dma"} /\ none = {}
  BY <1>1, Fields DEF AiuSound
<1> HIDE DEF none
<1>4. aiu' = t
  <2> DEFINE k == [h EXCEPT !.ctl = none]
  <2>1. k \in AiuRec /\ k.ctl = none
    BY <1>3 DEF AiuRec
  <2>2. k.ctl # {"dma", "arm"}
    BY <1>3, <2>1
  <2>3. NoteWrite(k) = AiuIrqUpdate([k EXCEPT !.running = FALSE])
    <3> HIDE DEF k
    <3> QED BY <2>2 DEF NoteWrite
  <2>4. aiu' = AiuIrqUpdate([h EXCEPT !.ctl = none, !.running = FALSE])
    BY <1>2, <2>3
  <2> QED BY <1>3, <2>4 DEF AiuIrqUpdate, AiuSource, AiuRec
<1> HIDE DEF l
<1>5. /\ t \in AiuRec /\ t.ctl = none /\ t.running = FALSE /\ t.out = h.out /\ t.ist = h.ist
      /\ t.seen = h.seen /\ t.on = h.on /\ t.next = h.next
  BY <1>3, ZenonT(60) DEF AiuRec
<1> HIDE DEF t
<1>8. /\ t.ctl \in {{}, {"dma"}, {"dma", "arm"}} /\ (t.ctl = {"dma", "arm"}) = FALSE
  BY <1>3, <1>5
<1>6. AiuTyped(t)
  BY <1>3, <1>5, <1>8 DEF AiuTyped
<1>7. AiuSound(t)
  BY <1>1, <1>3, <1>5, <1>6 DEF AiuSound
<1> QED
  BY <1>4, <1>7 DEF AiuInv

\* A stall of the host: the clock starts again at the cursor.
LEMMA StallSound ==
    ASSUME NEW h, AiuSound(h), h.running
    PROVE  AiuSound([h EXCEPT !.owed = 0])
<1> DEFINE t == Retuned(h, h.on, h.line, h.ist, h.seen, h.status, 0)
<1>1. /\ h \in AiuRec /\ h.on \in BOOLEAN /\ h.line \in BOOLEAN /\ h.status \in SUBSET {0, 1}
      /\ h.seen \in SUBSET {0, 1} /\ h.ctl # {"dma"} /\ h.ist \in Stages
  BY Fields, NotPrepared
<1>2. [h EXCEPT !.owed = 0] = t
  BY <1>1 DEF Retuned, AiuRec
<1>3. Retune(h, t, h.on, h.line, h.ist, h.seen, h.status)
  BY <1>1, RetunedIs
<1>4. /\ h.running /\ h.on => (h.line <=> h.status # {})
      /\ h.ist \in {"idle", "woken", "awake"} => h.seen = {}
      /\ h.ist # "woken" => h.on
  BY DEF AiuSound, AiuTyped
<1> HIDE DEF t
<1>5. Tracked(h) => Tracked(t)
  BY <1>3 DEF Retune, SamePlay, Drained, Tracked
<1>6. AiuSound(t)
  BY <1>1, <1>4, <1>5, RetunedSound DEF t
<1> QED
  BY <1>2, <1>6

\* The buffers are played, and the line follows their status.
LEMMA PlaysSound ==
    ASSUME NEW h, AiuSound(h), h.running
    PROVE  AiuSound(AiuIrqUpdate(Play(h)))
<1> DEFINE p == Play(h)
           l == AiuSource(p)
           t == [p EXCEPT !.line = l]
<1>1. Within(h) /\ Orderly(h) /\ AiuTyped(h) /\ h.ctl # {"dma"}
  BY NotPrepared DEF AiuSound
<1>2. Within(p) /\ Orderly(p) /\ Unmoved(h, p)
  BY <1>1, PlayKeeps
<1>3. AiuIrqUpdate(p) = t
  BY DEF AiuIrqUpdate
<1> HIDE DEF p
<1>4. p \in AiuRec /\ l \in BOOLEAN /\ (l <=> p.status # {} /\ p.on)
  BY <1>2 DEF Within, AiuSource, AiuRec
<1> HIDE DEF l
<1>5. /\ t \in AiuRec /\ SamePlay(p, t) /\ t.out = p.out /\ t.last = p.last /\ t.ctl = p.ctl
      /\ t.running = p.running /\ t.on = p.on /\ t.line = l /\ t.ist = p.ist /\ t.seen = p.seen
      /\ t.status = p.status
  BY <1>4, ZenonT(60) DEF AiuRec, SamePlay
<1> HIDE DEF t
<1>6. AiuTyped(t)
  BY <1>1, <1>2, <1>5 DEF AiuTyped, Unmoved, SamePlay
<1>7. Within(t)
  BY <1>2, <1>5 DEF Within, SamePlay
<1>8. Tracked(p) => Tracked(t)
  BY <1>5 DEF SamePlay, Drained, Tracked
<1>9. Orderly(t)
  BY <1>2, <1>5, <1>8, PlayingAlike DEF Orderly, SamePlay
<1>10. AiuSound(t)
  BY <1>1, <1>2, <1>4, <1>5, <1>6, <1>7, <1>9 DEF AiuSound, Unmoved
<1> QED
  BY <1>3, <1>10 DEF p

\* A tick of the wave output.
LEMMA TickSound ==
    ASSUME AiuInv, AudioTick
    PROVE  AiuInv'
<1> DEFINE h == Heard(aiu)
<1>1. AiuSound(h)
  BY HeardSound DEF AiuInv
<1>2. aiu' = AiuTick(h)
  BY DEF AudioTick, AiuStep
<1> HIDE DEF h
<1>3. \/ AiuTick(h) = h
      \/ h.running /\ AiuTick(h) = [h EXCEPT !.owed = 0]
      \/ h.running /\ AiuTick(h) = AiuIrqUpdate(Play(h))
  BY DEF AiuTick
<1> QED
  BY <1>1, <1>2, <1>3, StallSound, PlaysSound DEF AiuInv

--------------------------------------------------------------------------------
\* The chip after a reset satisfies the invariant of the wave output.
LEMMA AiuStarts ==
    ASSUME AiuInit
    PROVE  AiuInv
<1> DEFINE zero == [i \in 0..1 |-> 0]
           none == {}
           empty == <<>>
           l == <<0, 0>>
<1>1. /\ zero \in [{0, 1} -> Nat] /\ l \in Nat \X Nat /\ empty \in Seq(Nat \X Nat) /\ empty = <<>>
      /\ none \in SUBSET {0, 1} /\ none \in SUBSET {"dma", "arm"}
      /\ none # {"dma"} /\ none # {"dma", "arm"} /\ none = {}
  OBVIOUS
<1>2. aiu = [ctl |-> none, running |-> FALSE, cur |-> 0, pos |-> 0, status |-> none,
             reg |-> zero, len |-> zero, owed |-> 0, on |-> TRUE,
             line |-> FALSE, out |-> empty, mem |-> zero, fresh |-> none, next |-> 1,
             ist |-> "idle", seen |-> none, late |-> FALSE, last |-> l]
  BY DEF AiuInit, Silent
<1> HIDE DEF zero, none, empty, l
<1>3. aiu \in AiuRec
  BY <1>1, <1>2 DEF AiuRec
<1>4. /\ aiu.ctl = none /\ aiu.running = FALSE /\ aiu.next = 1 /\ aiu.seen = none
      /\ aiu.on = TRUE /\ aiu.out = empty
  BY <1>2
<1>6. aiu.ctl \in {{}, {"dma"}, {"dma", "arm"}} /\ (aiu.ctl = {"dma", "arm"}) = FALSE
      /\ aiu.seen = {}
  BY <1>1, <1>4
<1>7. aiu.running = (aiu.ctl = {"dma", "arm"})
  BY <1>4, <1>6
<1>8. aiu.next >= 1 /\ aiu.on
  BY <1>4
<1>5. AiuTyped(aiu)
  BY <1>3, <1>6, <1>7, <1>8 DEF AiuTyped
<1> QED
  BY <1>1, <1>4, <1>5 DEF AiuInv, AiuSound

\* Every step keeps the invariant of the wave output.
LEMMA AiuNextSound ==
    ASSUME AiuInv, [AiuNext]_aiuVars
    PROVE  AiuInv'
<1>1. CASE UNCHANGED aiuVars
  BY <1>1 DEF AiuInv, aiuVars
<1>2. CASE DriverPrepares
  BY <1>2, PreparesSound
<1>3. CASE DriverStarts
  BY <1>3, StartsSound
<1>4. CASE DriverStops
  BY <1>4, StopsSound
<1>5. CASE OalTakesAudio
  BY <1>5, OalTakesSound
<1>6. CASE IstDone
  BY <1>6, IstDoneSound
<1>7. CASE IstReads
  BY <1>7, IstReadsSound
<1>8. CASE IstAcks
  BY <1>8, IstAcksSound
<1>9. CASE IstFills
  BY <1>9, IstFillsSound
<1>10. CASE HostTime
  BY <1>10, HostTimeSound
<1>11. CASE AudioTick
  BY <1>11, TickSound
<1> QED
  BY <1>1, <1>2, <1>3, <1>4, <1>5, <1>6, <1>7, <1>8, <1>9, <1>10, <1>11 DEF AiuNext

\* The invariant is enough for what is heard to be in order.
LEMMA AiuInvGives ==
    ASSUME AiuInv
    PROVE  SoundInOrder
<1> DEFINE s == aiu
<1>1. AiuSound(s)
  BY DEF AiuInv
<1> SUFFICES ASSUME ~s.late
             PROVE  /\ InOrder(s)
                    /\ s.running => {0, 1} \ s.fresh \subseteq s.status \cup s.seen
                    /\ s.running /\ s.on => (s.line <=> s.status # {})
  BY DEF SoundInOrder
<1> HIDE DEF s
<1>2. s.ist \in Stages
  BY <1>1, Fields
<1>3. CASE ~s.running
  <2>1. s.out = <<>>
    BY <1>1, <1>3 DEF AiuSound
  <2> QED BY <1>3, <2>1 DEF InOrder
<1>4. CASE s.running
  <2>1. Playing(s) /\ Tracked(s)
    BY <1>1, <1>4 DEF AiuSound, Orderly
  <2>2. Drained(s) \subseteq s.status \cup s.seen
    BY <1>2, <2>1 DEF Tracked, Stages
  <2> QED BY <1>1, <1>4, <2>1, <2>2 DEF AiuSound, Playing, Drained
<1> QED
  BY <1>3, <1>4

(***************************************************************************)
(* Unless the driver lets a buffer run out before it refills it, every     *)
(* frame of every block is heard, once and in the order the driver filled  *)
(* them in, whatever the buffers' lengths, the batch and the stall the     *)
(* clock forgives (aiu_tick, aiu_note_write, aiu_irq_update).              *)
(***************************************************************************)
THEOREM SoundStaysInOrder == AiuSpec => []SoundInOrder
<1>1. AiuInit => AiuInv
  BY AiuStarts
<1>2. AiuInv /\ [AiuNext]_aiuVars => AiuInv'
  BY AiuNextSound
<1>3. AiuInv => SoundInOrder
  BY AiuInvGives
<1> QED
  BY <1>1, <1>2, <1>3, PTL DEF AiuSpec

--------------------------------------------------------------------------------
(***************************************************************************)
(* The EEPROM's arithmetic: bits of a number, high bit first.              *)
(***************************************************************************)
\* The values of f are those of F applied again and again to a.
Iterates(f, m, a, F) == /\ f \in [0..m -> Nat]
                        /\ \A i \in 0..m : f[i] = IF i = 0 THEN a ELSE F[f[i - 1]]

\* There are as many of them as one likes.
LEMMA IteratesExist ==
    ASSUME NEW a \in Nat, NEW F \in [Nat -> Nat], NEW N \in Nat
    PROVE  \E f : Iterates(f, N, a, F)
<1> DEFINE T == {m \in Nat : \E f : Iterates(f, m, a, F)}
<1>1. 0 \in T
  <2> DEFINE f == [i \in 0..0 |-> a]
  <2>1. Iterates(f, 0, a, F)
    BY DEF Iterates
  <2> QED
    BY <2>1
<1>2. ASSUME NEW m \in T PROVE m + 1 \in T
  <2>0. m \in Nat /\ m + 1 \in Nat
    OBVIOUS
  <2>1. PICK f : Iterates(f, m, a, F)
    OBVIOUS
  <2> DEFINE y == F[f[m]]
             g == [i \in 0..m + 1 |-> IF i = m + 1 THEN y ELSE f[i]]
  <2>2. y = F[f[m]] /\ y \in Nat
    BY <2>0, <2>1 DEF Iterates
  <2> HIDE DEF y
  <2>3. \A i \in 0..m + 1 : g[i] = IF i = m + 1 THEN y ELSE f[i]
    OBVIOUS
  <2>4. g \in [0..m + 1 -> Nat]
    <3>1. \A i \in 0..m + 1 : i = m + 1 \/ i \in 0..m
      BY <2>0
    <3> QED
      BY <2>1, <2>2, <3>1 DEF Iterates
  <2> HIDE DEF g
  <2>5. ASSUME NEW i \in 0..m + 1
        PROVE  g[i] = IF i = 0 THEN a ELSE F[g[i - 1]]
    <3>1. CASE i = m + 1
      <4>1. i # 0 /\ i - 1 = m /\ m \in 0..m + 1 /\ m # m + 1
        BY <2>0, <3>1
      <4>2. g[i - 1] = f[m] /\ g[i] = y
        BY <2>3, <3>1, <4>1
      <4> QED
        BY <2>2, <4>1, <4>2
    <3>2. CASE i # m + 1
      <4>1. i \in 0..m /\ g[i] = f[i]
        BY <2>0, <2>3, <3>2
      <4>2. f[i] = IF i = 0 THEN a ELSE F[f[i - 1]]
        BY <2>1, <4>1 DEF Iterates
      <4>3. i # 0 => i - 1 \in 0..m + 1 /\ i - 1 # m + 1
        BY <2>0, <3>2
      <4>4. i # 0 => g[i - 1] = f[i - 1]
        BY <2>3, <4>3
      <4> QED
        BY <4>1, <4>2, <4>4
    <3> QED
      BY <3>1, <3>2
  <2>6. Iterates(g, m + 1, a, F)
    BY <2>4, <2>5 DEF Iterates
  <2> QED
    BY <2>0, <2>6
<1>3. T = Nat
  <2>1. T \in SUBSET Nat
    OBVIOUS
  <2> HIDE DEF T
  <2> QED
    BY <1>1, <1>2, <2>1, SetInduction
<1> QED
  BY <1>3

\* They do not depend on how many there are.
LEMMA IteratesAgree ==
    ASSUME NEW a \in Nat, NEW F, NEW M \in Nat, NEW N \in Nat, NEW f, NEW g,
           Iterates(f, M, a, F), Iterates(g, N, a, F)
    PROVE  \A i \in Nat : i <= M /\ i <= N => f[i] = g[i]
<1> DEFINE T == {i \in Nat : i <= M /\ i <= N => f[i] = g[i]}
<1>1. 0 \in T
  BY DEF Iterates
<1>2. ASSUME NEW m \in T PROVE m + 1 \in T
  <2>1. SUFFICES ASSUME m + 1 <= M, m + 1 <= N PROVE f[m + 1] = g[m + 1]
    OBVIOUS
  <2>2. /\ m \in Nat /\ m + 1 \in 0..M /\ m + 1 \in 0..N /\ m + 1 # 0 /\ (m + 1) - 1 = m
        /\ f[m] = g[m]
    BY <2>1
  <2>3. f[m + 1] = F[f[m]]
    BY <2>2 DEF Iterates
  <2>4. g[m + 1] = F[g[m]]
    BY <2>2 DEF Iterates
  <2> QED
    BY <2>2, <2>3, <2>4
<1>3. T = Nat
  <2>1. T \in SUBSET Nat
    OBVIOUS
  <2> HIDE DEF T
  <2> QED
    BY <1>1, <1>2, <2>1, SetInduction
<1> QED
  BY <1>3

Listing(h, k) == h = [i \in 0..k |-> h[i]]

\* A function that satisfies the equation is such a list of values.
LEMMA IteratesTyped ==
    ASSUME NEW a \in Nat, NEW F \in [Nat -> Nat], NEW k \in Nat, NEW h, Listing(h, k),
           h[0] = a, \A i \in 1..k : h[i - 1] \in Nat => h[i] = F[h[i - 1]]
    PROVE  Iterates(h, k, a, F)
<1> DEFINE T == {m \in Nat : m <= k => h[m] \in Nat}
<1>5. 0 \in T
  OBVIOUS
<1>6. ASSUME NEW m \in T PROVE m + 1 \in T
  <2>1. SUFFICES ASSUME m + 1 <= k PROVE h[m + 1] \in Nat
    OBVIOUS
  <2>2. m \in Nat /\ m + 1 \in 1..k /\ (m + 1) - 1 = m /\ h[m] \in Nat
    BY <2>1
  <2>3. h[m + 1] = F[h[m]]
    BY <2>2
  <2> QED
    BY <2>2, <2>3
<1>7. T = Nat
  <2>1. T \in SUBSET Nat
    OBVIOUS
  <2> HIDE DEF T
  <2> QED
    BY <1>5, <1>6, <2>1, SetInduction
<1>8. \A i \in 0..k : h[i] \in Nat
  BY <1>7
<1>9. h \in [0..k -> Nat]
  BY <1>8 DEF Listing
<1>10. ASSUME NEW i \in 0..k PROVE h[i] = IF i = 0 THEN a ELSE F[h[i - 1]]
  <2>1. i # 0 => i \in 1..k /\ i - 1 \in 0..k
    OBVIOUS
  <2> QED BY <1>8, <2>1
<1> QED
  BY <1>9, <1>10 DEF Iterates

\* Both of the model's, as the values they stand for.
Halving == [x \in Nat |-> x \div 2]
Doubling == [x \in Nat |-> 2 * x]

\* A shift is repeated halving.
LEMMA ShiftedIs ==
    ASSUME NEW n \in Nat, NEW k \in Nat
    PROVE  \E h : Iterates(h, k, n, Halving) /\ Shifted(n, k) = h[k]
<1> DEFINE Halvings(f) == [i \in 0..k |-> IF i = 0 THEN n ELSE f[i - 1] \div 2]
           r == CHOOSE f : f = Halvings(f)
<1>1. Halving \in [Nat -> Nat]
  BY DEF Halving
<1>2. Shifted(n, k) = r[k]
  BY DEF Shifted
<1>3. PICK f : Iterates(f, k, n, Halving)
  BY <1>1, IteratesExist
<1>4. f = Halvings(f)
  <2>1. f = [i \in 0..k |-> f[i]]
    BY <1>3 DEF Iterates
  <2>2. ASSUME NEW i \in 0..k PROVE f[i] = IF i = 0 THEN n ELSE f[i - 1] \div 2
    <3>1. i # 0 => i - 1 \in 0..k
      OBVIOUS
    <3> QED BY <1>3, <3>1 DEF Iterates, Halving
  <2> QED BY <2>1, <2>2
<1>5. r = Halvings(r)
  <2> HIDE DEF Halvings
  <2> QED BY <1>4
<1> HIDE DEF r
<1>6. Listing(r, k) /\ \A i \in 0..k : r[i] = IF i = 0 THEN n ELSE r[i - 1] \div 2
  BY <1>5 DEF Listing
<1>7. r[0] = n /\ \A i \in 1..k : r[i - 1] \in Nat => r[i] = Halving[r[i - 1]]
  <2>1. ASSUME NEW i \in 1..k, r[i - 1] \in Nat PROVE r[i] = Halving[r[i - 1]]
    <3>1. i \in 0..k /\ i # 0
      OBVIOUS
    <3> QED BY <1>6, <2>1, <3>1 DEF Halving
  <2> QED BY <1>6, <2>1
<1>8. Iterates(r, k, n, Halving)
  BY <1>1, <1>6, <1>7, IteratesTyped
<1> QED
  BY <1>2, <1>8

\* A power of two is repeated doubling.
LEMMA PowerIs ==
    ASSUME NEW k \in Nat
    PROVE  \E h : Iterates(h, k, 1, Doubling) /\ Power(k) = h[k]
<1> DEFINE Halvings(f) == [i \in 0..k |-> IF i = 0 THEN 1 ELSE 2 * f[i - 1]]
           r == CHOOSE f : f = Halvings(f)
<1>1. Doubling \in [Nat -> Nat]
  BY DEF Doubling
<1>2. Power(k) = r[k]
  BY DEF Power
<1>3. PICK f : Iterates(f, k, 1, Doubling)
  BY <1>1, IteratesExist
<1>4. f = Halvings(f)
  <2>1. f = [i \in 0..k |-> f[i]]
    BY <1>3 DEF Iterates
  <2>2. ASSUME NEW i \in 0..k PROVE f[i] = IF i = 0 THEN 1 ELSE 2 * f[i - 1]
    <3>1. i # 0 => i - 1 \in 0..k
      OBVIOUS
    <3> QED BY <1>3, <3>1 DEF Iterates, Doubling
  <2> QED BY <2>1, <2>2
<1>5. r = Halvings(r)
  <2> HIDE DEF Halvings
  <2> QED BY <1>4
<1> HIDE DEF r
<1>6. Listing(r, k) /\ \A i \in 0..k : r[i] = IF i = 0 THEN 1 ELSE 2 * r[i - 1]
  BY <1>5 DEF Listing
<1>7. r[0] = 1 /\ \A i \in 1..k : r[i - 1] \in Nat => r[i] = Doubling[r[i - 1]]
  <2>1. ASSUME NEW i \in 1..k, r[i - 1] \in Nat PROVE r[i] = Doubling[r[i - 1]]
    <3>1. i \in 0..k /\ i # 0
      OBVIOUS
    <3> QED BY <1>6, <2>1, <3>1 DEF Doubling
  <2> QED BY <1>6, <2>1
<1>8. Iterates(r, k, 1, Doubling)
  BY <1>1, <1>6, <1>7, IteratesTyped
<1> QED
  BY <1>2, <1>8

\* One bit at a time.
LEMMA ShiftedStep ==
    ASSUME NEW n \in Nat, NEW k \in Nat
    PROVE  /\ Shifted(n, k) \in Nat /\ Shifted(n, 0) = n
           /\ Shifted(n, k + 1) = Shifted(n, k) \div 2
<1>1. PICK f : Iterates(f, k, n, Halving) /\ Shifted(n, k) = f[k]
  BY ShiftedIs
<1>2. PICK g : Iterates(g, k + 1, n, Halving) /\ Shifted(n, k + 1) = g[k + 1]
  BY ShiftedIs
<1>3. PICK h : Iterates(h, 0, n, Halving) /\ Shifted(n, 0) = h[0]
  BY ShiftedIs
<1>4. f[k] = g[k]
  BY <1>1, <1>2, IteratesAgree
<1>5. /\ k \in 0..k /\ k + 1 \in 0..k + 1 /\ k + 1 # 0 /\ (k + 1) - 1 = k /\ k \in 0..k + 1
  OBVIOUS
<1>6. g[k + 1] = Halving[g[k]] /\ g[k] \in Nat
  BY <1>2, <1>5 DEF Iterates
<1>7. h[0] = n
  BY <1>3 DEF Iterates
<1> QED
  BY <1>1, <1>2, <1>3, <1>4, <1>6, <1>7 DEF Halving

\* One bit more doubles a power of two.
LEMMA PowerStep ==
    ASSUME NEW k \in Nat
    PROVE  /\ Power(k) \in Nat /\ Power(k) >= 1 /\ Power(0) = 1
           /\ Power(k + 1) = 2 * Power(k)
<1>1. ASSUME NEW j \in Nat PROVE Power(j) \in Nat /\ Power(j + 1) = 2 * Power(j)
  <2>1. PICK f : Iterates(f, j, 1, Doubling) /\ Power(j) = f[j]
    BY PowerIs
  <2>2. PICK g : Iterates(g, j + 1, 1, Doubling) /\ Power(j + 1) = g[j + 1]
    BY PowerIs
  <2>4. f[j] = g[j]
    BY <2>1, <2>2, IteratesAgree
  <2>5. /\ j \in 0..j /\ j + 1 \in 0..j + 1 /\ j + 1 # 0 /\ (j + 1) - 1 = j /\ j \in 0..j + 1
    OBVIOUS
  <2>6. g[j + 1] = Doubling[g[j]] /\ g[j] \in Nat
    BY <2>2, <2>5 DEF Iterates
  <2> QED
    BY <2>1, <2>2, <2>4, <2>6 DEF Doubling
<1>2. Power(0) = 1
  <2>1. PICK h : Iterates(h, 0, 1, Doubling) /\ Power(0) = h[0]
    BY PowerIs
  <2> QED BY <2>1 DEF Iterates
<1> DEFINE T == {m \in Nat : Power(m) >= 1}
<1>3. 0 \in T
  BY <1>2
<1>4. ASSUME NEW m \in T PROVE m + 1 \in T
  BY <1>1
<1>5. T = Nat
  <2>1. T \in SUBSET Nat
    OBVIOUS
  <2> HIDE DEF T
  <2> QED
    BY <1>3, <1>4, <2>1, SetInduction
<1> QED
  BY <1>1, <1>2, <1>5

\* The bits above a number's own are clear, and those of a power of two but one.
LEMMA ShiftedBits ==
    ASSUME NEW k \in Nat
    PROVE  /\ \A n \in Nat : n < Power(k) => Shifted(n, k) = 0
           /\ Shifted(Power(k), k) = 1
           /\ k >= 1 => Shifted(Power(k) + 1, k) = 1
<1>1. ASSUME NEW n \in Nat, NEW j \in Nat PROVE Shifted(n, j + 1) = Shifted(n \div 2, j)
  <2> DEFINE T == {m \in Nat : Shifted(n, m + 1) = Shifted(n \div 2, m)}
  <2>0. n \div 2 \in Nat
    OBVIOUS
  <2>1. 0 \in T
    <3>1. Shifted(n, 0) = n /\ Shifted(n, 0 + 1) = Shifted(n, 0) \div 2 /\ Shifted(n \div 2, 0) = n \div 2
      BY <2>0, ShiftedStep
    <3> QED BY <3>1
  <2>2. ASSUME NEW m \in T PROVE m + 1 \in T
    <3>1. m \in Nat /\ m + 1 \in Nat /\ Shifted(n, m + 1) = Shifted(n \div 2, m)
      OBVIOUS
    <3>2. Shifted(n, (m + 1) + 1) = Shifted(n, m + 1) \div 2
      BY <3>1, ShiftedStep
    <3>3. Shifted(n \div 2, m + 1) = Shifted(n \div 2, m) \div 2
      BY <2>0, <3>1, ShiftedStep
    <3> QED BY <3>1, <3>2, <3>3
  <2>3. T = Nat
    <3>1. T \in SUBSET Nat
      OBVIOUS
    <3> HIDE DEF T
    <3> QED
      BY <2>1, <2>2, <3>1, SetInduction
  <2> QED BY <2>3
<1> DEFINE T == {m \in Nat : /\ \A n \in Nat : n < Power(m) => Shifted(n, m) = 0
                             /\ Shifted(Power(m), m) = 1
                             /\ m >= 1 => Shifted(Power(m) + 1, m) = 1}
<1>2. 0 \in T
  <2>1. Power(0) = 1 /\ Shifted(1, 0) = 1 /\ \A n \in Nat : Shifted(n, 0) = n
    BY ShiftedStep, PowerStep
  <2> QED BY <2>1
<1>3. ASSUME NEW m \in T PROVE m + 1 \in T
  <2>1. /\ m \in Nat /\ Power(m) \in Nat /\ Power(m) >= 1 /\ Power(m + 1) = 2 * Power(m)
        /\ Power(m + 1) \in Nat /\ Power(m + 1) + 1 \in Nat
    BY PowerStep
  <2>2. ASSUME NEW n \in Nat, n < Power(m + 1) PROVE Shifted(n, m + 1) = 0
    <3>1. n \div 2 \in Nat /\ n \div 2 < Power(m)
      BY <2>1, <2>2
    <3>2. Shifted(n, m + 1) = Shifted(n \div 2, m)
      BY <1>1
    <3> QED BY <3>1, <3>2
  <2>3. Shifted(Power(m + 1), m + 1) = 1
    <3>1. Power(m + 1) \div 2 = Power(m)
      BY <2>1
    <3>2. Shifted(Power(m + 1), m + 1) = Shifted(Power(m + 1) \div 2, m)
      BY <1>1, <2>1
    <3> QED BY <3>1, <3>2
  <2>4. Shifted(Power(m + 1) + 1, m + 1) = 1
    <3>1. (Power(m + 1) + 1) \div 2 = Power(m)
      BY <2>1
    <3>2. Shifted(Power(m + 1) + 1, m + 1) = Shifted((Power(m + 1) + 1) \div 2, m)
      BY <1>1, <2>1
    <3> QED BY <3>1, <3>2
  <2> QED BY <2>1, <2>2, <2>3, <2>4
<1>4. T = Nat
  <2>1. T \in SUBSET Nat
    OBVIOUS
  <2> HIDE DEF T
  <2> QED
    BY <1>2, <1>3, <2>1, SetInduction
<1> QED
  BY <1>4

\* A byte: how far its bits have come, and the device bytes.
Address == 0..Cells - 1
Leading(b, j) == Shifted(b, Width - j)

\* What the assumption on the constants gives.
LEMMA WidthIs == Width \in Nat /\ Width >= 2 /\ Cells \in Nat /\ Cells >= 4 /\ Written \subseteq Address
<1>1. Width \in Nat /\ Width >= 2 /\ Written \subseteq Address
  BY EepromAssumption DEF Address
<1>2. /\ Power(Width) = 2 * Power(Width - 1) /\ Power(Width - 1) = 2 * Power(Width - 2)
      /\ Power(Width - 2) \in Nat /\ Power(Width - 2) >= 1
  <2>1. Width - 2 \in Nat /\ Width - 1 \in Nat /\ (Width - 2) + 1 = Width - 1 /\ (Width - 1) + 1 = Width
    BY <1>1
  <2> QED BY <2>1, PowerStep
<1> QED
  BY <1>1, <1>2 DEF Cells

\* A byte shifted by k fits in the bits that are left.
LEMMA ShiftedBounded ==
    ASSUME NEW n \in Nat, NEW k \in Nat
    PROVE  Shifted(n, k) \in 0..n
<1> DEFINE T == {m \in Nat : Shifted(n, m) \in 0..n}
<1>1. 0 \in T
  BY ShiftedStep
<1>2. ASSUME NEW m \in T PROVE m + 1 \in T
  <2>1. Shifted(n, m + 1) = Shifted(n, m) \div 2 /\ Shifted(n, m) \in 0..n
    BY ShiftedStep
  <2>2. \A x \in 0..n : x \div 2 \in 0..n
    OBVIOUS
  <2> QED BY <2>1, <2>2
<1>3. T = Nat
  <2>1. T \in SUBSET Nat
    OBVIOUS
  <2> HIDE DEF T
  <2> QED
    BY <1>1, <1>2, <2>1, SetInduction
<1> QED
  BY <1>3

\* A bit shifted in after the bits before it gives the bits up to it.
LEMMA BitJoins ==
    ASSUME NEW b \in Address, NEW j \in 0..Width - 1
    PROVE  /\ Bit(b, j) \in {0, 1}
           /\ Leading(b, j + 1) \in Address
           /\ (2 * Leading(b, j) + Bit(b, j)) % Cells = Leading(b, j + 1)
<1> DEFINE x == Shifted(b, Width - 1 - j)
<1>1. b \in Nat /\ Width - 1 - j \in Nat /\ (Width - 1 - j) + 1 = Width - j /\ Width - (j + 1) = Width - 1 - j
  BY WidthIs DEF Address
<1>2. x \in 0..b /\ Shifted(b, Width - j) = x \div 2
  BY <1>1, ShiftedBounded, ShiftedStep
<1>3. Bit(b, j) = x % 2 /\ Leading(b, j + 1) = x /\ Leading(b, j) = x \div 2
  BY <1>1, <1>2 DEF Bit, Leading
<1> HIDE DEF x
<1>4. x \in Nat /\ x < Cells
  BY <1>1, <1>2, WidthIs DEF Address
<1>5. 2 * (x \div 2) + (x % 2) = x /\ x % 2 \in {0, 1}
  <2>1. \A y \in Nat : 2 * (y \div 2) + (y % 2) = y
    OBVIOUS
  <2>2. \A y \in Nat : y % 2 \in {0, 1}
    OBVIOUS
  <2> QED BY <1>4, <2>1, <2>2
<1>6. x % Cells = x
  BY <1>4, WidthIs
<1> QED
  BY <1>3, <1>4, <1>5, <1>6, WidthIs DEF Address

\* No bits of a byte, and all of them.
LEMMA LeadingEnds ==
    ASSUME NEW b \in Address
    PROVE  Leading(b, 0) = 0 /\ Leading(b, Width) = b
<1>1. b \in Nat /\ b < Power(Width) /\ Width \in Nat
  BY WidthIs DEF Address, Cells
<1>2. Shifted(b, Width) = 0 /\ Shifted(b, 0) = b
  BY <1>1, ShiftedBits, ShiftedStep
<1>3. Width - 0 = Width /\ Width - Width = 0
  BY <1>1
<1> QED
  BY <1>2, <1>3 DEF Leading

\* The device bytes, as ByteReceived tells them apart.
LEMMA OwnBytes ==
    /\ OwnWrite \in Address /\ OwnRead \in Address
    /\ Bit(OwnWrite, 0) = 1 /\ Bit(OwnRead, 0) = 1 /\ OwnWrite % 2 = 0 /\ OwnRead % 2 = 1
<1>1. Width \in Nat /\ Width - 1 \in Nat /\ Width - 2 \in Nat /\ Width - 1 >= 1 /\ Width - 1 - 0 = Width - 1
      /\ (Width - 2) + 1 = Width - 1 /\ (Width - 1) + 1 = Width
  BY WidthIs
<1>2. /\ Power(Width) = 2 * Power(Width - 1) /\ Power(Width - 1) = 2 * Power(Width - 2)
      /\ Power(Width - 2) \in Nat /\ Power(Width - 2) >= 1
  BY <1>1, PowerStep
<1>3. Shifted(Power(Width - 1), Width - 1) = 1 /\ Shifted(Power(Width - 1) + 1, Width - 1) = 1
  BY <1>1, ShiftedBits
<1>4. Bit(OwnWrite, 0) = 1 /\ Bit(OwnRead, 0) = 1
  BY <1>1, <1>3 DEF Bit, OwnWrite, OwnRead
<1> QED
  BY <1>2, <1>4 DEF OwnWrite, OwnRead, Address, Cells

(***************************************************************************)
(* What the master still has to do: the rest of a piece of its script, and *)
(* the pieces after it.                                                    *)
(***************************************************************************)
Edge == [pin : {"scl", "sda", "none"}, level : {0, 1}]
Ahead(rest, piece, i, after) == rest = [k \in 1..Len(piece) - i |-> piece[k + i]] \o after

\* One edge of a piece leaves the rest of it.
LEMMA AheadMoves ==
    ASSUME NEW piece \in Seq(Edge), NEW after \in Seq(Edge), NEW i \in 0..Len(piece) - 1,
           NEW rest, Ahead(rest, piece, i, after)
    PROVE  /\ rest # <<>> /\ Head(rest) = piece[i + 1] /\ Ahead(Tail(rest), piece, i + 1, after)
           /\ rest \in Seq(Edge)
<1> DEFINE here == [k \in 1..Len(piece) - i |-> piece[k + i]]
           next == [k \in 1..Len(piece) - (i + 1) |-> piece[k + (i + 1)]]
<1>1. Len(piece) \in Nat /\ i \in Nat /\ i + 1 \in 1..Len(piece)
  BY LenProperties
<1>2. here \in Seq(Edge) /\ Len(here) = Len(piece) - i /\ next \in Seq(Edge) /\ Len(next) = Len(piece) - (i + 1)
  <2>1. \A k \in 1..Len(piece) : piece[k] \in Edge
    BY ElementOfSeq
  <2>2. here \in [1..Len(piece) - i -> Edge] /\ Len(piece) - i \in Nat
    BY <1>1, <2>1
  <2>3. next \in [1..Len(piece) - (i + 1) -> Edge] /\ Len(piece) - (i + 1) \in Nat
    BY <1>1, <2>1
  <2> QED BY <2>2, <2>3, LenProperties
<1>3. \A k \in 1..Len(here) : here[k] = piece[k + i]
  BY <1>2
<1>4. \A k \in 1..Len(next) : next[k] = piece[k + (i + 1)]
  BY <1>2
<1>5. rest = here \o after
  BY DEF Ahead
<1> HIDE DEF here, next
<1>6. /\ rest \in Seq(Edge) /\ Len(rest) = Len(here) + Len(after) /\ Len(after) \in Nat
      /\ \A k \in 1..Len(rest) : rest[k] = IF k <= Len(here) THEN here[k] ELSE after[k - Len(here)]
  <2>1. /\ here \o after \in Seq(Edge) /\ Len(here \o after) = Len(here) + Len(after)
        /\ \A k \in 1..Len(here) + Len(after) :
             (here \o after)[k] = IF k <= Len(here) THEN here[k] ELSE after[k - Len(here)]
    BY <1>2, ConcatProperties
  <2> QED BY <1>5, <2>1, LenProperties
<1>7. rest # <<>> /\ Head(rest) = rest[1] /\ rest[1] = piece[i + 1]
  <2>1. Len(rest) \in Nat /\ Len(rest) >= 1 /\ 1 \in 1..Len(here) /\ 1 \in 1..Len(rest)
    BY <1>1, <1>2, <1>6
  <2>2. rest # <<>>
    BY <1>6, <2>1, EmptySeq
  <2>3. here[1] = piece[i + 1]
    BY <1>1, <1>3, <2>1
  <2> QED BY <1>6, <2>1, <2>2, <2>3, HeadTailProperties
<1>8. Tail(rest) = next \o after
  <2>1. /\ Tail(rest) \in Seq(Edge) /\ Len(Tail(rest)) = Len(rest) - 1
        /\ \A k \in 1..Len(Tail(rest)) : Tail(rest)[k] = rest[k + 1]
    BY <1>6, <1>7, HeadTailProperties
  <2>2. /\ next \o after \in Seq(Edge) /\ Len(next \o after) = Len(next) + Len(after)
        /\ \A k \in 1..Len(next) + Len(after) :
             (next \o after)[k] = IF k <= Len(next) THEN next[k] ELSE after[k - Len(next)]
    BY <1>2, ConcatProperties
  <2>3. Len(Tail(rest)) = Len(next \o after)
    BY <1>1, <1>2, <1>6, <2>1, <2>2
  <2>4. ASSUME NEW k \in 1..Len(Tail(rest)) PROVE Tail(rest)[k] = (next \o after)[k]
    <3>1. k \in Nat /\ k + 1 \in 1..Len(rest) /\ k \in 1..Len(next) + Len(after)
      BY <1>1, <1>2, <1>6, <2>1
    <3>2. Tail(rest)[k] = IF k + 1 <= Len(here) THEN here[k + 1] ELSE after[(k + 1) - Len(here)]
      BY <1>6, <2>1, <3>1
    <3>3. (next \o after)[k] = IF k <= Len(next) THEN next[k] ELSE after[k - Len(next)]
      BY <2>2, <3>1
    <3>4. CASE k <= Len(next)
      <4>1. k + 1 \in 1..Len(here) /\ k \in 1..Len(next) /\ (k + 1) + i = k + (i + 1)
        BY <1>1, <1>2, <3>1, <3>4
      <4> QED BY <1>3, <1>4, <3>2, <3>3, <4>1
    <3>5. CASE ~(k <= Len(next))
      <4>1. ~(k + 1 <= Len(here)) /\ (k + 1) - Len(here) = k - Len(next)
        BY <1>1, <1>2, <3>1, <3>5
      <4> QED BY <3>2, <3>3, <3>5, <4>1
    <3> QED BY <3>4, <3>5
  <2> QED BY <2>1, <2>2, <2>3, <2>4, SeqEqual
<1> QED
  BY <1>6, <1>7, <1>8 DEF Ahead, next

\* All of a piece is ahead at its beginning, nothing of it at its end.
LEMMA AheadBegins ==
    ASSUME NEW piece \in Seq(Edge), NEW after \in Seq(Edge)
    PROVE  /\ Ahead(piece \o after, piece, 0, after)
           /\ \A rest : Ahead(rest, piece, Len(piece), after) => rest = after
<1> DEFINE whole == [k \in 1..Len(piece) - 0 |-> piece[k + 0]]
           none == [k \in 1..Len(piece) - Len(piece) |-> piece[k + Len(piece)]]
<1>1. Len(piece) \in Nat /\ \A k \in 1..Len(piece) : piece[k] \in Edge
  BY LenProperties, ElementOfSeq
<1>2. whole = piece
  <2>1. whole \in Seq(Edge) /\ Len(whole) = Len(piece)
    <3>1. whole \in [1..Len(piece) -> Edge]
      BY <1>1
    <3> QED BY <1>1, <3>1, LenProperties
  <2>2. \A k \in 1..Len(whole) : whole[k] = piece[k]
    BY <1>1, <2>1
  <2> HIDE DEF whole
  <2> QED BY <2>1, <2>2, SeqEqual
<1>3. none = <<>>
  BY <1>1
<1>4. <<>> \o after = after
  BY ConcatEmptySeq
<1> HIDE DEF whole, none
<1> QED
  BY <1>2, <1>3, <1>4 DEF Ahead, whole, none

\* The pieces of a script.
LEMMA ShortPieces ==
    /\ StartEdges \in Seq(Edge) /\ Len(StartEdges) = 4
    /\ StartEdges[1] = Sda(1) /\ StartEdges[2] = Scl(1) /\ StartEdges[3] = Sda(0) /\ StartEdges[4] = Scl(0)
    /\ StopEdges \in Seq(Edge) /\ Len(StopEdges) = 3
    /\ StopEdges[1] = Sda(0) /\ StopEdges[2] = Scl(1) /\ StopEdges[3] = Sda(1)
    /\ \A bit \in {0, 1} : /\ Clocked(bit) \in Seq(Edge) /\ Len(Clocked(bit)) = 3
                           /\ Clocked(bit)[1] = Sda(bit) /\ Clocked(bit)[2] = Scl(1) /\ Clocked(bit)[3] = Scl(0)
    /\ Sampled \in Seq(Edge) /\ Len(Sampled) = 4
    /\ Sampled[1] = Sda(1) /\ Sampled[2] = Scl(1) /\ Sampled[3] = Sample /\ Sampled[4] = Scl(0)
<1>1. \A l \in {0, 1} : Scl(l) \in Edge /\ Sda(l) \in Edge
  BY DEF Scl, Sda, Edge
<1>2. Sample \in Edge
  BY DEF Sample, Edge
<1>3. \A bit : Clocked(bit) = <<Sda(bit), Scl(1), Scl(0)>>
  BY DEF Clocked
<1>4. /\ StartEdges = <<Sda(1), Scl(1), Sda(0), Scl(0)>> /\ StopEdges = <<Sda(0), Scl(1), Sda(1)>>
      /\ Sampled = <<Sda(1), Scl(1), Sample, Scl(0)>>
  BY DEF StartEdges, StopEdges, Sampled
<1>5. ASSUME NEW a \in Edge, NEW b \in Edge, NEW c \in Edge, NEW d \in Edge
      PROVE  /\ <<a, b, c>> \in Seq(Edge) /\ Len(<<a, b, c>>) = 3
             /\ <<a, b, c, d>> \in Seq(Edge) /\ Len(<<a, b, c, d>>) = 4
             /\ <<a, b, c>>[1] = a /\ <<a, b, c>>[2] = b /\ <<a, b, c>>[3] = c
             /\ <<a, b, c, d>>[1] = a /\ <<a, b, c, d>>[2] = b /\ <<a, b, c, d>>[3] = c
             /\ <<a, b, c, d>>[4] = d
  OBVIOUS
<1>6. StartEdges \in Seq(Edge) /\ Len(StartEdges) = 4
      /\ StartEdges[1] = Sda(1) /\ StartEdges[2] = Scl(1) /\ StartEdges[3] = Sda(0) /\ StartEdges[4] = Scl(0)
  BY <1>1, <1>4, <1>5
<1>7. /\ StopEdges \in Seq(Edge) /\ Len(StopEdges) = 3
      /\ StopEdges[1] = Sda(0) /\ StopEdges[2] = Scl(1) /\ StopEdges[3] = Sda(1)
  BY <1>1, <1>4, <1>5
<1>8. ASSUME NEW bit \in {0, 1}
      PROVE  /\ Clocked(bit) \in Seq(Edge) /\ Len(Clocked(bit)) = 3
             /\ Clocked(bit)[1] = Sda(bit) /\ Clocked(bit)[2] = Scl(1) /\ Clocked(bit)[3] = Scl(0)
  BY <1>1, <1>3, <1>5
<1>9. /\ Sampled \in Seq(Edge) /\ Len(Sampled) = 4
      /\ Sampled[1] = Sda(1) /\ Sampled[2] = Scl(1) /\ Sampled[3] = Sample /\ Sampled[4] = Scl(0)
  BY <1>1, <1>2, <1>4, <1>5
<1> QED
  BY <1>6, <1>7, <1>8, <1>9

\* A byte's edges, three a bit, and the sample of its acknowledgement.
LEMMA BytePiece ==
    ASSUME NEW b \in Address
    PROVE  /\ Byte(b) \in Seq(Edge) /\ Len(Byte(b)) = 3 * Width + 4
           /\ \A j \in 0..Width - 1 : /\ Byte(b)[3 * j + 1] = Sda(Bit(b, j))
                                      /\ Byte(b)[3 * j + 2] = Scl(1) /\ Byte(b)[3 * j + 3] = Scl(0)
           /\ Byte(b)[3 * Width + 1] = Sda(1) /\ Byte(b)[3 * Width + 2] = Scl(1)
           /\ Byte(b)[3 * Width + 3] = Sample /\ Byte(b)[3 * Width + 4] = Scl(0)
<1> DEFINE bits == [k \in 1..3 * Width |-> Clocked(Bit(b, (k - 1) \div 3))[1 + ((k - 1) % 3)]]
<1>1. Width \in Nat /\ Width >= 2
  BY WidthIs
<1>2. /\ Sampled \in Seq(Edge) /\ Len(Sampled) = 4
      /\ Sampled[1] = Sda(1) /\ Sampled[2] = Scl(1) /\ Sampled[3] = Sample /\ Sampled[4] = Scl(0)
  BY ShortPieces
<1>3. ASSUME NEW j \in 0..Width - 1
      PROVE  bits[3 * j + 1] = Sda(Bit(b, j)) /\ bits[3 * j + 2] = Scl(1) /\ bits[3 * j + 3] = Scl(0)
  <2>1. /\ 3 * j + 1 \in 1..3 * Width /\ 3 * j + 2 \in 1..3 * Width /\ 3 * j + 3 \in 1..3 * Width
        /\ (3 * j + 1) - 1 = 3 * j /\ (3 * j + 2) - 1 = 3 * j + 1 /\ (3 * j + 3) - 1 = 3 * j + 2
    BY <1>1
  <2>2. /\ (3 * j) \div 3 = j /\ (3 * j + 1) \div 3 = j /\ (3 * j + 2) \div 3 = j
        /\ (3 * j) % 3 = 0 /\ (3 * j + 1) % 3 = 1 /\ (3 * j + 2) % 3 = 2
    BY <1>1
  <2>3. \A k \in 1..3 * Width : bits[k] = Clocked(Bit(b, (k - 1) \div 3))[1 + ((k - 1) % 3)]
    OBVIOUS
  <2> HIDE DEF bits
  <2>4. /\ bits[3 * j + 1] = Clocked(Bit(b, j))[1] /\ bits[3 * j + 2] = Clocked(Bit(b, j))[2]
        /\ bits[3 * j + 3] = Clocked(Bit(b, j))[3]
    BY <2>1, <2>2, <2>3
  <2>5. Bit(b, j) \in {0, 1}
    BY BitJoins
  <2> QED BY <2>4, <2>5, ShortPieces
<1>4. bits \in Seq(Edge) /\ Len(bits) = 3 * Width
  <2>1. ASSUME NEW k \in 1..3 * Width PROVE bits[k] \in Edge
    <3> DEFINE j == (k - 1) \div 3
               r == (k - 1) % 3
    <3>1. j \in 0..Width - 1 /\ r \in {0, 1, 2} /\ k = 3 * j + (1 + r)
      BY <1>1
    <3> HIDE DEF j, r, bits
    <3>2. bits[k] \in {Sda(Bit(b, j)), Scl(1), Scl(0)}
      <4>1. k = 3 * j + 1 \/ k = 3 * j + 2 \/ k = 3 * j + 3
        BY <1>1, <3>1
      <4> QED BY <1>3, <3>1, <4>1
    <3>3. Bit(b, j) \in {0, 1}
      BY <3>1, BitJoins
    <3> QED BY <3>2, <3>3 DEF Sda, Scl, Edge
  <2>2. bits = [k \in 1..3 * Width |-> bits[k]] /\ 3 * Width \in Nat
    BY <1>1
  <2> HIDE DEF bits
  <2>3. bits \in [1..3 * Width -> Edge]
    BY <2>1, <2>2
  <2> QED BY <2>2, <2>3, LenProperties
<1>5. Byte(b) = bits \o Sampled
  BY DEF Byte
<1> HIDE DEF bits
<1>6. /\ bits \o Sampled \in Seq(Edge) /\ Len(bits \o Sampled) = 3 * Width + 4
      /\ \A k \in 1..3 * Width + 4 :
           (bits \o Sampled)[k] = IF k <= 3 * Width THEN bits[k] ELSE Sampled[k - 3 * Width]
  <2>1. /\ bits \o Sampled \in Seq(Edge) /\ Len(bits \o Sampled) = Len(bits) + Len(Sampled)
        /\ \A k \in 1..Len(bits) + Len(Sampled) :
             (bits \o Sampled)[k] = IF k <= Len(bits) THEN bits[k] ELSE Sampled[k - Len(bits)]
    BY <1>2, <1>4, ConcatProperties
  <2> QED BY <1>2, <1>4, <2>1
<1>7. ASSUME NEW j \in 0..Width - 1
      PROVE  /\ Byte(b)[3 * j + 1] = Sda(Bit(b, j))
             /\ Byte(b)[3 * j + 2] = Scl(1) /\ Byte(b)[3 * j + 3] = Scl(0)
  <2>1. \A r \in {1, 2, 3} : 3 * j + r \in 1..3 * Width + 4 /\ 3 * j + r <= 3 * Width
    BY <1>1
  <2> QED BY <1>3, <1>5, <1>6, <2>1
<1>8. \A r \in {1, 2, 3, 4} : Byte(b)[3 * Width + r] = Sampled[r]
  <2>1. \A r \in {1, 2, 3, 4} : /\ 3 * Width + r \in 1..3 * Width + 4 /\ ~(3 * Width + r <= 3 * Width)
                                /\ (3 * Width + r) - 3 * Width = r
    BY <1>1
  <2> QED BY <1>5, <1>6, <2>1
<1> QED
  BY <1>2, <1>5, <1>6, <1>7, <1>8

\* The bits of a byte read, each sampled while SCL is high.
Reading == Times(Sampled, Width)

\* The edges of a byte read, four a bit.
LEMMA ReadingPiece ==
    /\ Reading \in Seq(Edge) /\ Len(Reading) = 4 * Width
    /\ \A j \in 0..Width - 1 : /\ Reading[4 * j + 1] = Sda(1) /\ Reading[4 * j + 2] = Scl(1)
                               /\ Reading[4 * j + 3] = Sample /\ Reading[4 * j + 4] = Scl(0)
<1>1. Width \in Nat /\ Width >= 2
  BY WidthIs
<1>2. /\ Sampled \in Seq(Edge) /\ Len(Sampled) = 4
      /\ Sampled[1] = Sda(1) /\ Sampled[2] = Scl(1) /\ Sampled[3] = Sample /\ Sampled[4] = Scl(0)
      /\ \A r \in {1, 2, 3, 4} : Sampled[r] \in Edge
  BY ShortPieces, ElementOfSeq
<1>3. Reading = [k \in 1..4 * Width |-> Sampled[1 + ((k - 1) % 4)]]
  <2>1. Width * 4 = 4 * Width
    BY <1>1
  <2> QED BY <1>2, <2>1 DEF Reading, Times
<1>4. ASSUME NEW k \in 1..4 * Width PROVE Reading[k] \in Edge
  <2>1. 1 + ((k - 1) % 4) \in {1, 2, 3, 4}
    BY <1>1
  <2> QED BY <1>2, <1>3, <2>1
<1>5. Reading \in Seq(Edge) /\ Len(Reading) = 4 * Width
  <2>1. Reading \in [1..4 * Width -> Edge] /\ 4 * Width \in Nat
    BY <1>1, <1>3, <1>4
  <2> QED BY <2>1, LenProperties
<1>6. ASSUME NEW j \in 0..Width - 1, NEW r \in {1, 2, 3, 4} PROVE Reading[4 * j + r] = Sampled[r]
  <2>1. 4 * j + r \in 1..4 * Width /\ ((4 * j + r) - 1) % 4 = r - 1
    BY <1>1
  <2> QED BY <1>3, <2>1
<1> QED
  BY <1>2, <1>5, <1>6

(***************************************************************************)
(* The EEPROM at one edge.                                                 *)
(***************************************************************************)
EepromFields == {"phase", "next", "scl", "sdaMaster", "sdaSlave", "shift", "bits", "addr",
                 "ackSlot", "mackSlot", "masterNack", "mem"}
Wired(e) == /\ DOMAIN e = EepromFields /\ e.scl \in {0, 1} /\ e.sdaMaster \in {0, 1}
            /\ e.ackSlot \in BOOLEAN /\ e.mackSlot \in BOOLEAN
            /\ e.addr \in Address /\ e.mem \in [Address -> Address]
Keeps(e, f) == Wired(f) /\ f.mem = e.mem /\ f.addr = e.addr
\* Between bytes, at the beginning of one.
Ready(e, ph) == /\ e.phase = ph /\ e.bits = 0 /\ e.shift = 0 /\ e.ackSlot = FALSE
                   /\ e.mackSlot = FALSE /\ e.sdaSlave = 1
Slots(e, f) == f.ackSlot = e.ackSlot /\ f.mackSlot = e.mackSlot /\ f.sdaSlave = e.sdaSlave
Alike(e, f) == /\ f.phase = e.phase /\ f.next = e.next /\ f.shift = e.shift /\ f.bits = e.bits
               /\ f.masterNack = e.masterNack /\ Slots(e, f)

\* The data line.
LEMMA SdaMoves ==
    ASSUME NEW e, Wired(e), NEW level \in {0, 1}
    PROVE  LET f == SetSda(e, level)
           IN  /\ Keeps(e, f) /\ f.sdaMaster = level /\ f.scl = e.scl
               /\ e.scl = 0 \/ level = e.sdaMaster => Alike(e, f)
               /\ e.scl = 1 /\ level # e.sdaMaster => Ready(f, IF level = 1 THEN "idle" ELSE "device")
<1> DEFINE f == SetSda(e, level)
<1>1. CASE level = e.sdaMaster
  <2>1. f = e
    BY <1>1 DEF SetSda
  <2> HIDE DEF f
  <2> QED BY <1>1, <2>1 DEF Keeps, Alike, Slots, f
<1>2. CASE level # e.sdaMaster /\ e.scl = 0
  <2>1. f = [e EXCEPT !.sdaMaster = level]
    BY <1>2 DEF SetSda
  <2> HIDE DEF f
  <2>2. /\ Keeps(e, f) /\ f.sdaMaster = level /\ f.scl = e.scl /\ Alike(e, f)
    BY <2>1 DEF Keeps, Alike, Slots, Wired, EepromFields
  <2> QED BY <1>2, <2>2 DEF f
<1>3. CASE level # e.sdaMaster /\ e.scl = 1
  <2> DEFINE ph == IF level = 1 THEN "idle" ELSE "device"
  <2>1. f = [e EXCEPT !.sdaMaster = level, !.ackSlot = FALSE, !.mackSlot = FALSE, !.sdaSlave = 1,
                      !.bits = 0, !.shift = 0, !.phase = ph]
    BY <1>3 DEF SetSda
  <2> HIDE DEF f, ph
  <2>2. Keeps(e, f) /\ f.sdaMaster = level /\ f.scl = e.scl
    BY <2>1 DEF Keeps, Wired, EepromFields
  <2>3. Ready(f, ph)
    BY <2>1 DEF Ready, Wired, EepromFields
  <2> QED BY <1>3, <2>2, <2>3 DEF f, ph
<1> QED
  BY <1>1, <1>2, <1>3 DEF Wired

\* The clock rises.
LEMMA Rises ==
    ASSUME NEW e, Wired(e), e.scl = 0
    PROVE  LET f == SetScl(e, 1)
           IN  /\ Keeps(e, f) /\ f.scl = 1 /\ f.sdaMaster = e.sdaMaster
               /\ f.phase = e.phase /\ f.next = e.next /\ Slots(e, f)
               /\ e.phase = "read" /\ e.mackSlot = TRUE =>
                     f.masterNack = e.sdaMaster /\ f.bits = e.bits
               /\ e.phase = "read" /\ e.mackSlot = FALSE => f.bits = e.bits + 1
               /\ e.phase \notin {"idle", "read"} /\ e.ackSlot = FALSE /\ e.bits < Width =>
                     f.shift = (2 * e.shift + e.sdaMaster) % Cells /\ f.bits = e.bits + 1
               /\ e.phase \notin {"idle", "read"} /\ e.ackSlot = TRUE => f.shift = e.shift /\ f.bits = e.bits
<1> DEFINE f == SetScl(e, 1)
           u == [e EXCEPT !.scl = 1]
<1>1. f = SclRises(u)
  BY DEF SetScl
<1>2. /\ Wired(u) /\ u.scl = 1 /\ u.mem = e.mem /\ u.addr = e.addr /\ u.sdaMaster = e.sdaMaster /\ Alike(e, u)
  BY DEF Wired, EepromFields, Alike, Slots
<1> HIDE DEF u, f
<1>3. CASE u.phase = "read" /\ u.mackSlot = TRUE
  <2>1. f = [u EXCEPT !.masterNack = u.sdaMaster]
    BY <1>1, <1>3 DEF SclRises
  <2> QED
    BY <1>2, <1>3, <2>1 DEF Wired, EepromFields, Alike, Slots, Keeps, f
<1>4. CASE u.phase = "read" /\ u.mackSlot = FALSE
  <2>1. f = [u EXCEPT !.bits = u.bits + 1]
    BY <1>1, <1>4 DEF SclRises
  <2> QED
    BY <1>2, <1>4, <2>1 DEF Wired, EepromFields, Alike, Slots, Keeps, f
<1>5. CASE u.phase \notin {"idle", "read"} /\ u.ackSlot = FALSE /\ u.bits < Width
  <2> DEFINE v == (2 * u.shift + u.sdaMaster) % Cells
             w == u.bits + 1
  <2>1. f = [u EXCEPT !.shift = v, !.bits = w]
    BY <1>1, <1>5 DEF SclRises
  <2>2. (2 * e.shift + e.sdaMaster) % Cells = v /\ e.bits + 1 = w
    BY <1>2 DEF Alike
  <2> HIDE DEF v, w
  <2> QED
    BY <1>2, <1>5, <2>1, <2>2 DEF Wired, EepromFields, Alike, Slots, Keeps, f
<1>6. CASE /\ ~(u.phase = "read")
           /\ ~(u.phase \notin {"idle", "read"} /\ u.ackSlot = FALSE /\ u.bits < Width)
  <2>1. f = u
    BY <1>1, <1>2, <1>6 DEF SclRises, Wired
  <2> QED
    BY <1>2, <1>6, <2>1 DEF Wired, EepromFields, Alike, Slots, Keeps, f
<1> QED
  BY <1>2, <1>3, <1>4, <1>5, <1>6 DEF Wired

\* The clock falls: what the EEPROM then sees of itself.
Low(e) == [e EXCEPT !.scl = 0]
\* The clock falls, before the EEPROM answers.
LEMMA Falls ==
    ASSUME NEW e, Wired(e), e.scl = 1
    PROVE  /\ SetScl(e, 0) = SclFalls(Low(e))
           /\ Keeps(e, Low(e)) /\ Low(e).scl = 0 /\ Low(e).sdaMaster = e.sdaMaster /\ Alike(e, Low(e))
<1>1. SetScl(e, 0) = SclFalls(Low(e))
  BY DEF SetScl, Low
<1>2. Keeps(e, Low(e)) /\ Low(e).scl = 0 /\ Low(e).sdaMaster = e.sdaMaster /\ Alike(e, Low(e))
  BY DEF Wired, EepromFields, Alike, Slots, Keeps, Low
<1> QED
  BY <1>1, <1>2

\* The end of an acknowledgement begins the next byte, or the first bit of one to read.
LEMMA SlotEnds ==
    ASSUME NEW e, Wired(e), e.scl = 1, e.ackSlot = TRUE, e.mackSlot = FALSE
    PROVE  LET f == SetScl(e, 0)
           IN  /\ Keeps(e, f) /\ f.scl = 0 /\ f.sdaMaster = e.sdaMaster
               /\ e.next # "read" => Ready(f, e.next)
               /\ e.next = "read" =>
                    /\ f.phase = "read" /\ f.bits = 0 /\ f.ackSlot = FALSE /\ f.mackSlot = FALSE
                    /\ f.sdaSlave = Bit(f.mem[f.addr], 0)
<1> DEFINE f == SetScl(e, 0)
           u == Low(e)
           t == [u EXCEPT !.ackSlot = FALSE, !.sdaSlave = 1, !.phase = u.next, !.bits = 0, !.shift = 0]
<1>1. /\ f = SclFalls(u) /\ Keeps(e, u) /\ u.scl = 0 /\ u.sdaMaster = e.sdaMaster /\ Alike(e, u)
  BY Falls
<1> HIDE DEF u, f
<1>2. u.ackSlot = TRUE /\ u.next = e.next /\ u.mackSlot = FALSE
  BY <1>1 DEF Alike, Slots
<1>3. f = IF t.phase = "read" THEN DriveBit(t) ELSE t
  BY <1>1, <1>2 DEF SclFalls
<1>4. Keeps(e, t) /\ Ready(t, e.next) /\ t.scl = 0 /\ t.sdaMaster = e.sdaMaster
  BY <1>1, <1>2 DEF Wired, EepromFields, Keeps, Ready
<1> HIDE DEF t
<1>5. CASE e.next # "read"
  BY <1>3, <1>4, <1>5 DEF Ready, f
<1>6. CASE e.next = "read"
  <2> DEFINE v == Bit(t.mem[t.addr], t.bits)
  <2>1. f = [t EXCEPT !.sdaSlave = v]
    BY <1>3, <1>4, <1>6 DEF Ready, DriveBit
  <2>2. v = Bit(t.mem[t.addr], 0)
    BY <1>4 DEF Ready
  <2> HIDE DEF v
  <2>3. /\ Keeps(t, f) /\ f.scl = 0 /\ f.sdaMaster = t.sdaMaster /\ f.phase = t.phase /\ f.bits = t.bits
        /\ f.ackSlot = t.ackSlot /\ f.mackSlot = t.mackSlot /\ f.sdaSlave = v
    BY <1>4, <2>1 DEF Wired, EepromFields, Keeps
  <2> HIDE DEF f
  <2> QED BY <1>4, <1>6, <2>2, <2>3 DEF Keeps, Ready, f
<1> QED
  BY <1>5, <1>6

\* Within a byte of the master's.
LEMMA BitEnds ==
    ASSUME NEW e, Wired(e), e.scl = 1, e.ackSlot = FALSE, e.phase \notin {"idle", "read"}, e.bits # Width
    PROVE  LET f == SetScl(e, 0)
           IN  Keeps(e, f) /\ f.scl = 0 /\ f.sdaMaster = e.sdaMaster /\ Alike(e, f)
<1> DEFINE f == SetScl(e, 0)
           u == Low(e)
<1>1. /\ f = SclFalls(u) /\ Keeps(e, u) /\ u.scl = 0 /\ u.sdaMaster = e.sdaMaster /\ Alike(e, u)
  BY Falls
<1> HIDE DEF u, f
<1>2. u.ackSlot = FALSE /\ u.phase \notin {"idle", "read"} /\ u.bits # Width
  BY <1>1 DEF Alike, Slots
<1>3. f = u
  BY <1>1, <1>2 DEF SclFalls
<1> QED
  BY <1>1, <1>3 DEF f

\* The last bit of a byte: what the EEPROM makes of it, in the phase it is in.
Takes(ph, b, next) ==
    \/ ph = "device" /\ b = OwnWrite /\ next = "word"
    \/ ph = "device" /\ b = OwnRead /\ next = "read"
    \/ ph \in {"word", "write"} /\ next = "write"
Stores(ph, e, b, f) ==
    /\ f.mem = IF ph = "write" THEN [e.mem EXCEPT ![e.addr] = b] ELSE e.mem
    /\ f.addr = IF ph = "word" THEN b ELSE IF ph = "write" THEN (e.addr + 1) % Cells ELSE e.addr
Acking(f, ph, next) == /\ f.phase = ph /\ f.ackSlot = TRUE /\ f.mackSlot = FALSE /\ f.sdaSlave = 0
                          /\ f.next = next

\* The last bit of a byte is taken and acknowledged.
LEMMA ByteEnds ==
    ASSUME NEW e, Wired(e), e.scl = 1, e.ackSlot = FALSE, e.mackSlot = FALSE, e.bits = Width,
           NEW b \in Address, e.shift = b, NEW next, Takes(e.phase, b, next)
    PROVE  LET f == SetScl(e, 0)
           IN  /\ Wired(f) /\ f.scl = 0 /\ f.sdaMaster = e.sdaMaster
               /\ Stores(e.phase, e, b, f) /\ Acking(f, e.phase, next)
<1> DEFINE f == SetScl(e, 0)
           u == Low(e)
<1>1. /\ f = SclFalls(u) /\ Keeps(e, u) /\ u.scl = 0 /\ u.sdaMaster = e.sdaMaster /\ Alike(e, u)
  BY Falls
<1> HIDE DEF u, f
<1>2. /\ u.ackSlot = FALSE /\ u.mackSlot = FALSE /\ u.phase = e.phase /\ u.bits = Width /\ u.shift = b
      /\ u.phase \in {"device", "word", "write"}
  BY <1>1 DEF Alike, Slots, Takes
<1>3. f = ByteReceived(u)
  BY <1>1, <1>2 DEF SclFalls
<1>4. \A x \in Address : (x + 1) % Cells \in Address
  BY WidthIs DEF Address
<1>5. CASE u.phase = "device"
  <2>1. f = Acknowledged(u, next)
    BY <1>2, <1>3, <1>5, OwnBytes DEF ByteReceived, Takes
  <2>2. f = [u EXCEPT !.next = next, !.sdaSlave = 0, !.ackSlot = TRUE]
    BY <2>1 DEF Acknowledged
  <2>3. /\ Wired(f) /\ f.scl = 0 /\ f.sdaMaster = e.sdaMaster /\ f.mem = e.mem /\ f.addr = e.addr
        /\ Acking(f, e.phase, next)
    BY <1>1, <1>2, <2>2 DEF Wired, EepromFields, Keeps, Acking
  <2> QED BY <1>2, <1>5, <2>3 DEF Stores, f
<1>6. CASE u.phase = "word"
  <2> DEFINE v == [u EXCEPT !.addr = b]
  <2>1. f = Acknowledged(v, "write")
    BY <1>2, <1>3, <1>6 DEF ByteReceived
  <2>2. /\ Wired(v) /\ v.scl = 0 /\ v.sdaMaster = e.sdaMaster /\ v.mem = e.mem /\ v.addr = b
        /\ v.phase = e.phase /\ v.mackSlot = FALSE
    BY <1>1, <1>2 DEF Wired, EepromFields, Keeps
  <2> HIDE DEF v
  <2>3. f = [v EXCEPT !.next = "write", !.sdaSlave = 0, !.ackSlot = TRUE]
    BY <2>1 DEF Acknowledged
  <2>4. /\ Wired(f) /\ f.scl = 0 /\ f.sdaMaster = e.sdaMaster /\ f.mem = e.mem /\ f.addr = b
        /\ Acking(f, e.phase, "write")
    BY <2>2, <2>3 DEF Wired, EepromFields, Acking
  <2> QED BY <1>2, <1>6, <2>4 DEF Stores, Takes, f
<1>7. CASE u.phase = "write"
  <2> DEFINE m == [e.mem EXCEPT ![e.addr] = b]
             a == (e.addr + 1) % Cells
             v == [u EXCEPT !.mem = m, !.addr = a]
  <2>0. u.mem = e.mem /\ u.addr = e.addr /\ e.addr \in Address
    BY <1>1 DEF Keeps, Wired
  <2>1. f = Acknowledged(v, "write")
    <3>1. f = Acknowledged([u EXCEPT !.mem[u.addr] = u.shift, !.addr = (@ + 1) % Cells], "write")
      BY <1>2, <1>3, <1>7 DEF ByteReceived
    <3>2. [u EXCEPT !.mem[u.addr] = u.shift, !.addr = (@ + 1) % Cells] = v
      BY <1>1, <1>2, <2>0 DEF Wired, EepromFields, Keeps
    <3> QED BY <3>1, <3>2
  <2>2. m \in [Address -> Address] /\ a \in Address
    <3>1. e.mem \in [Address -> Address]
      BY DEF Wired
    <3> QED BY <1>4, <2>0, <3>1
  <2>5. f.mem = m => f.mem = [e.mem EXCEPT ![e.addr] = b]
    OBVIOUS
  <2>6. f.addr = a => f.addr = (e.addr + 1) % Cells
    OBVIOUS
  <2> HIDE DEF m, a
  <2>7. /\ Wired(v) /\ v.scl = 0 /\ v.sdaMaster = e.sdaMaster /\ v.mem = m /\ v.addr = a
        /\ v.phase = e.phase /\ v.mackSlot = FALSE
    BY <1>1, <1>2, <2>2 DEF Wired, EepromFields, Keeps
  <2> HIDE DEF v
  <2>3. f = [v EXCEPT !.next = "write", !.sdaSlave = 0, !.ackSlot = TRUE]
    BY <2>1 DEF Acknowledged
  <2>4. /\ Wired(f) /\ f.scl = 0 /\ f.sdaMaster = e.sdaMaster /\ f.mem = m /\ f.addr = a
        /\ Acking(f, e.phase, "write")
    BY <2>3, <2>7 DEF Wired, EepromFields, Acking
  <2> QED BY <1>2, <1>7, <2>4, <2>5, <2>6 DEF Stores, Takes, f
<1> QED
  BY <1>2, <1>5, <1>6, <1>7

\* While a byte is read: the next bit, or the master's turn to acknowledge.
Showing(f, bits) == /\ f.phase = "read" /\ f.ackSlot = FALSE /\ f.mackSlot = FALSE /\ f.bits = bits
                    /\ f.sdaSlave = Bit(f.mem[f.addr], bits)

\* The fall after a bit was read.
LEMMA ReadBitEnds ==
    ASSUME NEW e, Wired(e), e.scl = 1, e.ackSlot = FALSE, e.mackSlot = FALSE, e.phase = "read"
    PROVE  LET f == SetScl(e, 0)
           IN  /\ Keeps(e, f) /\ f.scl = 0 /\ f.sdaMaster = e.sdaMaster
               /\ e.bits # Width => Showing(f, e.bits)
               /\ e.bits = Width => f.phase = "read" /\ f.ackSlot = FALSE /\ f.mackSlot = TRUE
<1> DEFINE f == SetScl(e, 0)
           u == Low(e)
<1>1. /\ f = SclFalls(u) /\ Keeps(e, u) /\ u.scl = 0 /\ u.sdaMaster = e.sdaMaster /\ Alike(e, u)
  BY Falls
<1> HIDE DEF u, f
<1>2. u.ackSlot = FALSE /\ u.mackSlot = FALSE /\ u.phase = "read" /\ u.bits = e.bits
  BY <1>1 DEF Alike, Slots
<1>3. f = IF u.bits = Width THEN [u EXCEPT !.sdaSlave = 1, !.mackSlot = TRUE] ELSE DriveBit(u)
  BY <1>1, <1>2 DEF SclFalls
<1>4. CASE e.bits = Width
  BY <1>1, <1>2, <1>3, <1>4 DEF Wired, EepromFields, Keeps, f
<1>5. CASE e.bits # Width
  <2> DEFINE v == Bit(u.mem[u.addr], u.bits)
  <2>1. f = [u EXCEPT !.sdaSlave = v]
    BY <1>2, <1>3, <1>5 DEF DriveBit
  <2>2. v = Bit(e.mem[e.addr], e.bits)
    BY <1>1, <1>2 DEF Keeps
  <2> HIDE DEF v
  <2>3. /\ Keeps(e, f) /\ f.scl = 0 /\ f.sdaMaster = e.sdaMaster /\ f.phase = "read" /\ f.bits = e.bits
        /\ f.ackSlot = FALSE /\ f.mackSlot = FALSE /\ f.sdaSlave = v
    BY <1>1, <1>2, <2>1 DEF Wired, EepromFields, Keeps
  <2> HIDE DEF f
  <2> QED BY <1>5, <2>2, <2>3 DEF Keeps, Showing, f
<1> QED
  BY <1>4, <1>5

\* The fall after the master acknowledged, or refused to.
LEMMA MasterAcks ==
    ASSUME NEW e, Wired(e), e.scl = 1, e.ackSlot = FALSE, e.mackSlot = TRUE, e.phase = "read",
           e.masterNack \in {0, 1}
    PROVE  LET f == SetScl(e, 0)
           IN  /\ Wired(f) /\ f.scl = 0 /\ f.mem = e.mem
               /\ e.masterNack = 0 => Showing(f, 0) /\ f.addr = (e.addr + 1) % Cells
<1> DEFINE f == SetScl(e, 0)
           u == Low(e)
<1>1. /\ f = SclFalls(u) /\ Keeps(e, u) /\ u.scl = 0 /\ u.sdaMaster = e.sdaMaster /\ Alike(e, u)
  BY Falls
<1> HIDE DEF u, f
<1>2. u.ackSlot = FALSE /\ u.mackSlot = TRUE /\ u.phase = "read" /\ u.masterNack = e.masterNack
      /\ u.addr = e.addr
  BY <1>1 DEF Alike, Slots, Keeps
<1>3. CASE e.masterNack = 1
  <2>1. f = [u EXCEPT !.mackSlot = FALSE, !.phase = "idle", !.sdaSlave = 1]
    BY <1>1, <1>2, <1>3 DEF SclFalls
  <2> HIDE DEF f
  <2>2. Wired(f) /\ f.scl = 0 /\ f.mem = e.mem
    BY <1>1, <2>1 DEF Wired, EepromFields, Keeps
  <2>3. e.masterNack # 0
    BY <1>3
  <2> QED BY <2>2, <2>3 DEF f
<1>4. CASE e.masterNack = 0
  <2> DEFINE a == (e.addr + 1) % Cells
             t == [u EXCEPT !.mackSlot = FALSE, !.addr = a, !.bits = 0]
             v == Bit(t.mem[t.addr], t.bits)
  <2>1. f = DriveBit(t)
    <3>1. f = DriveBit([u EXCEPT !.mackSlot = FALSE, !.addr = (@ + 1) % Cells, !.bits = 0])
      BY <1>1, <1>2, <1>4 DEF SclFalls
    <3>2. [u EXCEPT !.mackSlot = FALSE, !.addr = (@ + 1) % Cells, !.bits = 0] = t
      BY <1>1, <1>2 DEF Wired, EepromFields, Keeps
    <3> QED BY <3>1, <3>2
  <2>2. a \in Address
    <3>1. \A x \in Address : (x + 1) % Cells \in Address
      BY WidthIs DEF Address
    <3> QED BY <3>1 DEF Wired
  <2>6. f.addr = a => f.addr = (e.addr + 1) % Cells
    OBVIOUS
  <2> HIDE DEF a
  <2>3. /\ Wired(t) /\ t.scl = 0 /\ t.mem = e.mem /\ t.addr = a /\ t.bits = 0 /\ t.phase = "read"
        /\ t.ackSlot = FALSE /\ t.mackSlot = FALSE
    BY <1>1, <1>2, <2>2 DEF Wired, EepromFields, Keeps
  <2> HIDE DEF t
  <2>4. f = [t EXCEPT !.sdaSlave = v]
    BY <2>1 DEF DriveBit
  <2>5. v = Bit(t.mem[t.addr], 0)
    BY <2>3
  <2> HIDE DEF v
  <2>7. /\ Wired(f) /\ f.scl = 0 /\ f.mem = t.mem /\ f.addr = t.addr /\ f.bits = 0 /\ f.phase = "read"
        /\ f.ackSlot = FALSE /\ f.mackSlot = FALSE /\ f.sdaSlave = v
    BY <2>3, <2>4 DEF Wired, EepromFields
  <2> HIDE DEF f
  <2> QED BY <1>4, <2>3, <2>5, <2>6, <2>7 DEF Showing, f
<1> QED
  BY <1>3, <1>4

(***************************************************************************)
(* One edge of the master's, at the EEPROM and in what the master hears.   *)
(***************************************************************************)
Driven(e, x) == CASE x.pin = "scl" -> SetScl(e, x.level)
                  [] x.pin = "sda" -> SetSda(e, x.level)
                  [] OTHER -> e
Taken(e, x, g) == IF x.pin = "none" THEN Append(g, SdaLine(e)) ELSE g
Does(e, rest, g, f, left, h) ==
    /\ rest # <<>> /\ left = Tail(rest)
    /\ f = Driven(e, Head(rest)) /\ h = Taken(e, Head(rest), g)
Listened(g, want, n) == g \in Seq({0, 1}) /\ Len(g) = n /\ \A k \in 1..n : g[k] = want[k]

\* What each edge does, and whether it is heard.
LEMMA EdgesDrive ==
    ASSUME NEW e, NEW g
    PROVE  /\ \A l \in {0, 1} : /\ Driven(e, Scl(l)) = SetScl(e, l) /\ Taken(e, Scl(l), g) = g
                                /\ Driven(e, Sda(l)) = SetSda(e, l) /\ Taken(e, Sda(l), g) = g
           /\ Driven(e, Sample) = e /\ Taken(e, Sample, g) = Append(g, SdaLine(e))
BY DEF Driven, Taken, Scl, Sda, Sample

\* A sample that is as it should be.
LEMMA ListenedNext ==
    ASSUME NEW want, NEW n \in Nat, NEW g, Listened(g, want, n), NEW e, SdaLine(e) = want[n + 1]
    PROVE  Listened(Append(g, SdaLine(e)), want, n + 1)
<1>1. SdaLine(e) \in {0, 1}
  BY DEF SdaLine
<1>2. g \in Seq({0, 1}) /\ Len(g) = n /\ \A k \in 1..n : g[k] = want[k]
  BY DEF Listened
<1> DEFINE v == SdaLine(e)
<1>3. v \in {0, 1} /\ v = want[n + 1]
  BY <1>1
<1> HIDE DEF v
<1>4. /\ Append(g, v) \in Seq({0, 1}) /\ Len(Append(g, v)) = n + 1
      /\ \A k \in 1..n : Append(g, v)[k] = g[k]
      /\ Append(g, v)[n + 1] = v
  BY <1>2, <1>3, AppendProperties
<1>5. \A k \in 1..n + 1 : k \in 1..n \/ k = n + 1
  OBVIOUS
<1>6. Listened(Append(g, v), want, n + 1)
  BY <1>2, <1>3, <1>4, <1>5 DEF Listened
<1> QED
  BY <1>6 DEF v

\* One edge of a piece, and whether it was the last.
LEMMA PieceMoves ==
    ASSUME NEW piece \in Seq(Edge), NEW after \in Seq(Edge), NEW i \in 0..Len(piece) - 1,
           NEW e, NEW rest, NEW g, NEW f, NEW left, NEW h,
           Ahead(rest, piece, i, after), Does(e, rest, g, f, left, h)
    PROVE  /\ f = Driven(e, piece[i + 1]) /\ h = Taken(e, piece[i + 1], g)
           /\ Ahead(left, piece, i + 1, after)
           /\ i + 1 = Len(piece) => left = after
<1>1. Head(rest) = piece[i + 1] /\ Ahead(Tail(rest), piece, i + 1, after)
  BY AheadMoves
<1>2. \A r : Ahead(r, piece, Len(piece), after) => r = after
  BY AheadBegins
<1> QED
  BY <1>1, <1>2 DEF Does

(***************************************************************************)
(* A START, from wherever the transaction before was left.                 *)
(***************************************************************************)
Sits(e, m, a) == Wired(e) /\ e.mem = m /\ e.addr = a
Between(e, ph, m, a) == Sits(e, m, a) /\ e.scl = 0 /\ Ready(e, ph)
StartAt(e, i, m, a) == /\ Sits(e, m, a)
                       /\ i >= 1 => e.sdaMaster = IF i = 3 THEN 0 ELSE 1
                       /\ i >= 2 => e.scl = 1
                       /\ i = 3 => Ready(e, "device")
InStart(e, rest, g, want, n, m, a, after) ==
    \E i \in 0..3 : Ahead(rest, StartEdges, i, after) /\ StartAt(e, i, m, a) /\ Listened(g, want, n)

\* A START may begin anywhere.
LEMMA StartBegins ==
    ASSUME NEW e, NEW g, NEW want, NEW n, NEW m, NEW a, NEW after \in Seq(Edge),
           Sits(e, m, a), Listened(g, want, n)
    PROVE  InStart(e, StartEdges \o after, g, want, n, m, a, after)
<1>1. Ahead(StartEdges \o after, StartEdges, 0, after)
  BY ShortPieces, AheadBegins
<1>2. StartAt(e, 0, m, a)
  BY DEF StartAt
<1> QED
  BY <1>1, <1>2 DEF InStart

\* A rise of the clock changes no byte and no address.
LEMMA ClockUp ==
    ASSUME NEW e, NEW m, NEW a, Sits(e, m, a)
    PROVE  LET f == SetScl(e, 1) IN Sits(f, m, a) /\ f.scl = 1 /\ f.sdaMaster = e.sdaMaster
<1>1. CASE e.scl = 1
  BY <1>1 DEF SetScl, Sits
<1>2. CASE e.scl = 0
  <2> DEFINE f == SetScl(e, 1)
  <2>1. Keeps(e, f) /\ f.scl = 1 /\ f.sdaMaster = e.sdaMaster
    BY <1>2, Rises DEF Sits
  <2> HIDE DEF f
  <2> QED BY <2>1 DEF Keeps, Sits, f
<1> QED
  BY <1>1, <1>2 DEF Sits, Wired

\* Nor does the data line.
LEMMA DataSet ==
    ASSUME NEW e, NEW m, NEW a, Sits(e, m, a), NEW level \in {0, 1}
    PROVE  LET f == SetSda(e, level) IN Sits(f, m, a) /\ f.sdaMaster = level /\ f.scl = e.scl
<1> DEFINE f == SetSda(e, level)
<1>1. Keeps(e, f) /\ f.sdaMaster = level /\ f.scl = e.scl
  BY SdaMoves DEF Sits
<1> HIDE DEF f
<1> QED
  BY <1>1 DEF Keeps, Sits, f

\* Each edge of a START, and the first byte after it.
LEMMA StartMoves ==
    ASSUME NEW e, NEW rest, NEW g, NEW want, NEW n, NEW m, NEW a, NEW after \in Seq(Edge),
           NEW f, NEW left, NEW h,
           InStart(e, rest, g, want, n, m, a, after), Does(e, rest, g, f, left, h)
    PROVE  \/ InStart(f, left, h, want, n, m, a, after)
           \/ left = after /\ Between(f, "device", m, a) /\ Listened(h, want, n)
<1>1. PICK i \in 0..3 : Ahead(rest, StartEdges, i, after) /\ StartAt(e, i, m, a) /\ Listened(g, want, n)
  BY DEF InStart
<1>2. /\ f = Driven(e, StartEdges[i + 1]) /\ h = Taken(e, StartEdges[i + 1], g)
      /\ Ahead(left, StartEdges, i + 1, after) /\ (i + 1 = 4 => left = after)
  <2>1. StartEdges \in Seq(Edge) /\ Len(StartEdges) = 4 /\ i \in 0..Len(StartEdges) - 1
    BY <1>1, ShortPieces
  <2>2. Ahead(rest, StartEdges, i, after)
    BY <1>1
  <2>3. /\ f = Driven(e, StartEdges[i + 1]) /\ h = Taken(e, StartEdges[i + 1], g)
        /\ Ahead(left, StartEdges, i + 1, after)
        /\ i + 1 = Len(StartEdges) => left = after
    BY <2>1, <2>2, PieceMoves
  <2> QED BY <2>1, <2>3
<1>3. Sits(e, m, a) /\ Wired(e)
  BY <1>1 DEF StartAt, Sits
<1>4. ASSUME i \in 0..2, StartAt(f, i + 1, m, a), h = g
      PROVE  InStart(f, left, h, want, n, m, a, after)
  <2>1. i + 1 \in 0..3
    BY <1>4
  <2> QED BY <1>1, <1>2, <1>4, <2>1 DEF InStart
<1>5. CASE i = 0
  <2>1. f = SetSda(e, 1) /\ h = g
    BY <1>2, <1>5, ShortPieces, EdgesDrive
  <2>2. Sits(f, m, a) /\ f.sdaMaster = 1
    BY <1>3, <2>1, DataSet
  <2> QED BY <1>4, <1>5, <2>1, <2>2 DEF StartAt
<1>6. CASE i = 1
  <2>1. f = SetScl(e, 1) /\ h = g
    BY <1>2, <1>6, ShortPieces, EdgesDrive
  <2>2. Sits(f, m, a) /\ f.sdaMaster = 1 /\ f.scl = 1
    BY <1>1, <1>3, <1>6, <2>1, ClockUp DEF StartAt
  <2> QED BY <1>4, <1>6, <2>1, <2>2 DEF StartAt
<1>7. CASE i = 2
  <2>1. f = SetSda(e, 0) /\ h = g
    BY <1>2, <1>7, ShortPieces, EdgesDrive
  <2>2. Sits(f, m, a) /\ f.sdaMaster = 0 /\ f.scl = e.scl
    BY <1>3, <2>1, DataSet
  <2>3. e.scl = 1 /\ e.sdaMaster = 1
    BY <1>1, <1>7 DEF StartAt
  <2>4. Ready(f, "device")
    BY <1>3, <2>1, <2>3, SdaMoves
  <2> QED BY <1>4, <1>7, <2>1, <2>2, <2>3, <2>4 DEF StartAt
<1>8. CASE i = 3
  <2>1. f = SetScl(e, 0) /\ h = g
    BY <1>2, <1>8, ShortPieces, EdgesDrive
  <2>2. e.scl = 1 /\ Ready(e, "device")
    BY <1>1, <1>8 DEF StartAt
  <2>3. e.ackSlot = FALSE /\ e.phase \notin {"idle", "read"} /\ e.bits # Width
    BY <2>2, WidthIs DEF Ready
  <2>4. Keeps(e, f) /\ f.scl = 0 /\ Alike(e, f)
    BY <1>3, <2>1, <2>2, <2>3, BitEnds
  <2>5. Between(f, "device", m, a)
    BY <1>3, <2>2, <2>4 DEF Between, Ready, Keeps, Alike, Slots, Sits
  <2> QED BY <1>1, <1>2, <1>8, <2>1, <2>5
<1> QED
  BY <1>5, <1>6, <1>7, <1>8

(***************************************************************************)
(* A byte from the master: its bits, then the EEPROM's acknowledgement.    *)
(***************************************************************************)
Shifting(e, ph, b, j, m, a) == /\ Sits(e, m, a) /\ e.phase = ph /\ e.bits = j /\ e.shift = Leading(b, j)
                               /\ e.ackSlot = FALSE /\ e.mackSlot = FALSE
BitsAt(e, ph, b, j, r, m, a) == /\ Shifting(e, ph, b, IF r = 2 THEN j + 1 ELSE j, m, a)
                                /\ e.scl = IF r = 2 THEN 1 ELSE 0
                                /\ r >= 1 => e.sdaMaster = Bit(b, j)
InBits(e, rest, g, want, n, ph, b, m, a, after) ==
    \E j \in 0..Width - 1, r \in {0, 1, 2} :
        Ahead(rest, Byte(b), 3 * j + r, after) /\ BitsAt(e, ph, b, j, r, m, a) /\ Listened(g, want, n)
AckAt(e, ph, next, r, m, a) == /\ Sits(e, m, a) /\ Acking(e, ph, next)
                               /\ e.scl = IF r >= 2 THEN 1 ELSE 0
                               /\ r >= 1 => e.sdaMaster = 1
InAck(e, rest, g, want, n, ph, b, next, m, a, after) ==
    \E r \in 0..3 : /\ Ahead(rest, Byte(b), 3 * Width + r, after) /\ AckAt(e, ph, next, r, m, a)
                    /\ Listened(g, want, IF r = 3 THEN n + 1 ELSE n)
MemAfter(ph, b, m, a)  == IF ph = "write" THEN [m EXCEPT ![a] = b] ELSE m
AddrAfter(ph, b, a) == IF ph = "word" THEN b ELSE IF ph = "write" THEN (a + 1) % Cells ELSE a

\* A byte begins between bytes.
LEMMA ByteBegins ==
    ASSUME NEW e, NEW g, NEW want, NEW n, NEW ph, NEW b \in Address, NEW m, NEW a,
           NEW after \in Seq(Edge), Between(e, ph, m, a), Listened(g, want, n)
    PROVE  InBits(e, Byte(b) \o after, g, want, n, ph, b, m, a, after)
<1>1. 0 \in 0..Width - 1 /\ 3 * 0 + 0 = 0
  BY WidthIs
<1>2. Ahead(Byte(b) \o after, Byte(b), 0, after)
  BY BytePiece, AheadBegins
<1>3. BitsAt(e, ph, b, 0, 0, m, a)
  BY LeadingEnds DEF BitsAt, Shifting, Between, Ready
<1> QED
  BY <1>1, <1>2, <1>3 DEF InBits

\* One edge of a byte.
LEMMA ByteRest ==
    ASSUME NEW b \in Address, NEW i \in 0..3 * Width + 3, NEW after \in Seq(Edge),
           NEW e, NEW rest, NEW g, NEW f, NEW left, NEW h,
           Ahead(rest, Byte(b), i, after), Does(e, rest, g, f, left, h)
    PROVE  /\ f = Driven(e, Byte(b)[i + 1]) /\ h = Taken(e, Byte(b)[i + 1], g)
           /\ Ahead(left, Byte(b), i + 1, after)
           /\ i + 1 = 3 * Width + 4 => left = after
<1>1. Byte(b) \in Seq(Edge) /\ Len(Byte(b)) = 3 * Width + 4 /\ i \in 0..Len(Byte(b)) - 1
  BY BytePiece, WidthIs
<1>2. /\ f = Driven(e, Byte(b)[i + 1]) /\ h = Taken(e, Byte(b)[i + 1], g)
      /\ Ahead(left, Byte(b), i + 1, after)
      /\ i + 1 = Len(Byte(b)) => left = after
  BY <1>1, PieceMoves
<1> QED
  BY <1>1, <1>2

\* Each edge of its bits; the last begins the acknowledgement.
LEMMA BitsMove ==
    ASSUME NEW e, NEW rest, NEW g, NEW want, NEW n, NEW ph, NEW b \in Address, NEW next, NEW m, NEW a,
           NEW after \in Seq(Edge), NEW f, NEW left, NEW h, Takes(ph, b, next),
           InBits(e, rest, g, want, n, ph, b, m, a, after), Does(e, rest, g, f, left, h)
    PROVE  \/ InBits(f, left, h, want, n, ph, b, m, a, after)
           \/ InAck(f, left, h, want, n, ph, b, next, MemAfter(ph, b, m, a), AddrAfter(ph, b, a), after)
<1>1. PICK j \in 0..Width - 1, r \in {0, 1, 2} :
        Ahead(rest, Byte(b), 3 * j + r, after) /\ BitsAt(e, ph, b, j, r, m, a) /\ Listened(g, want, n)
  BY DEF InBits
<1>2. Width \in Nat /\ j \in Nat /\ j + 1 \in Nat /\ 3 * j + r \in 0..3 * Width + 3
  BY WidthIs
<1>3. /\ f = Driven(e, Byte(b)[3 * j + r + 1]) /\ h = Taken(e, Byte(b)[3 * j + r + 1], g)
      /\ Ahead(left, Byte(b), 3 * j + r + 1, after)
  BY <1>1, <1>2, ByteRest
<1>4. /\ Byte(b)[3 * j + 1] = Sda(Bit(b, j)) /\ Byte(b)[3 * j + 2] = Scl(1) /\ Byte(b)[3 * j + 3] = Scl(0)
      /\ Bit(b, j) \in {0, 1} /\ ph \in {"device", "word", "write"}
  BY BytePiece, BitJoins DEF Takes
<1>5. Wired(e) /\ Sits(e, m, a) /\ e.phase = ph /\ e.ackSlot = FALSE /\ e.mackSlot = FALSE
  BY <1>1 DEF BitsAt, Shifting, Sits
<1>6. CASE r = 0
  <2>1. f = SetSda(e, Bit(b, j)) /\ h = g
    BY <1>2, <1>3, <1>4, <1>6, EdgesDrive
  <2>2. e.scl = 0 /\ e.bits = j /\ e.shift = Leading(b, j)
    BY <1>1, <1>6 DEF BitsAt, Shifting
  <2>3. Keeps(e, f) /\ f.sdaMaster = Bit(b, j) /\ f.scl = e.scl /\ Alike(e, f)
    BY <1>4, <1>5, <2>1, <2>2, SdaMoves
  <2>4. BitsAt(f, ph, b, j, 1, m, a)
    BY <1>5, <2>2, <2>3 DEF BitsAt, Shifting, Keeps, Alike, Slots, Sits
  <2>5. Ahead(left, Byte(b), 3 * j + 1, after)
    BY <1>2, <1>3, <1>6
  <2> QED BY <1>1, <2>1, <2>4, <2>5 DEF InBits
<1>7. CASE r = 1
  <2>1. f = SetScl(e, 1) /\ h = g
    <3>1. 3 * j + r + 1 = 3 * j + 2
      BY <1>2, <1>7
    <3> QED BY <1>3, <1>4, <3>1, EdgesDrive
  <2>2. e.scl = 0 /\ e.bits = j /\ e.shift = Leading(b, j) /\ e.sdaMaster = Bit(b, j) /\ e.bits < Width
    BY <1>1, <1>2, <1>7 DEF BitsAt, Shifting
  <2>3. /\ Keeps(e, f) /\ f.scl = 1 /\ f.sdaMaster = e.sdaMaster /\ f.phase = e.phase /\ Slots(e, f)
        /\ f.shift = (2 * e.shift + e.sdaMaster) % Cells /\ f.bits = e.bits + 1
    BY <1>4, <1>5, <2>1, <2>2, Rises
  <2>4. Leading(b, j + 1) = (2 * Leading(b, j) + Bit(b, j)) % Cells
    BY BitJoins
  <2>5. BitsAt(f, ph, b, j, 2, m, a)
    BY <1>5, <2>2, <2>3, <2>4 DEF BitsAt, Shifting, Keeps, Slots, Sits
  <2>6. Ahead(left, Byte(b), 3 * j + 2, after)
    BY <1>2, <1>3, <1>7
  <2> QED BY <1>1, <2>1, <2>5, <2>6 DEF InBits
<1>8. CASE r = 2
  <2>1. f = SetScl(e, 0) /\ h = g /\ 3 * j + r + 1 = 3 * (j + 1)
    <3>1. 3 * j + r + 1 = 3 * j + 3 /\ 3 * j + 3 = 3 * (j + 1)
      BY <1>2, <1>8
    <3> QED BY <1>3, <1>4, <3>1, EdgesDrive
  <2>2. e.scl = 1 /\ e.bits = j + 1 /\ e.shift = Leading(b, j + 1)
    BY <1>1, <1>8 DEF BitsAt, Shifting
  <2>3. CASE j + 1 # Width
    <3>1. Keeps(e, f) /\ f.scl = 0 /\ Alike(e, f)
      BY <1>4, <1>5, <2>1, <2>2, <2>3, BitEnds
    <3>2. BitsAt(f, ph, b, j + 1, 0, m, a)
      BY <1>5, <2>2, <3>1 DEF BitsAt, Shifting, Keeps, Alike, Slots, Sits
    <3>3. Ahead(left, Byte(b), 3 * (j + 1) + 0, after) /\ j + 1 \in 0..Width - 1
      BY <1>2, <1>3, <2>1, <2>3
    <3> QED BY <1>1, <2>1, <3>2, <3>3 DEF InBits
  <2>4. CASE j + 1 = Width
    <3>1. e.bits = Width /\ e.shift = b /\ Takes(e.phase, b, next)
      BY <1>5, <2>2, <2>4, LeadingEnds
    <3>2. /\ Wired(f) /\ f.scl = 0 /\ Stores(e.phase, e, b, f) /\ Acking(f, e.phase, next)
      BY <1>5, <2>1, <2>2, <3>1, ByteEnds
    <3>3. f.mem = MemAfter(ph, b, m, a) /\ f.addr = AddrAfter(ph, b, a)
      BY <1>5, <3>2 DEF Stores, MemAfter, AddrAfter, Sits
    <3>4. AckAt(f, ph, next, 0, MemAfter(ph, b, m, a), AddrAfter(ph, b, a))
      BY <1>5, <3>2, <3>3 DEF AckAt, Sits
    <3>5. Ahead(left, Byte(b), 3 * Width + 0, after)
      BY <1>2, <1>3, <2>1, <2>4
    <3> QED BY <1>1, <2>1, <3>4, <3>5 DEF InAck
  <2> QED BY <2>3, <2>4
<1> QED
  BY <1>6, <1>7, <1>8

\* What an acknowledged byte is followed by.
Followed(f, next, m, a) == /\ Sits(f, m, a) /\ f.scl = 0
                           /\ next # "read" => Ready(f, next)
                           /\ next = "read" => Showing(f, 0)

\* Each edge of the acknowledgement; the last ends the byte.
LEMMA AckMoves ==
    ASSUME NEW e, NEW rest, NEW g, NEW want, NEW n \in Nat, NEW ph, NEW b \in Address, NEW next, NEW m, NEW a,
           NEW after \in Seq(Edge), NEW f, NEW left, NEW h, Takes(ph, b, next), want[n + 1] = 0,
           InAck(e, rest, g, want, n, ph, b, next, m, a, after), Does(e, rest, g, f, left, h)
    PROVE  \/ InAck(f, left, h, want, n, ph, b, next, m, a, after)
           \/ left = after /\ Followed(f, next, m, a) /\ Listened(h, want, n + 1)
<1>1. PICK r \in 0..3 : /\ Ahead(rest, Byte(b), 3 * Width + r, after) /\ AckAt(e, ph, next, r, m, a)
                        /\ Listened(g, want, IF r = 3 THEN n + 1 ELSE n)
  BY DEF InAck
<1>2. Width \in Nat /\ 3 * Width + r \in 0..3 * Width + 3
  BY WidthIs
<1>3. /\ f = Driven(e, Byte(b)[3 * Width + r + 1]) /\ h = Taken(e, Byte(b)[3 * Width + r + 1], g)
      /\ Ahead(left, Byte(b), 3 * Width + r + 1, after)
      /\ 3 * Width + r + 1 = 3 * Width + 4 => left = after
  BY <1>1, <1>2, ByteRest
<1>4. /\ Byte(b)[3 * Width + 1] = Sda(1) /\ Byte(b)[3 * Width + 2] = Scl(1)
      /\ Byte(b)[3 * Width + 3] = Sample /\ Byte(b)[3 * Width + 4] = Scl(0)
  BY BytePiece
<1>5. /\ Wired(e) /\ Sits(e, m, a) /\ e.phase = ph /\ e.ackSlot = TRUE /\ e.mackSlot = FALSE
      /\ e.sdaSlave = 0 /\ e.next = next /\ ph \in {"device", "word", "write"}
  BY <1>1 DEF AckAt, Acking, Sits, Takes
<1>6. CASE r = 0
  <2>1. f = SetSda(e, 1) /\ h = g
    BY <1>2, <1>3, <1>4, <1>6, EdgesDrive
  <2>2. e.scl = 0
    BY <1>1, <1>6 DEF AckAt
  <2>3. Keeps(e, f) /\ f.sdaMaster = 1 /\ f.scl = e.scl /\ Alike(e, f)
    BY <1>5, <2>1, <2>2, SdaMoves
  <2>4. AckAt(f, ph, next, 1, m, a)
    BY <1>5, <2>2, <2>3 DEF AckAt, Acking, Keeps, Alike, Slots, Sits
  <2>5. Ahead(left, Byte(b), 3 * Width + 1, after) /\ Listened(h, want, n)
    BY <1>1, <1>2, <1>3, <1>6, <2>1
  <2> QED BY <2>4, <2>5 DEF InAck
<1>7. CASE r = 1
  <2>1. f = SetScl(e, 1) /\ h = g /\ 3 * Width + r + 1 = 3 * Width + 2
    <3>1. 3 * Width + r + 1 = 3 * Width + 2
      BY <1>2, <1>7
    <3> QED BY <1>3, <1>4, <3>1, EdgesDrive
  <2>2. e.scl = 0 /\ e.sdaMaster = 1
    BY <1>1, <1>7 DEF AckAt
  <2>3. /\ Keeps(e, f) /\ f.scl = 1 /\ f.sdaMaster = e.sdaMaster /\ f.phase = e.phase
        /\ f.next = e.next /\ Slots(e, f)
    BY <1>5, <2>1, <2>2, Rises
  <2>4. AckAt(f, ph, next, 2, m, a)
    BY <1>5, <2>2, <2>3 DEF AckAt, Acking, Keeps, Slots, Sits
  <2>5. Ahead(left, Byte(b), 3 * Width + 2, after) /\ Listened(h, want, n)
    BY <1>1, <1>3, <1>7, <2>1
  <2> QED BY <2>4, <2>5 DEF InAck
<1>8. CASE r = 2
  <2>1. f = e /\ h = Append(g, SdaLine(e)) /\ 3 * Width + r + 1 = 3 * Width + 3
    <3>1. 3 * Width + r + 1 = 3 * Width + 3
      BY <1>2, <1>8
    <3> QED BY <1>3, <1>4, <3>1, EdgesDrive
  <2>2. SdaLine(e) = 0 /\ Listened(g, want, n)
    BY <1>1, <1>5, <1>8 DEF SdaLine
  <2>3. Listened(h, want, n + 1)
    BY <2>1, <2>2, ListenedNext
  <2>4. AckAt(f, ph, next, 3, m, a)
    BY <1>1, <1>8, <2>1 DEF AckAt
  <2>5. Ahead(left, Byte(b), 3 * Width + 3, after)
    BY <1>3, <2>1
  <2> QED BY <2>3, <2>4, <2>5 DEF InAck
<1>9. CASE r = 3
  <2>1. f = SetScl(e, 0) /\ h = g /\ 3 * Width + r + 1 = 3 * Width + 4
    <3>1. 3 * Width + r + 1 = 3 * Width + 4
      BY <1>2, <1>9
    <3> QED BY <1>3, <1>4, <3>1, EdgesDrive
  <2>2. e.scl = 1
    BY <1>1, <1>9 DEF AckAt
  <2>3. /\ Keeps(e, f) /\ f.scl = 0
        /\ e.next # "read" => Ready(f, e.next)
        /\ e.next = "read" => /\ f.phase = "read" /\ f.bits = 0 /\ f.ackSlot = FALSE /\ f.mackSlot = FALSE
                              /\ f.sdaSlave = Bit(f.mem[f.addr], 0)
    BY <1>5, <2>1, <2>2, SlotEnds
  <2>4. Followed(f, next, m, a)
    BY <1>5, <2>3 DEF Followed, Showing, Keeps, Sits
  <2> QED BY <1>1, <1>3, <1>9, <2>1, <2>4
<1> QED
  BY <1>6, <1>7, <1>8, <1>9

(***************************************************************************)
(* A byte read: the EEPROM drives its bits, then the master acknowledges.  *)
(***************************************************************************)
Driving(e, bit, j) == /\ e.phase = "read" /\ e.ackSlot = FALSE /\ e.mackSlot = FALSE
                      /\ e.bits = j /\ e.sdaSlave = bit
ReadAt(e, j, r, m, a) == /\ Sits(e, m, a) /\ Driving(e, Bit(m[a], j), IF r >= 2 THEN j + 1 ELSE j)
                         /\ e.scl = IF r >= 2 THEN 1 ELSE 0
                         /\ r >= 1 => e.sdaMaster = 1
InRead(e, rest, g, want, n, m, a, after) ==
    \E j \in 0..Width - 1, r \in 0..3 :
        /\ Ahead(rest, Reading, 4 * j + r, after) /\ ReadAt(e, j, r, m, a)
        /\ Listened(g, want, IF r = 3 THEN n + j + 1 ELSE n + j)
Turning(e, m, a) == /\ Sits(e, m, a) /\ e.scl = 0 /\ e.phase = "read" /\ e.ackSlot = FALSE
                    /\ e.mackSlot = TRUE

\* A byte is read once its first bit is driven.
LEMMA ReadBegins ==
    ASSUME NEW e, NEW g, NEW want, NEW n \in Nat, NEW m, NEW a,
           NEW after \in Seq(Edge), Sits(e, m, a), e.scl = 0, Showing(e, 0), Listened(g, want, n)
    PROVE  InRead(e, Reading \o after, g, want, n, m, a, after)
<1>1. 0 \in 0..Width - 1 /\ 4 * 0 + 0 = 0 /\ n + 0 = n
  BY WidthIs
<1>2. Ahead(Reading \o after, Reading, 0, after)
  BY ReadingPiece, AheadBegins
<1>3. ReadAt(e, 0, 0, m, a)
  BY DEF ReadAt, Driving, Showing, Sits
<1> QED
  BY <1>1, <1>2, <1>3 DEF InRead

\* One edge of a byte read.
LEMMA ReadRest ==
    ASSUME NEW i \in 0..4 * Width - 1, NEW after \in Seq(Edge),
           NEW e, NEW rest, NEW g, NEW f, NEW left, NEW h,
           Ahead(rest, Reading, i, after), Does(e, rest, g, f, left, h)
    PROVE  /\ f = Driven(e, Reading[i + 1]) /\ h = Taken(e, Reading[i + 1], g)
           /\ Ahead(left, Reading, i + 1, after)
           /\ i + 1 = 4 * Width => left = after
<1>1. Reading \in Seq(Edge) /\ Len(Reading) = 4 * Width /\ i \in 0..Len(Reading) - 1
  BY ReadingPiece, WidthIs
<1>2. /\ f = Driven(e, Reading[i + 1]) /\ h = Taken(e, Reading[i + 1], g)
      /\ Ahead(left, Reading, i + 1, after)
      /\ i + 1 = Len(Reading) => left = after
  BY <1>1, PieceMoves
<1> QED
  BY <1>1, <1>2

\* Each edge of it: the samples are the bits of the cell.
LEMMA ReadMoves ==
    ASSUME NEW e, NEW rest, NEW g, NEW want, NEW n \in Nat, NEW m, NEW a,
           NEW after \in Seq(Edge), NEW f, NEW left, NEW h,
           \A k \in 0..Width - 1 : want[n + k + 1] = Bit(m[a], k),
           InRead(e, rest, g, want, n, m, a, after), Does(e, rest, g, f, left, h)
    PROVE  \/ InRead(f, left, h, want, n, m, a, after)
           \/ left = after /\ Turning(f, m, a) /\ Listened(h, want, n + Width)
<1>1. PICK j \in 0..Width - 1, r \in 0..3 :
        /\ Ahead(rest, Reading, 4 * j + r, after) /\ ReadAt(e, j, r, m, a)
        /\ Listened(g, want, IF r = 3 THEN n + j + 1 ELSE n + j)
  BY DEF InRead
<1>2. Width \in Nat /\ j \in Nat /\ j + 1 \in Nat /\ n + j \in Nat /\ 4 * j + r \in 0..4 * Width - 1
  BY WidthIs
<1>3. /\ f = Driven(e, Reading[4 * j + r + 1]) /\ h = Taken(e, Reading[4 * j + r + 1], g)
      /\ Ahead(left, Reading, 4 * j + r + 1, after)
      /\ 4 * j + r + 1 = 4 * Width => left = after
  BY <1>1, <1>2, ReadRest
<1>4. /\ Reading[4 * j + 1] = Sda(1) /\ Reading[4 * j + 2] = Scl(1)
      /\ Reading[4 * j + 3] = Sample /\ Reading[4 * j + 4] = Scl(0)
  BY ReadingPiece
<1> DEFINE bit == Bit(m[a], j)
<1>5. /\ Wired(e) /\ Sits(e, m, a) /\ e.phase = "read" /\ e.ackSlot = FALSE /\ e.mackSlot = FALSE
      /\ e.sdaSlave = bit /\ e.bits = IF r >= 2 THEN j + 1 ELSE j
  BY <1>1 DEF ReadAt, Driving, Sits
<1>6. bit \in {0, 1} /\ want[n + j + 1] = bit
  <2>1. m[a] \in Address
    BY <1>5 DEF Sits, Wired
  <2> QED BY <2>1, BitJoins
<1> HIDE DEF bit
<1>7. CASE r = 0
  <2>1. f = SetSda(e, 1) /\ h = g
    BY <1>2, <1>3, <1>4, <1>7, EdgesDrive
  <2>2. e.scl = 0 /\ e.bits = j
    BY <1>1, <1>5, <1>7 DEF ReadAt
  <2>3. Keeps(e, f) /\ f.sdaMaster = 1 /\ f.scl = e.scl /\ Alike(e, f)
    BY <1>5, <2>1, <2>2, SdaMoves
  <2>4. Sits(f, m, a) /\ Driving(f, bit, j) /\ f.scl = 0 /\ f.sdaMaster = 1
    BY <1>5, <2>2, <2>3 DEF Driving, Keeps, Alike, Slots, Sits
  <2>5. ReadAt(f, j, 1, m, a)
    BY <2>4 DEF ReadAt, bit
  <2>6. Ahead(left, Reading, 4 * j + 1, after) /\ Listened(h, want, n + j)
    BY <1>1, <1>2, <1>3, <1>7, <2>1
  <2> QED BY <2>5, <2>6 DEF InRead
<1>8. CASE r = 1
  <2>1. f = SetScl(e, 1) /\ h = g /\ 4 * j + r + 1 = 4 * j + 2
    <3>1. 4 * j + r + 1 = 4 * j + 2
      BY <1>2, <1>8
    <3> QED BY <1>3, <1>4, <3>1, EdgesDrive
  <2>2. e.scl = 0 /\ e.bits = j /\ e.sdaMaster = 1
    BY <1>1, <1>5, <1>8 DEF ReadAt
  <2>3. /\ Keeps(e, f) /\ f.scl = 1 /\ f.sdaMaster = e.sdaMaster /\ f.phase = e.phase
        /\ Slots(e, f) /\ f.bits = e.bits + 1
    BY <1>5, <2>1, <2>2, Rises
  <2>4. Sits(f, m, a) /\ Driving(f, bit, j + 1) /\ f.scl = 1 /\ f.sdaMaster = 1
    BY <1>5, <2>2, <2>3 DEF Driving, Keeps, Slots, Sits
  <2>5. ReadAt(f, j, 2, m, a)
    BY <2>4 DEF ReadAt, bit
  <2>6. Ahead(left, Reading, 4 * j + 2, after) /\ Listened(h, want, n + j)
    BY <1>1, <1>3, <1>8, <2>1
  <2> QED BY <2>5, <2>6 DEF InRead
<1>9. CASE r = 2
  <2>1. f = e /\ h = Append(g, SdaLine(e)) /\ 4 * j + r + 1 = 4 * j + 3
    <3>1. 4 * j + r + 1 = 4 * j + 3
      BY <1>2, <1>9
    <3> QED BY <1>3, <1>4, <3>1, EdgesDrive
  <2>2. e.sdaMaster = 1 /\ Listened(g, want, n + j)
    BY <1>1, <1>9 DEF ReadAt
  <2>3. SdaLine(e) = want[n + j + 1]
    BY <1>5, <1>6, <2>2 DEF SdaLine
  <2>4. Listened(h, want, n + j + 1)
    BY <1>2, <2>1, <2>2, <2>3, ListenedNext
  <2>5. ReadAt(f, j, 3, m, a)
    BY <1>1, <1>9, <2>1 DEF ReadAt
  <2>6. Ahead(left, Reading, 4 * j + 3, after)
    BY <1>3, <2>1
  <2> QED BY <2>4, <2>5, <2>6 DEF InRead
<1>10. CASE r = 3
  <2>1. f = SetScl(e, 0) /\ h = g /\ 4 * j + r + 1 = 4 * (j + 1)
    <3>1. 4 * j + r + 1 = 4 * j + 4 /\ 4 * j + 4 = 4 * (j + 1)
      BY <1>2, <1>10
    <3> QED BY <1>3, <1>4, <3>1, EdgesDrive
  <2>2. e.scl = 1 /\ e.bits = j + 1 /\ Listened(g, want, n + j + 1)
    BY <1>1, <1>5, <1>10 DEF ReadAt
  <2>3. /\ Keeps(e, f) /\ f.scl = 0
        /\ e.bits # Width => Showing(f, e.bits)
        /\ e.bits = Width => f.phase = "read" /\ f.ackSlot = FALSE /\ f.mackSlot = TRUE
    BY <1>5, <2>1, <2>2, ReadBitEnds
  <2>4. CASE j + 1 # Width
    <3>1. Sits(f, m, a) /\ Showing(f, j + 1)
      BY <1>5, <2>2, <2>3, <2>4 DEF Keeps, Sits
    <3>2. ReadAt(f, j + 1, 0, m, a)
      BY <2>3, <3>1 DEF ReadAt, Driving, Showing, Sits
    <3>3. Ahead(left, Reading, 4 * (j + 1) + 0, after) /\ j + 1 \in 0..Width - 1 /\ n + j + 1 = n + (j + 1)
      BY <1>2, <1>3, <2>1, <2>4
    <3> QED BY <2>1, <2>2, <3>2, <3>3 DEF InRead
  <2>5. CASE j + 1 = Width
    <3>1. Turning(f, m, a)
      BY <1>5, <2>2, <2>3, <2>5 DEF Turning, Keeps, Sits
    <3>2. left = after /\ n + j + 1 = n + Width
      BY <1>2, <1>3, <2>1, <2>5
    <3> QED BY <2>1, <2>2, <3>1, <3>2
  <2> QED BY <2>4, <2>5
<1> QED
  BY <1>7, <1>8, <1>9, <1>10

(***************************************************************************)
(* The master's acknowledgement of a byte it read, and a STOP.             *)
(***************************************************************************)
TurnAt(e, i, x, m, a) == /\ Sits(e, m, a) /\ e.phase = "read" /\ e.ackSlot = FALSE /\ e.mackSlot = TRUE
                         /\ e.scl = IF i = 2 THEN 1 ELSE 0
                         /\ i >= 1 => e.sdaMaster = x
                         /\ i = 2 => e.masterNack = x
InTurn(e, rest, g, want, n, x, m, a, after) ==
    \E i \in 0..2 : Ahead(rest, Clocked(x), i, after) /\ TurnAt(e, i, x, m, a) /\ Listened(g, want, n)
\* Whatever the EEPROM makes of it, it keeps what it holds.
Held(e, m) == Wired(e) /\ e.mem = m
InStop(e, rest, g, want, n, m) ==
    \E i \in 0..3 : Ahead(rest, StopEdges, i, <<>>) /\ Held(e, m) /\ Listened(g, want, n)

\* The master's turn to acknowledge.
LEMMA TurnBegins ==
    ASSUME NEW e, NEW g, NEW want, NEW n, NEW m, NEW a, NEW x \in {0, 1},
           NEW after \in Seq(Edge), Turning(e, m, a), Listened(g, want, n)
    PROVE  InTurn(e, Clocked(x) \o after, g, want, n, x, m, a, after)
<1>1. Ahead(Clocked(x) \o after, Clocked(x), 0, after)
  BY ShortPieces, AheadBegins
<1>2. TurnAt(e, 0, x, m, a)
  BY DEF TurnAt, Turning
<1> QED
  BY <1>1, <1>2 DEF InTurn

\* Each edge of it; acknowledged, the EEPROM drives the next cell.
LEMMA TurnMoves ==
    ASSUME NEW e, NEW rest, NEW g, NEW want, NEW n, NEW x \in {0, 1}, NEW m, NEW a,
           NEW after \in Seq(Edge), NEW f, NEW left, NEW h,
           InTurn(e, rest, g, want, n, x, m, a, after), Does(e, rest, g, f, left, h)
    PROVE  \/ InTurn(f, left, h, want, n, x, m, a, after)
           \/ /\ left = after /\ Held(f, m) /\ f.scl = 0 /\ Listened(h, want, n)
              /\ x = 0 => Showing(f, 0) /\ f.addr = (a + 1) % Cells
<1>1. PICK i \in 0..2 : Ahead(rest, Clocked(x), i, after) /\ TurnAt(e, i, x, m, a) /\ Listened(g, want, n)
  BY DEF InTurn
<1>2. /\ f = Driven(e, Clocked(x)[i + 1]) /\ h = Taken(e, Clocked(x)[i + 1], g)
      /\ Ahead(left, Clocked(x), i + 1, after) /\ (i + 1 = 3 => left = after)
  <2>1. Clocked(x) \in Seq(Edge) /\ Len(Clocked(x)) = 3 /\ i \in 0..Len(Clocked(x)) - 1
    BY <1>1, ShortPieces
  <2>2. Ahead(rest, Clocked(x), i, after)
    BY <1>1
  <2>3. /\ f = Driven(e, Clocked(x)[i + 1]) /\ h = Taken(e, Clocked(x)[i + 1], g)
        /\ Ahead(left, Clocked(x), i + 1, after)
        /\ i + 1 = Len(Clocked(x)) => left = after
    BY <2>1, <2>2, PieceMoves
  <2> QED BY <2>1, <2>3
<1>3. Sits(e, m, a) /\ Wired(e) /\ e.phase = "read" /\ e.ackSlot = FALSE /\ e.mackSlot = TRUE
  BY <1>1 DEF TurnAt, Sits
<1>4. Clocked(x)[1] = Sda(x) /\ Clocked(x)[2] = Scl(1) /\ Clocked(x)[3] = Scl(0)
  BY ShortPieces
<1>5. ASSUME i \in 0..1, TurnAt(f, i + 1, x, m, a), h = g
      PROVE  InTurn(f, left, h, want, n, x, m, a, after)
  <2>1. i + 1 \in 0..2
    BY <1>5
  <2> QED BY <1>1, <1>2, <1>5, <2>1 DEF InTurn
<1>6. CASE i = 0
  <2>1. f = SetSda(e, x) /\ h = g
    BY <1>2, <1>4, <1>6, EdgesDrive
  <2>2. e.scl = 0
    BY <1>1, <1>6 DEF TurnAt
  <2>3. Keeps(e, f) /\ f.sdaMaster = x /\ f.scl = e.scl /\ Alike(e, f)
    BY <1>3, <2>1, <2>2, SdaMoves
  <2>4. TurnAt(f, 1, x, m, a)
    BY <1>3, <2>2, <2>3 DEF TurnAt, Keeps, Alike, Slots, Sits
  <2> QED BY <1>5, <1>6, <2>1, <2>4
<1>7. CASE i = 1
  <2>1. f = SetScl(e, 1) /\ h = g
    BY <1>2, <1>4, <1>7, EdgesDrive
  <2>2. e.scl = 0 /\ e.sdaMaster = x
    BY <1>1, <1>7 DEF TurnAt
  <2>3. /\ Keeps(e, f) /\ f.scl = 1 /\ f.sdaMaster = e.sdaMaster /\ f.phase = e.phase /\ Slots(e, f)
        /\ f.masterNack = e.sdaMaster
    BY <1>3, <2>1, <2>2, Rises
  <2>4. TurnAt(f, 2, x, m, a)
    BY <1>3, <2>2, <2>3 DEF TurnAt, Keeps, Slots, Sits
  <2> QED BY <1>5, <1>7, <2>1, <2>4
<1>8. CASE i = 2
  <2>1. f = SetScl(e, 0) /\ h = g
    BY <1>2, <1>4, <1>8, EdgesDrive
  <2>2. e.scl = 1 /\ e.masterNack = x
    BY <1>1, <1>8 DEF TurnAt
  <2>3. /\ Wired(f) /\ f.scl = 0 /\ f.mem = e.mem
        /\ e.masterNack = 0 => Showing(f, 0) /\ f.addr = (e.addr + 1) % Cells
    BY <1>3, <2>1, <2>2, MasterAcks
  <2>4. Held(f, m) /\ (x = 0 => Showing(f, 0) /\ f.addr = (a + 1) % Cells)
    BY <1>3, <2>2, <2>3 DEF Sits, Held
  <2> QED BY <1>1, <1>2, <1>8, <2>1, <2>3, <2>4
<1> QED
  BY <1>6, <1>7, <1>8

\* A STOP may begin anywhere.
LEMMA StopBegins ==
    ASSUME NEW e, NEW g, NEW want, NEW n, NEW m, Held(e, m), Listened(g, want, n)
    PROVE  InStop(e, StopEdges, g, want, n, m)
<1>1. <<>> \in Seq(Edge) /\ StopEdges \in Seq(Edge)
  BY EmptySeq, ShortPieces
<1>2. StopEdges \o <<>> = StopEdges
  BY <1>1, ConcatEmptySeq
<1>3. Ahead(StopEdges, StopEdges, 0, <<>>)
  <2>1. \A after \in Seq(Edge) : Ahead(StopEdges \o after, StopEdges, 0, after)
    BY <1>1, AheadBegins
  <2>2. Ahead(StopEdges \o <<>>, StopEdges, 0, <<>>)
    BY <1>1, <2>1
  <2> QED BY <1>2, <2>2
<1> QED
  BY <1>3 DEF InStop

\* No edge of it changes what the EEPROM holds.
LEMMA StopMoves ==
    ASSUME NEW e, NEW rest, NEW g, NEW want, NEW n, NEW m, NEW f, NEW left, NEW h,
           InStop(e, rest, g, want, n, m), Does(e, rest, g, f, left, h)
    PROVE  InStop(f, left, h, want, n, m)
<1>1. PICK i \in 0..3 : Ahead(rest, StopEdges, i, <<>>) /\ Held(e, m) /\ Listened(g, want, n)
  BY DEF InStop
<1>2. <<>> \in Seq(Edge) /\ StopEdges \in Seq(Edge) /\ Len(StopEdges) = 3
  BY EmptySeq, ShortPieces
<1>3. i # 3
  <2>1. \A r : Ahead(r, StopEdges, Len(StopEdges), <<>>) => r = <<>>
    BY <1>2, AheadBegins
  <2> QED BY <1>1, <1>2, <2>1 DEF Does
<1>4. i \in 0..Len(StopEdges) - 1 /\ Ahead(rest, StopEdges, i, <<>>)
  BY <1>1, <1>2, <1>3
<1>5. /\ f = Driven(e, StopEdges[i + 1]) /\ h = Taken(e, StopEdges[i + 1], g)
      /\ Ahead(left, StopEdges, i + 1, <<>>)
  <2> DEFINE none == <<>>
  <2>1. none \in Seq(Edge) /\ Ahead(rest, StopEdges, i, none)
    BY <1>2, <1>4
  <2> HIDE DEF none
  <2>2. /\ f = Driven(e, StopEdges[i + 1]) /\ h = Taken(e, StopEdges[i + 1], g)
        /\ Ahead(left, StopEdges, i + 1, none)
        /\ i + 1 = Len(StopEdges) => left = none
    <3>1. StopEdges \in Seq(Edge) /\ i \in 0..Len(StopEdges) - 1
      BY <1>2, <1>4
    <3> QED BY <2>1, <3>1, PieceMoves
  <2> QED BY <2>2 DEF none
<1>6. StopEdges[i + 1] \in {Sda(0), Scl(1), Sda(1)}
  <2>1. i = 0 \/ i = 1 \/ i = 2
    BY <1>1, <1>3
  <2> QED BY <2>1, ShortPieces
<1>7. (f = SetSda(e, 0) \/ f = SetScl(e, 1) \/ f = SetSda(e, 1)) /\ h = g
  BY <1>5, <1>6, EdgesDrive
<1>8. Sits(e, m, e.addr)
  BY <1>1 DEF Sits, Held
<1>9. Sits(f, m, e.addr)
  BY <1>7, <1>8, ClockUp, DataSet
<1>10. i + 1 \in 0..3 /\ Held(f, m)
  BY <1>3, <1>9 DEF Sits, Held
<1> QED
  BY <1>1, <1>5, <1>7, <1>10 DEF InStop

(***************************************************************************)
(* A whole transaction: what follows each of its pieces, and what the      *)
(* master should hear.                                                     *)
(***************************************************************************)
AfterLast     == Clocked(1) \o StopEdges
AfterFirst    == Clocked(0) \o (Reading \o AfterLast)
AfterAsk(t)   == IF t.kind = "readTwo" THEN Reading \o AfterFirst ELSE Reading \o AfterLast
AfterAgain(t) == Byte(OwnRead) \o AfterAsk(t)
AfterWord(t)  == IF t.kind = "write" THEN Byte(t.value) \o StopEdges ELSE StartEdges \o AfterAgain(t)
AfterOwn(t)   == Byte(t.addr) \o AfterWord(t)
AfterStart(t) == Byte(OwnWrite) \o AfterOwn(t)

\* What a transaction is made of.
LEMMA TaskIs ==
    ASSUME NEW t \in Tasks
    PROVE  /\ t.addr \in Address /\ t.value \in Address \cup {0} /\ t.kind \in {"write", "read", "readTwo"}
           /\ t.kind = "write" => t.value \in Address
           /\ t # NoTask
<1>1. t.addr \in Address /\ t.kind \in {"write", "read", "readTwo"} /\ t.value \in Written \cup {0}
      /\ (t.kind = "write" => t.value \in Written)
  BY DEF Tasks, Address
<1>2. t # NoTask
  BY <1>1 DEF NoTask
<1> QED
  BY <1>1, <1>2, WidthIs

\* Every rest of a script is made of edges.
LEMMA AfterTyped ==
    ASSUME NEW t \in Tasks
    PROVE  /\ AfterLast \in Seq(Edge) /\ AfterFirst \in Seq(Edge) /\ Reading \o AfterLast \in Seq(Edge)
           /\ AfterAsk(t) \in Seq(Edge) /\ AfterAgain(t) \in Seq(Edge) /\ AfterWord(t) \in Seq(Edge)
           /\ AfterOwn(t) \in Seq(Edge) /\ AfterStart(t) \in Seq(Edge)
<1>1. /\ StartEdges \in Seq(Edge) /\ StopEdges \in Seq(Edge) /\ Reading \in Seq(Edge)
      /\ Clocked(0) \in Seq(Edge) /\ Clocked(1) \in Seq(Edge)
      /\ \A b \in Address : Byte(b) \in Seq(Edge)
  BY ShortPieces, ReadingPiece, BytePiece
<1>2. \A p \in Seq(Edge), q \in Seq(Edge) : p \o q \in Seq(Edge)
  BY ConcatProperties
<1>3. AfterLast \in Seq(Edge) /\ Reading \o AfterLast \in Seq(Edge) /\ AfterFirst \in Seq(Edge)
  BY <1>1, <1>2 DEF AfterLast, AfterFirst
<1>4. Reading \o AfterFirst \in Seq(Edge)
  BY <1>1, <1>2, <1>3
<1>5. AfterAsk(t) \in Seq(Edge)
  BY <1>3, <1>4 DEF AfterAsk
<1>6. AfterAgain(t) \in Seq(Edge)
  BY <1>1, <1>2, <1>5, OwnBytes DEF AfterAgain
<1>7. AfterWord(t) \in Seq(Edge)
  BY <1>1, <1>2, <1>6, TaskIs DEF AfterWord
<1>8. AfterOwn(t) \in Seq(Edge)
  BY <1>1, <1>2, <1>7, TaskIs DEF AfterOwn
<1>9. AfterStart(t) \in Seq(Edge)
  BY <1>1, <1>2, <1>8, OwnBytes DEF AfterStart
<1> QED
  BY <1>3, <1>5, <1>6, <1>7, <1>8, <1>9

\* \o, where only its laws matter.
Join(p, q) == p \o q
\* The laws.
LEMMA Joins ==
    /\ \A p, q \in Seq(Edge) : Join(p, q) \in Seq(Edge)
    /\ \A p, q, r \in Seq(Edge) : Join(Join(p, q), r) = Join(p, Join(q, r))
    /\ \A p \in Seq(Edge) : Join(<<>>, p) = p
<1>1. \A p, q \in Seq(Edge) : p \o q \in Seq(Edge)
  BY ConcatProperties
<1>2. \A p, q, r \in Seq(Edge) : (p \o q) \o r = p \o (q \o r)
  BY ConcatAssociative
<1>3. \A p \in Seq(Edge) : <<>> \o p = p
  BY ConcatEmptySeq
<1> QED
  BY <1>1, <1>2, <1>3 DEF Join

\* A script is its pieces, one after the other.
LEMMA EdgesAre ==
    ASSUME NEW t \in Tasks
    PROVE  Edges(t) = StartEdges \o AfterStart(t)
<1> DEFINE S == Seq(Edge)
           own == Byte(OwnWrite)
           ad == Byte(t.addr)
           val == Byte(t.value)
           ask == Byte(OwnRead)
           st == StartEdges
           sp == StopEdges
           rd == Reading
           c0 == Clocked(0)
           c1 == Clocked(1)
           none == <<>>
           start == Join(Join(st, own), ad)
           tail == Join(rd, Join(c1, sp))
           mid == IF t.kind = "readTwo" THEN Join(rd, c0) ELSE none
           asked == Join(Join(start, st), ask)
<1>1. /\ st \in S /\ sp \in S /\ rd \in S /\ c0 \in S /\ c1 \in S /\ own \in S /\ ad \in S /\ ask \in S
      /\ t.kind = "write" => val \in S
      /\ none \in S
  <2>1. \A b \in Address : Byte(b) \in Seq(Edge)
    BY BytePiece
  <2> QED BY <2>1, ShortPieces, ReadingPiece, OwnBytes, TaskIs, EmptySeq
<1>2. \A p, q, r \in S : Join(Join(p, q), r) = Join(p, Join(q, r))
  BY Joins
<1>3. \A p, q \in S : Join(p, q) \in S
  BY Joins
<1>4. \A p \in S : Join(none, p) = p
  BY Joins
<1>5. Edges(t) = IF t.kind = "write" THEN Join(Join(start, val), sp)
                 ELSE Join(Join(Join(Join(asked, mid), rd), c1), sp)
  BY DEF Edges, Reading, Join
<1>6. AfterStart(t) =
        Join(own, Join(ad, IF t.kind = "write" THEN Join(val, sp)
                           ELSE Join(st, Join(ask, IF t.kind = "readTwo" THEN Join(rd, Join(c0, tail))
                                                   ELSE tail))))
  BY DEF AfterStart, AfterOwn, AfterWord, AfterAgain, AfterAsk, AfterFirst, AfterLast, Join
<1>7. start = Join(Join(st, own), ad) /\ asked = Join(Join(start, st), ask)
      /\ tail = Join(rd, Join(c1, sp)) /\ mid = IF t.kind = "readTwo" THEN Join(rd, c0) ELSE none
  OBVIOUS
<1> HIDE DEF S, own, ad, val, ask, st, sp, rd, c0, c1, none, start, tail, mid, asked
<1>8. /\ start \in S /\ asked \in S /\ tail \in S /\ mid \in S
      /\ \A r \in S : Join(start, r) = Join(st, Join(own, Join(ad, r)))
  <2>1. Join(st, own) \in S /\ start \in S
    BY <1>1, <1>3, <1>7
  <2>2. Join(start, st) \in S /\ asked \in S /\ Join(c1, sp) \in S /\ tail \in S /\ Join(rd, c0) \in S
    BY <1>1, <1>3, <1>7, <2>1
  <2>3. ASSUME NEW r \in S PROVE Join(start, r) = Join(st, Join(own, Join(ad, r)))
    <3>1. Join(start, r) = Join(Join(st, own), Join(ad, r)) /\ Join(ad, r) \in S
      BY <1>1, <1>2, <1>3, <1>7, <2>1
    <3> QED BY <1>1, <1>2, <3>1
  <2> QED BY <1>1, <1>7, <2>1, <2>2, <2>3
<1>9. CASE t.kind = "write"
  <2>1. Join(Join(start, val), sp) = Join(start, Join(val, sp)) /\ Join(val, sp) \in S
    BY <1>1, <1>2, <1>3, <1>8, <1>9
  <2>2. Edges(t) = Join(st, Join(own, Join(ad, Join(val, sp))))
    BY <1>5, <1>8, <1>9, <2>1
  <2>3. Edges(t) = Join(st, AfterStart(t))
    BY <1>6, <1>9, <2>2
  <2> QED BY <2>3 DEF Join, st
<1>10. CASE t.kind # "write"
  <2> DEFINE end == Join(mid, tail)
  <2>1. Join(Join(Join(Join(asked, mid), rd), c1), sp) = Join(asked, end)
    <3>1. Join(asked, mid) \in S /\ Join(Join(asked, mid), rd) \in S /\ Join(c1, sp) \in S
      BY <1>1, <1>3, <1>8
    <3>2. Join(Join(Join(Join(asked, mid), rd), c1), sp) = Join(Join(Join(asked, mid), rd), Join(c1, sp))
      BY <1>1, <1>2, <3>1
    <3>3. Join(Join(Join(asked, mid), rd), Join(c1, sp)) = Join(Join(asked, mid), tail)
      BY <1>1, <1>2, <1>7, <3>1
    <3>4. Join(Join(asked, mid), tail) = Join(asked, end)
      BY <1>2, <1>8
    <3> QED BY <3>2, <3>3, <3>4
  <2>2. end = IF t.kind = "readTwo" THEN Join(rd, Join(c0, tail)) ELSE tail
    <3>1. Join(Join(rd, c0), tail) = Join(rd, Join(c0, tail)) /\ Join(none, tail) = tail
      BY <1>1, <1>2, <1>4, <1>8
    <3> QED BY <1>7, <3>1
  <2>3. end \in S
    BY <1>3, <1>8
  <2> HIDE DEF end
  <2>4. Join(asked, end) = Join(start, Join(st, Join(ask, end))) /\ Join(st, Join(ask, end)) \in S
    <3>1. Join(start, st) \in S /\ Join(ask, end) \in S
      BY <1>1, <1>3, <1>8, <2>3
    <3>2. Join(asked, end) = Join(Join(start, st), Join(ask, end))
      BY <1>1, <1>2, <1>7, <2>3, <3>1
    <3>3. Join(Join(start, st), Join(ask, end)) = Join(start, Join(st, Join(ask, end)))
      BY <1>1, <1>2, <1>8, <3>1
    <3>4. Join(st, Join(ask, end)) \in S
      BY <1>1, <1>3, <3>1
    <3> QED BY <3>2, <3>3, <3>4
  <2>5. Edges(t) = Join(st, Join(own, Join(ad, Join(st, Join(ask, end)))))
    BY <1>5, <1>8, <1>10, <2>1, <2>4
  <2>6. Edges(t) = Join(st, AfterStart(t))
    BY <1>6, <1>10, <2>2, <2>5
  <2> QED BY <2>6 DEF Join, st
<1> QED
  BY <1>9, <1>10

Answer(t, m) == IF t.kind = "write" THEN Acks(3)
                ELSE Acks(3) \o BitsOf(m[t.addr]) \o BitsOf(m[(t.addr + 1) % Cells])

\* Three acknowledgements, then the bits of the cells read.
LEMMA WantedIs ==
    ASSUME NEW t \in Tasks, NEW m
    PROVE  /\ Answer(t, m)[1] = 0 /\ Answer(t, m)[2] = 0 /\ Answer(t, m)[3] = 0
           /\ t.kind # "write" =>
                \A k \in 0..Width - 1 :
                   /\ Answer(t, m)[3 + k + 1] = Bit(m[t.addr], k)
                   /\ Answer(t, m)[(3 + Width) + k + 1] = Bit(m[(t.addr + 1) % Cells], k)
<1> DEFINE acks == Acks(3)
           S == {acks[k] : k \in 1..3}
                  \cup {Bit(n, k) : n \in {m[t.addr], m[(t.addr + 1) % Cells]}, k \in 0..Width - 1}
           p == BitsOf(m[t.addr])
           q == BitsOf(m[(t.addr + 1) % Cells])
<1>0. Width \in Nat /\ Width >= 2
  BY WidthIs
<1>1. /\ acks \in Seq(S) /\ Len(acks) = 3 /\ \A k \in 1..3 : acks[k] = 0
  <2>1. acks = [k \in 1..3 |-> 0]
    BY DEF Acks
  <2>2. acks \in [1..3 -> S]
    BY <2>1
  <2> HIDE DEF S, acks
  <2> QED BY <2>1, <2>2, LenProperties
<1>2. /\ p \in Seq(S) /\ Len(p) = Width /\ \A k \in 1..Width : p[k] = Bit(m[t.addr], k - 1)
  <2>1. p = [k \in 1..Width |-> Bit(m[t.addr], k - 1)]
    BY DEF BitsOf
  <2>2. \A k \in 1..Width : Bit(m[t.addr], k - 1) \in S
    <3>1. \A k \in 1..Width : k - 1 \in 0..Width - 1
      BY <1>0
    <3> QED BY <3>1
  <2> HIDE DEF S, p
  <2>3. p \in [1..Width -> S]
    BY <2>1, <2>2
  <2>4. p \in Seq(S) /\ Len(p) = Width
    BY <1>0, <2>3, LenProperties
  <2> QED BY <2>1, <2>4
<1>3. /\ q \in Seq(S) /\ Len(q) = Width /\ \A k \in 1..Width : q[k] = Bit(m[(t.addr + 1) % Cells], k - 1)
  <2>1. q = [k \in 1..Width |-> Bit(m[(t.addr + 1) % Cells], k - 1)]
    BY DEF BitsOf
  <2>2. \A k \in 1..Width : Bit(m[(t.addr + 1) % Cells], k - 1) \in S
    <3>1. \A k \in 1..Width : k - 1 \in 0..Width - 1
      BY <1>0
    <3> QED BY <3>1
  <2> HIDE DEF S, q
  <2>3. q \in [1..Width -> S]
    BY <2>1, <2>2
  <2>4. q \in Seq(S) /\ Len(q) = Width
    BY <1>0, <2>3, LenProperties
  <2> QED BY <2>1, <2>4
<1>4. Answer(t, m) = IF t.kind = "write" THEN acks ELSE (acks \o p) \o q
  BY DEF Answer
<1> HIDE DEF S, acks, p, q
<1>5. /\ acks \o p \in Seq(S) /\ Len(acks \o p) = 3 + Width
      /\ \A k \in 1..3 + Width : (acks \o p)[k] = IF k <= 3 THEN acks[k] ELSE p[k - 3]
  <2>1. /\ acks \o p \in Seq(S) /\ Len(acks \o p) = Len(acks) + Len(p)
        /\ \A k \in 1..Len(acks) + Len(p) :
             (acks \o p)[k] = IF k <= Len(acks) THEN acks[k] ELSE p[k - Len(acks)]
    BY <1>1, <1>2, ConcatProperties
  <2> QED BY <1>1, <1>2, <2>1
<1> DEFINE l == acks \o p
           w == l \o q
<1> HIDE DEF l
<1>6. \A k \in 1..(3 + Width) + Width : w[k] = IF k <= 3 + Width THEN l[k] ELSE q[k - (3 + Width)]
  <2>0. l \in Seq(S) /\ Len(l) = 3 + Width
    BY <1>5 DEF l
  <2>1. \A k \in 1..Len(l) + Len(q) : (l \o q)[k] = IF k <= Len(l) THEN l[k] ELSE q[k - Len(l)]
    BY <1>3, <2>0, ConcatProperties
  <2> QED BY <1>3, <2>0, <2>1
<1>7. \A k \in 1..3 + Width : l[k] = IF k <= 3 THEN acks[k] ELSE p[k - 3]
  BY <1>5 DEF l
<1>10. Answer(t, m) = IF t.kind = "write" THEN acks ELSE w
  BY <1>4 DEF l
<1> HIDE DEF w
<1>8. CASE t.kind = "write"
  BY <1>1, <1>8, <1>10
<1>9. CASE t.kind # "write"
  <2>1. Answer(t, m) = w
    BY <1>9, <1>10
  <2>2. w[1] = 0 /\ w[2] = 0 /\ w[3] = 0
    <3>1. \A k \in {1, 2, 3} : k \in 1..(3 + Width) + Width /\ k <= 3 + Width /\ k \in 1..3 + Width /\ k <= 3
      BY <1>0
    <3>2. \A k \in {1, 2, 3} : w[k] = acks[k]
      BY <1>6, <1>7, <3>1
    <3> QED BY <1>1, <3>2
  <2>3. ASSUME NEW k \in 0..Width - 1
        PROVE  /\ w[3 + k + 1] = Bit(m[t.addr], k)
               /\ w[(3 + Width) + k + 1] = Bit(m[(t.addr + 1) % Cells], k)
    <3>1. /\ 3 + k + 1 \in 1..(3 + Width) + Width /\ 3 + k + 1 <= 3 + Width /\ 3 + k + 1 \in 1..3 + Width
          /\ ~(3 + k + 1 <= 3) /\ (3 + k + 1) - 3 = k + 1 /\ k + 1 \in 1..Width /\ (k + 1) - 1 = k
      BY <1>0
    <3>2. /\ (3 + Width) + k + 1 \in 1..(3 + Width) + Width /\ ~((3 + Width) + k + 1 <= 3 + Width)
          /\ ((3 + Width) + k + 1) - (3 + Width) = k + 1
      BY <1>0
    <3>3. w[3 + k + 1] = p[k + 1]
      BY <1>6, <1>7, <3>1
    <3>4. w[(3 + Width) + k + 1] = q[k + 1]
      BY <1>6, <3>2
    <3> QED BY <1>2, <1>3, <3>1, <3>3, <3>4
  <2> QED BY <2>1, <2>2, <2>3
<1> QED
  BY <1>8, <1>9

(***************************************************************************)
(* Where the master is in its transaction t, m being what the EEPROM held  *)
(* when it began: e the EEPROM, rest what is left to do, g what was heard. *)
(***************************************************************************)
\* A byte the EEPROM takes, and what it holds and points at by then.
InByte(e, rest, g, want, n, ph, b, next, m, a, after) ==
    \/ InBits(e, rest, g, want, n, ph, b, m, a, after)
    \/ InAck(e, rest, g, want, n, ph, b, next, MemAfter(ph, b, m, a), AddrAfter(ph, b, a), after)

\* Each edge of a byte, and what it leaves.
LEMMA ByteMoves ==
    ASSUME NEW e, NEW rest, NEW g, NEW want, NEW n \in Nat, NEW ph, NEW b \in Address, NEW next, NEW m, NEW a,
           NEW after \in Seq(Edge), NEW f, NEW left, NEW h, Takes(ph, b, next), want[n + 1] = 0,
           InByte(e, rest, g, want, n, ph, b, next, m, a, after), Does(e, rest, g, f, left, h)
    PROVE  \/ InByte(f, left, h, want, n, ph, b, next, m, a, after)
           \/ /\ left = after /\ Followed(f, next, MemAfter(ph, b, m, a), AddrAfter(ph, b, a))
              /\ Listened(h, want, n + 1)
<1> DEFINE m2 == MemAfter(ph, b, m, a)
           a2 == AddrAfter(ph, b, a)
<1>1. CASE InBits(e, rest, g, want, n, ph, b, m, a, after)
  <2>1. \/ InBits(f, left, h, want, n, ph, b, m, a, after)
        \/ InAck(f, left, h, want, n, ph, b, next, MemAfter(ph, b, m, a), AddrAfter(ph, b, a), after)
    BY <1>1, BitsMove
  <2> QED BY <2>1 DEF InByte
<1>2. CASE InAck(e, rest, g, want, n, ph, b, next, m2, a2, after)
  <2> HIDE DEF m2, a2
  <2>1. \/ InAck(f, left, h, want, n, ph, b, next, m2, a2, after)
        \/ left = after /\ Followed(f, next, m2, a2) /\ Listened(h, want, n + 1)
    BY <1>2, AckMoves
  <2> QED BY <2>1 DEF InByte, m2, a2
<1> QED
  BY <1>1, <1>2 DEF InByte

Starting(t, e, rest, g, m) ==
    \E a \in Address : InStart(e, rest, g, Answer(t, m), 0, m, a, AfterStart(t))
Calling(t, e, rest, g, m) ==
    \E a \in Address : InByte(e, rest, g, Answer(t, m), 0, "device", OwnWrite, "word", m, a, AfterOwn(t))
Addressing(t, e, rest, g, m) ==
    \E a \in Address : InByte(e, rest, g, Answer(t, m), 1, "word", t.addr, "write", m, a, AfterWord(t))
Storing(t, e, rest, g, m) ==
    /\ t.kind = "write"
    /\ InByte(e, rest, g, Answer(t, m), 2, "write", t.value, "write", m, t.addr, StopEdges)
Restarting(t, e, rest, g, m) ==
    t.kind # "write" /\ InStart(e, rest, g, Answer(t, m), 2, m, t.addr, AfterAgain(t))
Asking(t, e, rest, g, m) ==
    /\ t.kind # "write"
    /\ InByte(e, rest, g, Answer(t, m), 2, "device", OwnRead, "read", m, t.addr, AfterAsk(t))
ReadingFirst(t, e, rest, g, m) ==
    t.kind = "readTwo" /\ InRead(e, rest, g, Answer(t, m), 3, m, t.addr, AfterFirst)
Continuing(t, e, rest, g, m) ==
    t.kind = "readTwo" /\ InTurn(e, rest, g, Answer(t, m), 3 + Width, 0, m, t.addr, Reading \o AfterLast)
\* The cell of the last byte, and what was heard before it.
LastCell(t)  == IF t.kind = "readTwo" THEN (t.addr + 1) % Cells ELSE t.addr
ListenedBefore(t) == IF t.kind = "readTwo" THEN 3 + Width ELSE 3
ReadingLast(t, e, rest, g, m) ==
    t.kind # "write" /\ InRead(e, rest, g, Answer(t, m), ListenedBefore(t), m, LastCell(t), AfterLast)
Refusing(t, e, rest, g, m) ==
    /\ t.kind # "write"
    /\ InTurn(e, rest, g, Answer(t, m), ListenedBefore(t) + Width, 1, m, LastCell(t), StopEdges)
Stored(t, m) == IF t.kind = "write" THEN [m EXCEPT ![t.addr] = t.value] ELSE m
Stopping(t, e, rest, g, m) ==
    \E n \in Nat : InStop(e, rest, g, Answer(t, m), n, Stored(t, m))
Stage(t, e, rest, g, m) ==
    \/ Starting(t, e, rest, g, m) \/ Calling(t, e, rest, g, m) \/ Addressing(t, e, rest, g, m)
    \/ Storing(t, e, rest, g, m) \/ Restarting(t, e, rest, g, m) \/ Asking(t, e, rest, g, m)
    \/ ReadingFirst(t, e, rest, g, m) \/ Continuing(t, e, rest, g, m) \/ ReadingLast(t, e, rest, g, m)
    \/ Refusing(t, e, rest, g, m) \/ Stopping(t, e, rest, g, m)

\* The START leads to the device byte,
LEMMA StartingMoves ==
    ASSUME NEW t \in Tasks, NEW e, NEW rest, NEW g, NEW m, NEW f, NEW left, NEW h,
           Starting(t, e, rest, g, m), Does(e, rest, g, f, left, h)
    PROVE  Starting(t, f, left, h, m) \/ Calling(t, f, left, h, m)
<1> DEFINE want == Answer(t, m)
           after == AfterStart(t)
<1>1. PICK a \in Address : InStart(e, rest, g, want, 0, m, a, after)
  BY DEF Starting
<1>2. after \in Seq(Edge) /\ AfterOwn(t) \in Seq(Edge) /\ after = Byte(OwnWrite) \o AfterOwn(t)
  BY AfterTyped DEF AfterStart
<1>3. Starting(t, f, left, h, m) <=> \E c \in Address : InStart(f, left, h, want, 0, m, c, after)
  BY DEF Starting
<1> HIDE DEF want, after
<1>4. \/ InStart(f, left, h, want, 0, m, a, after)
      \/ left = after /\ Between(f, "device", m, a) /\ Listened(h, want, 0)
  <2>1. after \in Seq(Edge)
    BY <1>2
  <2> QED BY <1>1, <2>1, StartMoves
<1>5. CASE left = after /\ Between(f, "device", m, a) /\ Listened(h, want, 0)
  <2>1. InBits(f, left, h, want, 0, "device", OwnWrite, m, a, AfterOwn(t))
    BY <1>2, <1>5, OwnBytes, ByteBegins
  <2> QED BY <2>1 DEF Calling, InByte, want
<1> QED
  BY <1>3, <1>4, <1>5

\* the device byte to the address,
LEMMA CallingMoves ==
    ASSUME NEW t \in Tasks, NEW e, NEW rest, NEW g, NEW m, NEW f, NEW left, NEW h,
           Calling(t, e, rest, g, m), Does(e, rest, g, f, left, h)
    PROVE  Calling(t, f, left, h, m) \/ Addressing(t, f, left, h, m)
<1> DEFINE want == Answer(t, m)
           after == AfterOwn(t)
<1>1. PICK a \in Address : InByte(e, rest, g, want, 0, "device", OwnWrite, "word", m, a, after)
  BY DEF Calling
<1>2. /\ after \in Seq(Edge) /\ AfterWord(t) \in Seq(Edge) /\ after = Byte(t.addr) \o AfterWord(t)
      /\ t.addr \in Address /\ want[0 + 1] = 0
  BY AfterTyped, TaskIs, WantedIs DEF AfterOwn
<1>3. Calling(t, f, left, h, m)
        <=> \E c \in Address : InByte(f, left, h, want, 0, "device", OwnWrite, "word", m, c, after)
  BY DEF Calling
<1> HIDE DEF want, after
<1>4. MemAfter("device", OwnWrite, m, a) = m /\ AddrAfter("device", OwnWrite, a) = a
      /\ Takes("device", OwnWrite, "word")
  BY DEF MemAfter, AddrAfter, Takes
<1>5. \/ InByte(f, left, h, want, 0, "device", OwnWrite, "word", m, a, after)
      \/ left = after /\ Followed(f, "word", m, a) /\ Listened(h, want, 0 + 1)
  <2>1. /\ after \in Seq(Edge) /\ OwnWrite \in Address /\ 0 \in Nat /\ want[0 + 1] = 0
        /\ Takes("device", OwnWrite, "word")
    BY <1>2, <1>4, OwnBytes
  <2>2. \/ InByte(f, left, h, want, 0, "device", OwnWrite, "word", m, a, after)
        \/ /\ left = after
           /\ Followed(f, "word", MemAfter("device", OwnWrite, m, a), AddrAfter("device", OwnWrite, a))
           /\ Listened(h, want, 0 + 1)
    BY <1>1, <2>1, ByteMoves
  <2> QED BY <1>4, <2>2
<1>6. CASE left = after /\ Followed(f, "word", m, a) /\ Listened(h, want, 0 + 1)
  <2>1. Between(f, "word", m, a) /\ Listened(h, want, 1)
    BY <1>6 DEF Between, Followed
  <2>2. InBits(f, left, h, want, 1, "word", t.addr, m, a, AfterWord(t))
    BY <1>2, <1>6, <2>1, ByteBegins
  <2> QED BY <2>2 DEF Addressing, InByte, want
<1> QED
  BY <1>3, <1>5, <1>6

\* the address to the byte to write, or to another START,
LEMMA AddressingMoves ==
    ASSUME NEW t \in Tasks, NEW e, NEW rest, NEW g, NEW m, NEW f, NEW left, NEW h,
           Addressing(t, e, rest, g, m), Does(e, rest, g, f, left, h)
    PROVE  Addressing(t, f, left, h, m) \/ Storing(t, f, left, h, m) \/ Restarting(t, f, left, h, m)
<1> DEFINE want == Answer(t, m)
           after == AfterWord(t)
<1>1. PICK a \in Address : InByte(e, rest, g, want, 1, "word", t.addr, "write", m, a, after)
  BY DEF Addressing
<1>2. /\ after \in Seq(Edge) /\ AfterAgain(t) \in Seq(Edge) /\ StopEdges \in Seq(Edge)
      /\ after = IF t.kind = "write" THEN Byte(t.value) \o StopEdges ELSE StartEdges \o AfterAgain(t)
      /\ t.addr \in Address /\ want[1 + 1] = 0 /\ (t.kind = "write" => t.value \in Address)
  BY AfterTyped, TaskIs, WantedIs, ShortPieces DEF AfterWord
<1>3. Addressing(t, f, left, h, m)
        <=> \E c \in Address : InByte(f, left, h, want, 1, "word", t.addr, "write", m, c, after)
  BY DEF Addressing
<1> HIDE DEF want, after
<1>4. MemAfter("word", t.addr, m, a) = m /\ AddrAfter("word", t.addr, a) = t.addr
      /\ Takes("word", t.addr, "write")
  BY DEF MemAfter, AddrAfter, Takes
<1>5. \/ InByte(f, left, h, want, 1, "word", t.addr, "write", m, a, after)
      \/ left = after /\ Followed(f, "write", m, t.addr) /\ Listened(h, want, 1 + 1)
  <2>1. /\ after \in Seq(Edge) /\ t.addr \in Address /\ 1 \in Nat /\ want[1 + 1] = 0
        /\ Takes("word", t.addr, "write")
    BY <1>2, <1>4
  <2>2. \/ InByte(f, left, h, want, 1, "word", t.addr, "write", m, a, after)
        \/ /\ left = after
           /\ Followed(f, "write", MemAfter("word", t.addr, m, a), AddrAfter("word", t.addr, a))
           /\ Listened(h, want, 1 + 1)
    BY <1>1, <2>1, ByteMoves
  <2> QED BY <1>4, <2>2
<1>6. CASE left = after /\ Followed(f, "write", m, t.addr) /\ Listened(h, want, 1 + 1)
  <2>1. Between(f, "write", m, t.addr) /\ Sits(f, m, t.addr) /\ Listened(h, want, 2)
    BY <1>6 DEF Between, Followed
  <2>2. CASE t.kind = "write"
    <3>1. InBits(f, left, h, want, 2, "write", t.value, m, t.addr, StopEdges)
      BY <1>2, <1>6, <2>1, <2>2, ByteBegins
    <3> QED BY <2>2, <3>1 DEF Storing, InByte, want
  <2>3. CASE t.kind # "write"
    <3>1. InStart(f, left, h, want, 2, m, t.addr, AfterAgain(t))
      BY <1>2, <1>6, <2>1, <2>3, StartBegins
    <3> QED BY <2>3, <3>1 DEF Restarting, want
  <2> QED BY <2>2, <2>3
<1> QED
  BY <1>3, <1>5, <1>6

\* the byte written to the STOP;
LEMMA StoringMoves ==
    ASSUME NEW t \in Tasks, NEW e, NEW rest, NEW g, NEW m, NEW f, NEW left, NEW h,
           Storing(t, e, rest, g, m), Does(e, rest, g, f, left, h)
    PROVE  Storing(t, f, left, h, m) \/ Stopping(t, f, left, h, m)
<1> DEFINE want == Answer(t, m)
           m2 == MemAfter("write", t.value, m, t.addr)
           a2 == AddrAfter("write", t.value, t.addr)
<1>1. t.kind = "write" /\ InByte(e, rest, g, want, 2, "write", t.value, "write", m, t.addr, StopEdges)
  BY DEF Storing
<1>2. StopEdges \in Seq(Edge) /\ t.addr \in Address /\ want[2 + 1] = 0 /\ t.value \in Address
  BY <1>1, TaskIs, WantedIs, ShortPieces
<1>3. Storing(t, f, left, h, m) <=> InByte(f, left, h, want, 2, "write", t.value, "write", m, t.addr, StopEdges)
  BY <1>1 DEF Storing
<1>4. m2 = Stored(t, m) /\ Takes("write", t.value, "write")
  BY <1>1 DEF MemAfter, Stored, Takes
<1> HIDE DEF want
<1>5. \/ InByte(f, left, h, want, 2, "write", t.value, "write", m, t.addr, StopEdges)
      \/ left = StopEdges /\ Followed(f, "write", m2, a2) /\ Listened(h, want, 2 + 1)
  BY <1>1, <1>2, <1>4, ByteMoves
<1> HIDE DEF m2, a2
<1>6. CASE left = StopEdges /\ Followed(f, "write", m2, a2) /\ Listened(h, want, 2 + 1)
  <2>1. Held(f, Stored(t, m)) /\ Listened(h, want, 3)
    BY <1>4, <1>6 DEF Followed, Sits, Held
  <2>2. InStop(f, left, h, want, 3, Stored(t, m))
    BY <1>6, <2>1, StopBegins
  <2> QED BY <2>2 DEF Stopping, want
<1> QED
  BY <1>3, <1>5, <1>6

\* the second START leads to the device byte that reads,
LEMMA RestartingMoves ==
    ASSUME NEW t \in Tasks, NEW e, NEW rest, NEW g, NEW m, NEW f, NEW left, NEW h,
           Restarting(t, e, rest, g, m), Does(e, rest, g, f, left, h)
    PROVE  Restarting(t, f, left, h, m) \/ Asking(t, f, left, h, m)
<1> DEFINE want == Answer(t, m)
           after == AfterAgain(t)
           a == t.addr
<1>1. t.kind # "write" /\ InStart(e, rest, g, want, 2, m, a, after)
  BY DEF Restarting
<1>2. after \in Seq(Edge)
  BY AfterTyped
<1>3. after = Byte(OwnRead) \o AfterAsk(t) /\ AfterAsk(t) \in Seq(Edge)
  BY AfterTyped DEF AfterAgain
<1>4. Restarting(t, f, left, h, m) <=> InStart(f, left, h, want, 2, m, a, after)
  BY <1>1 DEF Restarting
<1> HIDE DEF want, after, a
<1>5. \/ InStart(f, left, h, want, 2, m, a, after)
      \/ left = after /\ Between(f, "device", m, a) /\ Listened(h, want, 2)
  BY <1>1, <1>2, StartMoves
<1>6. CASE left = after /\ Between(f, "device", m, a) /\ Listened(h, want, 2)
  <2>1. InBits(f, left, h, want, 2, "device", OwnRead, m, a, AfterAsk(t))
    BY <1>3, <1>6, OwnBytes, ByteBegins
  <2> QED BY <1>1, <2>1 DEF Asking, InByte, want, a
<1> QED
  BY <1>4, <1>5, <1>6

\* that to the byte read,
LEMMA AskingMoves ==
    ASSUME NEW t \in Tasks, NEW e, NEW rest, NEW g, NEW m, NEW f, NEW left, NEW h,
           Asking(t, e, rest, g, m), Does(e, rest, g, f, left, h)
    PROVE  Asking(t, f, left, h, m) \/ ReadingFirst(t, f, left, h, m) \/ ReadingLast(t, f, left, h, m)
<1> DEFINE want == Answer(t, m)
           after == AfterAsk(t)
           a == t.addr
<1>1. t.kind # "write" /\ InByte(e, rest, g, want, 2, "device", OwnRead, "read", m, a, after)
  BY DEF Asking
<1>2. /\ after \in Seq(Edge) /\ OwnRead \in Address /\ 2 \in Nat /\ want[2 + 1] = 0
      /\ Takes("device", OwnRead, "read")
  BY AfterTyped, OwnBytes, WantedIs DEF Takes
<1>3. /\ after = IF t.kind = "readTwo" THEN Reading \o AfterFirst ELSE Reading \o AfterLast
      /\ AfterFirst \in Seq(Edge) /\ AfterLast \in Seq(Edge)
  BY AfterTyped DEF AfterAsk
<1>4. Asking(t, f, left, h, m) <=> InByte(f, left, h, want, 2, "device", OwnRead, "read", m, a, after)
  BY <1>1 DEF Asking
<1> HIDE DEF want, after, a
<1>5. \/ InByte(f, left, h, want, 2, "device", OwnRead, "read", m, a, after)
      \/ left = after /\ Followed(f, "read", m, a) /\ Listened(h, want, 2 + 1)
  <2>1. \/ InByte(f, left, h, want, 2, "device", OwnRead, "read", m, a, after)
        \/ /\ left = after
           /\ Followed(f, "read", MemAfter("device", OwnRead, m, a), AddrAfter("device", OwnRead, a))
           /\ Listened(h, want, 2 + 1)
    BY <1>1, <1>2, ByteMoves
  <2>2. MemAfter("device", OwnRead, m, a) = m /\ AddrAfter("device", OwnRead, a) = a
    BY DEF MemAfter, AddrAfter
  <2> QED BY <2>1, <2>2
<1>6. CASE left = after /\ Followed(f, "read", m, a) /\ Listened(h, want, 2 + 1)
  <2>1. Sits(f, m, a) /\ f.scl = 0 /\ Showing(f, 0) /\ Listened(h, want, 3)
    BY <1>6 DEF Followed
  <2>2. \A z \in Seq(Edge) : InRead(f, Reading \o z, h, want, 3, m, a, z)
    BY <2>1, ReadBegins
  <2>3. CASE t.kind = "readTwo"
    <3>1. InRead(f, left, h, want, 3, m, a, AfterFirst)
      BY <1>3, <1>6, <2>2, <2>3
    <3> QED BY <2>3, <3>1 DEF ReadingFirst, want, a
  <2>4. CASE t.kind # "readTwo"
    <3>1. InRead(f, left, h, want, 3, m, a, AfterLast)
      BY <1>3, <1>6, <2>2, <2>4
    <3> QED BY <1>1, <2>4, <3>1 DEF ReadingLast, ListenedBefore, LastCell, want, a
  <2> QED BY <2>3, <2>4
<1> QED
  BY <1>4, <1>5, <1>6

\* the first of two to the master's acknowledgement,
LEMMA ReadingFirstMoves ==
    ASSUME NEW t \in Tasks, NEW e, NEW rest, NEW g, NEW m, NEW f, NEW left, NEW h,
           ReadingFirst(t, e, rest, g, m), Does(e, rest, g, f, left, h)
    PROVE  ReadingFirst(t, f, left, h, m) \/ Continuing(t, f, left, h, m)
<1> DEFINE want == Answer(t, m)
           a == t.addr
           more == Reading \o AfterLast
<1>1. t.kind = "readTwo" /\ InRead(e, rest, g, want, 3, m, a, AfterFirst)
  BY DEF ReadingFirst
<1>2. AfterFirst \in Seq(Edge) /\ 3 \in Nat /\ \A k \in 0..Width - 1 : want[3 + k + 1] = Bit(m[a], k)
  BY <1>1, AfterTyped, WantedIs
<1>3. AfterFirst = Clocked(0) \o more /\ more \in Seq(Edge)
  BY AfterTyped DEF AfterFirst
<1>4. ReadingFirst(t, f, left, h, m) <=> InRead(f, left, h, want, 3, m, a, AfterFirst)
  BY <1>1 DEF ReadingFirst
<1> HIDE DEF want, a, more
<1>5. \/ InRead(f, left, h, want, 3, m, a, AfterFirst)
      \/ left = AfterFirst /\ Turning(f, m, a) /\ Listened(h, want, 3 + Width)
  BY <1>1, <1>2, ReadMoves
<1>6. CASE left = AfterFirst /\ Turning(f, m, a) /\ Listened(h, want, 3 + Width)
  <2>1. 0 \in {0, 1} /\ Turning(f, m, a) /\ Listened(h, want, 3 + Width) /\ more \in Seq(Edge)
    BY <1>3, <1>6
  <2>2. InTurn(f, Clocked(0) \o more, h, want, 3 + Width, 0, m, a, more)
    BY <2>1, TurnBegins
  <2>3. InTurn(f, left, h, want, 3 + Width, 0, m, a, more)
    BY <1>3, <1>6, <2>2
  <2> QED BY <1>1, <2>3 DEF Continuing, want, a, more
<1> QED
  BY <1>4, <1>5, <1>6

\* that to the next cell,
LEMMA ContinuingMoves ==
    ASSUME NEW t \in Tasks, NEW e, NEW rest, NEW g, NEW m, NEW f, NEW left, NEW h,
           Continuing(t, e, rest, g, m), Does(e, rest, g, f, left, h)
    PROVE  Continuing(t, f, left, h, m) \/ ReadingLast(t, f, left, h, m)
<1> DEFINE want == Answer(t, m)
           a == t.addr
           more == Reading \o AfterLast
           n == 3 + Width
<1>1. t.kind = "readTwo" /\ InTurn(e, rest, g, want, n, 0, m, a, more)
  BY DEF Continuing
<1>2. more \in Seq(Edge) /\ AfterLast \in Seq(Edge) /\ n \in Nat /\ 0 \in {0, 1}
  BY AfterTyped, WidthIs
<1>3. Continuing(t, f, left, h, m) <=> InTurn(f, left, h, want, n, 0, m, a, more)
  BY <1>1 DEF Continuing
<1>4. n = ListenedBefore(t) /\ (a + 1) % Cells = LastCell(t) /\ more = Reading \o AfterLast
  BY <1>1 DEF ListenedBefore, LastCell
<1> HIDE DEF want, a, more, n
<1>5. \/ InTurn(f, left, h, want, n, 0, m, a, more)
      \/ /\ left = more /\ Held(f, m) /\ f.scl = 0 /\ Listened(h, want, n)
         /\ Showing(f, 0) /\ f.addr = (a + 1) % Cells
  <2> DEFINE x == 0
  <2>1. x \in {0, 1} /\ InTurn(e, rest, g, want, n, x, m, a, more) /\ more \in Seq(Edge)
    BY <1>1, <1>2
  <2>2. x = 0
    OBVIOUS
  <2> HIDE DEF x
  <2>3. \/ InTurn(f, left, h, want, n, x, m, a, more)
        \/ /\ left = more /\ Held(f, m) /\ f.scl = 0 /\ Listened(h, want, n)
           /\ x = 0 => Showing(f, 0) /\ f.addr = (a + 1) % Cells
    BY <2>1, TurnMoves
  <2> QED BY <2>2, <2>3
<1>6. CASE /\ left = more /\ Held(f, m) /\ f.scl = 0 /\ Listened(h, want, n)
           /\ Showing(f, 0) /\ f.addr = (a + 1) % Cells
  <2>1. Sits(f, m, LastCell(t)) /\ Showing(f, 0) /\ f.scl = 0
    BY <1>4, <1>6 DEF Sits, Held
  <2>2. InRead(f, Reading \o AfterLast, h, want, n, m, LastCell(t), AfterLast)
    BY <1>2, <1>6, <2>1, ReadBegins
  <2>3. InRead(f, left, h, want, ListenedBefore(t), m, LastCell(t), AfterLast)
    BY <1>4, <1>6, <2>2
  <2> QED BY <1>1, <2>3 DEF ReadingLast, want
<1> QED
  BY <1>3, <1>5, <1>6

\* the last byte to the master's refusal,
LEMMA ReadingLastMoves ==
    ASSUME NEW t \in Tasks, NEW e, NEW rest, NEW g, NEW m, NEW f, NEW left, NEW h,
           ReadingLast(t, e, rest, g, m), Does(e, rest, g, f, left, h)
    PROVE  ReadingLast(t, f, left, h, m) \/ Refusing(t, f, left, h, m)
<1> DEFINE want == Answer(t, m)
           a == LastCell(t)
           n == ListenedBefore(t)
<1>1. t.kind # "write" /\ InRead(e, rest, g, want, n, m, a, AfterLast)
  BY DEF ReadingLast
<1>2. AfterLast \in Seq(Edge) /\ n \in Nat
  BY AfterTyped, WidthIs DEF ListenedBefore
<1>3. \A k \in 0..Width - 1 : want[n + k + 1] = Bit(m[a], k)
  <2>1. CASE t.kind = "readTwo"
    <3>1. n = 3 + Width /\ a = (t.addr + 1) % Cells
      BY <2>1 DEF ListenedBefore, LastCell
    <3> HIDE DEF n, a
    <3> QED BY <1>1, <3>1, WantedIs
  <2>2. CASE t.kind # "readTwo"
    <3>1. n = 3 /\ a = t.addr
      BY <2>2 DEF ListenedBefore, LastCell
    <3> HIDE DEF n, a
    <3> QED BY <1>1, <3>1, WantedIs
  <2> QED BY <2>1, <2>2
<1>4. ReadingLast(t, f, left, h, m) <=> InRead(f, left, h, want, n, m, a, AfterLast)
  BY <1>1 DEF ReadingLast
<1> HIDE DEF want, a, n
<1>5. \/ InRead(f, left, h, want, n, m, a, AfterLast)
      \/ left = AfterLast /\ Turning(f, m, a) /\ Listened(h, want, n + Width)
  BY <1>1, <1>2, <1>3, ReadMoves
<1>6. CASE left = AfterLast /\ Turning(f, m, a) /\ Listened(h, want, n + Width)
  <2>1. 1 \in {0, 1} /\ StopEdges \in Seq(Edge) /\ AfterLast = Clocked(1) \o StopEdges
    BY ShortPieces DEF AfterLast
  <2>2. InTurn(f, Clocked(1) \o StopEdges, h, want, n + Width, 1, m, a, StopEdges)
    BY <1>6, <2>1, TurnBegins
  <2>3. InTurn(f, left, h, want, n + Width, 1, m, a, StopEdges)
    BY <1>6, <2>1, <2>2
  <2> QED BY <1>1, <2>3 DEF Refusing, want, a, n
<1> QED
  BY <1>4, <1>5, <1>6

\* and that to the STOP.
LEMMA RefusingMoves ==
    ASSUME NEW t \in Tasks, NEW e, NEW rest, NEW g, NEW m, NEW f, NEW left, NEW h,
           Refusing(t, e, rest, g, m), Does(e, rest, g, f, left, h)
    PROVE  Refusing(t, f, left, h, m) \/ Stopping(t, f, left, h, m)
<1> DEFINE want == Answer(t, m)
           a == LastCell(t)
           n == ListenedBefore(t) + Width
<1>1. t.kind # "write" /\ InTurn(e, rest, g, want, n, 1, m, a, StopEdges)
  BY DEF Refusing
<1>2. StopEdges \in Seq(Edge) /\ n \in Nat /\ 1 \in {0, 1} /\ Stored(t, m) = m
  BY <1>1, ShortPieces, WidthIs DEF ListenedBefore, Stored
<1>3. Refusing(t, f, left, h, m) <=> InTurn(f, left, h, want, n, 1, m, a, StopEdges)
  BY <1>1 DEF Refusing
<1> HIDE DEF want, a, n
<1>4. \/ InTurn(f, left, h, want, n, 1, m, a, StopEdges)
      \/ /\ left = StopEdges /\ Held(f, m) /\ f.scl = 0 /\ Listened(h, want, n)
         /\ 1 = 0 => Showing(f, 0) /\ f.addr = (a + 1) % Cells
  BY <1>1, <1>2, TurnMoves
<1>5. CASE left = StopEdges /\ Held(f, m) /\ Listened(h, want, n)
  <2>1. InStop(f, left, h, want, n, Stored(t, m))
    BY <1>2, <1>5, StopBegins
  <2> QED BY <1>2, <2>1 DEF Stopping, want
<1> QED
  BY <1>3, <1>4, <1>5

\* The STOP leads nowhere.
LEMMA StoppingMoves ==
    ASSUME NEW t \in Tasks, NEW e, NEW rest, NEW g, NEW m, NEW f, NEW left, NEW h,
           Stopping(t, e, rest, g, m), Does(e, rest, g, f, left, h)
    PROVE  Stopping(t, f, left, h, m)
BY StopMoves DEF Stopping

\* An edge leads from a stage to a stage.
LEMMA StageMoves ==
    ASSUME NEW t \in Tasks, NEW e, NEW rest, NEW g, NEW m, NEW f, NEW left, NEW h,
           Stage(t, e, rest, g, m), Does(e, rest, g, f, left, h)
    PROVE  Stage(t, f, left, h, m)
<1>1. CASE Starting(t, e, rest, g, m)
  BY <1>1, StartingMoves DEF Stage
<1>2. CASE Calling(t, e, rest, g, m)
  BY <1>2, CallingMoves DEF Stage
<1>3. CASE Addressing(t, e, rest, g, m)
  BY <1>3, AddressingMoves DEF Stage
<1>4. CASE Storing(t, e, rest, g, m)
  BY <1>4, StoringMoves DEF Stage
<1>5. CASE Restarting(t, e, rest, g, m)
  BY <1>5, RestartingMoves DEF Stage
<1>6. CASE Asking(t, e, rest, g, m)
  BY <1>6, AskingMoves DEF Stage
<1>7. CASE ReadingFirst(t, e, rest, g, m)
  BY <1>7, ReadingFirstMoves DEF Stage
<1>8. CASE Continuing(t, e, rest, g, m)
  BY <1>8, ContinuingMoves DEF Stage
<1>9. CASE ReadingLast(t, e, rest, g, m)
  BY <1>9, ReadingLastMoves DEF Stage
<1>10. CASE Refusing(t, e, rest, g, m)
  BY <1>10, RefusingMoves DEF Stage
<1>11. CASE Stopping(t, e, rest, g, m)
  BY <1>11, StoppingMoves DEF Stage
<1> QED
  BY <1>1, <1>2, <1>3, <1>4, <1>5, <1>6, <1>7, <1>8, <1>9, <1>10, <1>11 DEF Stage

(***************************************************************************)
(* What every stage says: the master heard what it should, and the EEPROM  *)
(* holds what it held, but for the byte a write stores.                    *)
(***************************************************************************)
Telling(e, rest, g, want, m) == /\ Wired(e) /\ rest # <<>> /\ e.mem = m
                                /\ \E n \in Nat : Listened(g, want, n)

\* While a piece is not over, neither is the script.
LEMMA AheadSays ==
    ASSUME NEW piece \in Seq(Edge), NEW after \in Seq(Edge), NEW i \in 0..Len(piece) - 1,
           NEW rest, Ahead(rest, piece, i, after)
    PROVE  rest # <<>>
BY AheadMoves

\* In a START,
LEMMA StartSays ==
    ASSUME NEW e, NEW rest, NEW g, NEW want, NEW n \in Nat, NEW m, NEW a, NEW after \in Seq(Edge),
           InStart(e, rest, g, want, n, m, a, after)
    PROVE  Telling(e, rest, g, want, m)
<1>1. PICK i \in 0..3 : Ahead(rest, StartEdges, i, after) /\ StartAt(e, i, m, a) /\ Listened(g, want, n)
  BY DEF InStart
<1>2. StartEdges \in Seq(Edge) /\ i \in 0..Len(StartEdges) - 1
  BY ShortPieces
<1>3. rest # <<>>
  BY <1>1, <1>2, AheadSays
<1> QED
  BY <1>1, <1>3 DEF Telling, StartAt, Sits

\* in the bits of a byte,
LEMMA BitsSay ==
    ASSUME NEW e, NEW rest, NEW g, NEW want, NEW n \in Nat, NEW ph, NEW b \in Address, NEW m, NEW a,
           NEW after \in Seq(Edge), InBits(e, rest, g, want, n, ph, b, m, a, after)
    PROVE  Telling(e, rest, g, want, m)
<1>1. PICK j \in 0..Width - 1, r \in {0, 1, 2} :
        Ahead(rest, Byte(b), 3 * j + r, after) /\ BitsAt(e, ph, b, j, r, m, a) /\ Listened(g, want, n)
  BY DEF InBits
<1>2. Byte(b) \in Seq(Edge) /\ 3 * j + r \in 0..Len(Byte(b)) - 1
  BY BytePiece, WidthIs
<1>3. rest # <<>>
  BY <1>1, <1>2, AheadSays
<1> QED
  BY <1>1, <1>3 DEF Telling, BitsAt, Shifting, Sits

\* in its acknowledgement,
LEMMA AckSays ==
    ASSUME NEW e, NEW rest, NEW g, NEW want, NEW n \in Nat, NEW ph, NEW b \in Address, NEW next, NEW m, NEW a,
           NEW after \in Seq(Edge), InAck(e, rest, g, want, n, ph, b, next, m, a, after)
    PROVE  Telling(e, rest, g, want, m)
<1>1. PICK r \in 0..3 : /\ Ahead(rest, Byte(b), 3 * Width + r, after) /\ AckAt(e, ph, next, r, m, a)
                        /\ Listened(g, want, IF r = 3 THEN n + 1 ELSE n)
  BY DEF InAck
<1>2. Byte(b) \in Seq(Edge) /\ 3 * Width + r \in 0..Len(Byte(b)) - 1
  BY BytePiece, WidthIs
<1>3. rest # <<>>
  BY <1>1, <1>2, AheadSays
<1>4. \E k \in Nat : Listened(g, want, k)
  <2>1. n + 1 \in Nat
    OBVIOUS
  <2> QED BY <1>1, <2>1
<1> QED
  BY <1>1, <1>3, <1>4 DEF Telling, AckAt, Sits

\* in the byte as a whole,
LEMMA ByteSays ==
    ASSUME NEW e, NEW rest, NEW g, NEW want, NEW n \in Nat, NEW ph, NEW b \in Address, NEW next, NEW m, NEW a,
           NEW after \in Seq(Edge), InByte(e, rest, g, want, n, ph, b, next, m, a, after)
    PROVE  Telling(e, rest, g, want, m) \/ Telling(e, rest, g, want, MemAfter(ph, b, m, a))
<1> DEFINE m2 == MemAfter(ph, b, m, a)
           a2 == AddrAfter(ph, b, a)
<1>1. CASE InBits(e, rest, g, want, n, ph, b, m, a, after)
  BY <1>1, BitsSay
<1>2. CASE InAck(e, rest, g, want, n, ph, b, next, m2, a2, after)
  <2> HIDE DEF m2, a2
  <2>1. Telling(e, rest, g, want, m2)
    BY <1>2, AckSays
  <2> QED BY <2>1 DEF m2
<1> QED
  BY <1>1, <1>2 DEF InByte

\* in a byte read,
LEMMA ReadSays ==
    ASSUME NEW e, NEW rest, NEW g, NEW want, NEW n \in Nat, NEW m, NEW a, NEW after \in Seq(Edge),
           InRead(e, rest, g, want, n, m, a, after)
    PROVE  Telling(e, rest, g, want, m)
<1>1. PICK j \in 0..Width - 1, r \in 0..3 :
        /\ Ahead(rest, Reading, 4 * j + r, after) /\ ReadAt(e, j, r, m, a)
        /\ Listened(g, want, IF r = 3 THEN n + j + 1 ELSE n + j)
  BY DEF InRead
<1>2. Reading \in Seq(Edge) /\ 4 * j + r \in 0..Len(Reading) - 1
  BY ReadingPiece, WidthIs
<1>3. rest # <<>>
  BY <1>1, <1>2, AheadSays
<1>4. \E k \in Nat : Listened(g, want, k)
  <2>1. n + j + 1 \in Nat /\ n + j \in Nat
    BY WidthIs
  <2> QED BY <1>1, <2>1
<1> QED
  BY <1>1, <1>3, <1>4 DEF Telling, ReadAt, Sits

\* and in the master's turn.
LEMMA TurnSays ==
    ASSUME NEW e, NEW rest, NEW g, NEW want, NEW n \in Nat, NEW x \in {0, 1}, NEW m, NEW a,
           NEW after \in Seq(Edge), InTurn(e, rest, g, want, n, x, m, a, after)
    PROVE  Telling(e, rest, g, want, m)
<1>1. PICK i \in 0..2 : Ahead(rest, Clocked(x), i, after) /\ TurnAt(e, i, x, m, a) /\ Listened(g, want, n)
  BY DEF InTurn
<1>2. Clocked(x) \in Seq(Edge) /\ i \in 0..Len(Clocked(x)) - 1
  BY ShortPieces
<1>3. rest # <<>>
  BY <1>1, <1>2, AheadSays
<1> QED
  BY <1>1, <1>3 DEF Telling, TurnAt, Sits

Says(t, e, rest, g, m) == /\ Wired(e) /\ \E n \in Nat : Listened(g, Answer(t, m), n)
                          /\ e.mem = m \/ e.mem = Stored(t, m)
                          /\ rest = <<>> => e.mem = Stored(t, m)

\* Either is what a stage says.
LEMMA TellingSays ==
    ASSUME NEW t, NEW e, NEW rest, NEW g, NEW m,
           Telling(e, rest, g, Answer(t, m), m) \/ Telling(e, rest, g, Answer(t, m), Stored(t, m))
    PROVE  Says(t, e, rest, g, m)
BY DEF Telling, Says

\* So every stage says it.
LEMMA StageSays ==
    ASSUME NEW t \in Tasks, NEW e, NEW rest, NEW g, NEW m, Stage(t, e, rest, g, m)
    PROVE  Says(t, e, rest, g, m)
<1> DEFINE want == Answer(t, m)
<1>0. /\ AfterLast \in Seq(Edge) /\ AfterFirst \in Seq(Edge) /\ Reading \o AfterLast \in Seq(Edge)
      /\ AfterAsk(t) \in Seq(Edge) /\ AfterAgain(t) \in Seq(Edge) /\ AfterWord(t) \in Seq(Edge)
      /\ AfterOwn(t) \in Seq(Edge) /\ AfterStart(t) \in Seq(Edge) /\ StopEdges \in Seq(Edge)
      /\ t.addr \in Address /\ OwnWrite \in Address /\ OwnRead \in Address
      /\ ListenedBefore(t) \in Nat /\ ListenedBefore(t) + Width \in Nat /\ 3 + Width \in Nat
  <2>1. ListenedBefore(t) \in Nat /\ ListenedBefore(t) + Width \in Nat /\ 3 + Width \in Nat
    BY WidthIs DEF ListenedBefore
  <2>2. StopEdges \in Seq(Edge)
    BY ShortPieces
  <2>3. t.addr \in Address /\ OwnWrite \in Address /\ OwnRead \in Address
    BY TaskIs, OwnBytes
  <2> QED BY <2>1, <2>2, <2>3, AfterTyped
<1>a. \A b, a : MemAfter("device", b, m, a) = m /\ MemAfter("word", b, m, a) = m
  BY DEF MemAfter
<1>1. CASE Starting(t, e, rest, g, m)
  <2>1. PICK a \in Address : InStart(e, rest, g, want, 0, m, a, AfterStart(t))
    BY <1>1 DEF Starting
  <2> HIDE DEF want
  <2>2. Telling(e, rest, g, want, m)
    BY <1>0, <2>1, StartSays
  <2> QED BY <2>2, TellingSays DEF want
<1>2. CASE Calling(t, e, rest, g, m)
  <2>1. PICK a \in Address : InByte(e, rest, g, want, 0, "device", OwnWrite, "word", m, a, AfterOwn(t))
    BY <1>2 DEF Calling
  <2> HIDE DEF want
  <2>2. Telling(e, rest, g, want, m) \/ Telling(e, rest, g, want, MemAfter("device", OwnWrite, m, a))
    BY <1>0, <2>1, ByteSays
  <2>3. Telling(e, rest, g, want, m)
    BY <1>a, <2>2
  <2> QED BY <2>3, TellingSays DEF want
<1>3. CASE Addressing(t, e, rest, g, m)
  <2>1. PICK a \in Address : InByte(e, rest, g, want, 1, "word", t.addr, "write", m, a, AfterWord(t))
    BY <1>3 DEF Addressing
  <2> HIDE DEF want
  <2>2. Telling(e, rest, g, want, m) \/ Telling(e, rest, g, want, MemAfter("word", t.addr, m, a))
    BY <1>0, <2>1, ByteSays
  <2>3. Telling(e, rest, g, want, m)
    BY <1>a, <2>2
  <2> QED BY <2>3, TellingSays DEF want
<1>4. CASE Storing(t, e, rest, g, m)
  <2>1. t.kind = "write" /\ InByte(e, rest, g, want, 2, "write", t.value, "write", m, t.addr, StopEdges)
    BY <1>4 DEF Storing
  <2>2. t.value \in Address
    BY <2>1, TaskIs
  <2> HIDE DEF want
  <2>3. Telling(e, rest, g, want, m) \/ Telling(e, rest, g, want, MemAfter("write", t.value, m, t.addr))
    BY <1>0, <2>1, <2>2, ByteSays
  <2>4. MemAfter("write", t.value, m, t.addr) = Stored(t, m)
    BY <2>1 DEF MemAfter, Stored
  <2> QED BY <2>3, <2>4, TellingSays DEF want
<1>5. CASE Restarting(t, e, rest, g, m)
  <2>1. InStart(e, rest, g, want, 2, m, t.addr, AfterAgain(t))
    BY <1>5 DEF Restarting
  <2> HIDE DEF want
  <2>2. Telling(e, rest, g, want, m)
    BY <1>0, <2>1, StartSays
  <2> QED BY <2>2, TellingSays DEF want
<1>6. CASE Asking(t, e, rest, g, m)
  <2>1. InByte(e, rest, g, want, 2, "device", OwnRead, "read", m, t.addr, AfterAsk(t))
    BY <1>6 DEF Asking
  <2> HIDE DEF want
  <2>2. Telling(e, rest, g, want, m) \/ Telling(e, rest, g, want, MemAfter("device", OwnRead, m, t.addr))
    BY <1>0, <2>1, ByteSays
  <2>3. Telling(e, rest, g, want, m)
    BY <1>a, <2>2
  <2> QED BY <2>3, TellingSays DEF want
<1>7. CASE ReadingFirst(t, e, rest, g, m)
  <2>1. InRead(e, rest, g, want, 3, m, t.addr, AfterFirst)
    BY <1>7 DEF ReadingFirst
  <2> HIDE DEF want
  <2>2. Telling(e, rest, g, want, m)
    BY <1>0, <2>1, ReadSays
  <2> QED BY <2>2, TellingSays DEF want
<1>8. CASE Continuing(t, e, rest, g, m)
  <2>1. InTurn(e, rest, g, want, 3 + Width, 0, m, t.addr, Reading \o AfterLast)
    BY <1>8 DEF Continuing
  <2> HIDE DEF want
  <2>2. Telling(e, rest, g, want, m)
    BY <1>0, <2>1, TurnSays
  <2> QED BY <2>2, TellingSays DEF want
<1>9. CASE ReadingLast(t, e, rest, g, m)
  <2>1. InRead(e, rest, g, want, ListenedBefore(t), m, LastCell(t), AfterLast)
    BY <1>9 DEF ReadingLast
  <2> HIDE DEF want
  <2>2. Telling(e, rest, g, want, m)
    BY <1>0, <2>1, ReadSays
  <2> QED BY <2>2, TellingSays DEF want
<1>10. CASE Refusing(t, e, rest, g, m)
  <2>1. InTurn(e, rest, g, want, ListenedBefore(t) + Width, 1, m, LastCell(t), StopEdges)
    BY <1>10 DEF Refusing
  <2> HIDE DEF want
  <2>2. Telling(e, rest, g, want, m)
    BY <1>0, <2>1, TurnSays
  <2> QED BY <2>2, TellingSays DEF want
<1>11. CASE Stopping(t, e, rest, g, m)
  BY <1>11 DEF Stopping, InStop, Held, Says
<1> QED
  BY <1>1, <1>2, <1>3, <1>4, <1>5, <1>6, <1>7, <1>8, <1>9, <1>10, <1>11 DEF Stage

(***************************************************************************)
(* The inductive invariant: the bus stands somewhere in the script of the  *)
(* transaction, as told in terms of what the EEPROM held when it began.    *)
(***************************************************************************)
BusInv == /\ Wired(eeprom) /\ told \in [Address -> Address]
          /\ \/ task = NoTask /\ todo = <<>>
             \/ task \in Tasks /\ Stage(task, eeprom, todo, got, told)

\* It holds at first,
LEMMA BusStarts == BusInit => BusInv
<1> SUFFICES ASSUME BusInit PROVE BusInv
  OBVIOUS
<1>1. EepromInit.mem \in [Address -> Address]
  BY WidthIs DEF EepromInit, Address
<1>2. Wired(EepromInit)
  <2>1. 0 \in Address
    BY WidthIs DEF Address
  <2> QED BY <1>1, <2>1 DEF EepromInit, Wired, EepromFields
<1> QED
  BY <1>1, <1>2 DEF BusInit, BusInv

\* when a transaction begins, wherever the one before stopped,
LEMMA BegunHolds ==
    ASSUME BusInv, Begins
    PROVE  BusInv'
<1>1. PICK t \in Tasks : task' = t /\ todo' = Edges(t)
  BY DEF Begins
<1>2. got' = <<>> /\ told' = eeprom.mem /\ eeprom' = eeprom
  BY DEF Begins
<1>3. Wired(eeprom) /\ eeprom.mem \in [Address -> Address] /\ eeprom.addr \in Address
  BY DEF BusInv, Wired
<1> DEFINE m == eeprom.mem
           a == eeprom.addr
           want == Answer(t, m)
           after == AfterStart(t)
           none == <<>>
<1>4. Sits(eeprom, m, a) /\ after \in Seq(Edge)
  BY <1>3, AfterTyped DEF Sits
<1>5. Listened(none, want, 0)
  BY DEF Listened
<1>6. todo' = StartEdges \o after
  BY <1>1, EdgesAre
<1> HIDE DEF m, a, want, after, none
<1>7. InStart(eeprom, StartEdges \o after, none, want, 0, m, a, after)
  BY <1>4, <1>5, StartBegins
<1>8. InStart(eeprom', todo', got', want, 0, m, a, after)
  BY <1>2, <1>6, <1>7 DEF none
<1>9. Starting(t, eeprom', todo', got', m)
  BY <1>3, <1>8 DEF Starting, a, want, after
<1>10. Stage(task', eeprom', todo', got', told')
  BY <1>1, <1>2, <1>9 DEF Stage, m
<1> QED
  BY <1>1, <1>2, <1>3, <1>10 DEF BusInv

\* at every edge of it,
LEMMA DrivenHolds ==
    ASSUME BusInv, Drives
    PROVE  BusInv'
<1>1. task' = task /\ told' = told /\ todo # <<>> /\ Does(eeprom, todo, got, eeprom', todo', got')
  BY DEF Drives, Does, Driven, Taken
<1>2. task \in Tasks /\ Stage(task, eeprom, todo, got, told) /\ told \in [Address -> Address]
  BY <1>1 DEF BusInv
<1>3. Stage(task, eeprom', todo', got', told)
  BY <1>1, <1>2, StageMoves
<1>4. Wired(eeprom')
  BY <1>2, <1>3, StageSays DEF Says
<1> QED
  BY <1>1, <1>2, <1>3, <1>4 DEF BusInv

\* so at every step,
LEMMA BusKeeps == BusInv /\ [BusNext]_eepromVars => BusInv'
<1> SUFFICES ASSUME BusInv, [BusNext]_eepromVars PROVE BusInv'
  OBVIOUS
<1>1. CASE Begins
  BY <1>1, BegunHolds
<1>2. CASE Drives
  BY <1>2, DrivenHolds
<1>3. CASE UNCHANGED eepromVars
  BY <1>3 DEF eepromVars, BusInv
<1> QED
  BY <1>1, <1>2, <1>3 DEF BusNext

\* and it gives what the EEPROM promises.
LEMMA BusAnswers == BusInv => EepromAnswers
<1> SUFFICES ASSUME BusInv, task # NoTask PROVE EepromAnswers
  BY DEF EepromAnswers
<1>1. task \in Tasks /\ Says(task, eeprom, todo, got, told) /\ told \in [Address -> Address]
  BY StageSays DEF BusInv
<1>2. task.addr \in Address /\ task.kind \in {"write", "read", "readTwo"}
  BY <1>1, TaskIs
<1>3. Expected(task) = Answer(task, told)
  BY DEF Expected, Answer
<1>4. \A k \in DOMAIN got : got[k] = Expected(task)[k]
  <2>1. PICK n \in Nat : Listened(got, Answer(task, told), n)
    BY <1>1 DEF Says
  <2>2. DOMAIN got = 1..n /\ \A k \in 1..n : got[k] = Answer(task, told)[k]
    BY <2>1, LenProperties DEF Listened
  <2> QED BY <1>3, <2>2
<1>5. eeprom.mem = told \/ eeprom.mem = Stored(task, told)
  BY <1>1 DEF Says
<1>6. CASE task.kind = "write"
  <2>1. Stored(task, told) = [told EXCEPT ![task.addr] = task.value]
    BY <1>6 DEF Stored
  <2>2. \A c \in Address : c # task.addr => eeprom.mem[c] = told[c]
    BY <1>1, <1>5, <2>1
  <2>3. Changed \subseteq {task.addr}
    BY <2>2 DEF Changed, Address
  <2>4. todo = <<>> => eeprom.mem[task.addr] = task.value
    BY <1>1, <1>2, <2>1 DEF Says
  <2> QED BY <1>4, <1>6, <2>3, <2>4 DEF EepromAnswers
<1>7. CASE task.kind # "write"
  <2>1. eeprom.mem = told
    BY <1>5, <1>7 DEF Stored
  <2>2. Changed = {}
    BY <2>1 DEF Changed
  <2> QED BY <1>4, <1>7, <2>2 DEF EepromAnswers
<1> QED
  BY <1>6, <1>7

(***************************************************************************)
(* Wherever the transaction before was cut off, each byte of the next is   *)
(* acknowledged, a read returns what its cells hold, and a write changes   *)
(* its own cell, for bytes and memories of every size (eeprom_set_scl,     *)
(* eeprom_set_sda).                                                        *)
(***************************************************************************)
THEOREM EepromKeepsItsWord == BusSpec => []EepromAnswers
<1>1. BusInit => BusInv
  BY BusStarts
<1>2. BusInv /\ [BusNext]_eepromVars => BusInv'
  BY BusKeeps
<1>3. BusInv => EepromAnswers
  BY BusAnswers
<1> QED
  BY <1>1, <1>2, <1>3, PTL DEF BusSpec
================================================================================
