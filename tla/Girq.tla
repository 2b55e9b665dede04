--------------------------------- MODULE Girq ----------------------------------
(***************************************************************************)
(* How the companion's sources reach the CPU (src/be300_devices.c,         *)
(* src/devices/input.c, src/devices/nand_window.c): every source has a     *)
(* word in the block AA000010..AA000040 whose bit 3 enables it in the      *)
(* summary AA000004 and whose bits 2 and 3 let it drive GIU line 0, while  *)
(* bit 0 of AA000008 lets any of them.  The device keeps the level it last *)
(* gave the line and changes it only where the code asks it to look again. *)
(*   latch    out: AA000008 bit 0;  word: the bits set in the source word  *)
(*   buttons  the keys and the power switch down, and the pending change   *)
(*   card     the CompactFlash socket: whether a card is in, the two       *)
(*            reasons of a state change (irq_pending, state_change_pending)*)
(*            the insertion edge of AA001B50, the card's own request       *)
(*   jacket   socket 1's controller: powered (AA001B00 bit 0), its enable  *)
(*            and latched cause, the mask AA001B58 bit 3, the card's level *)
(***************************************************************************)
EXTENDS Integers

Bits == {2, 3}
Enabled(l)  == 3 \in l.word
LineLive(l) == l.out /\ Bits \subseteq l.word

--------------------------------------------------------------------------------
(***************************************************************************)
(* The buttons keep copies of their enable and of LineLive, refreshed with *)
(* every write to the block.                                               *)
(***************************************************************************)
NoButtons == [keys |-> {}, power |-> FALSE, pending |-> FALSE, on |-> FALSE, live |-> FALSE]

ButtonLine(b)   == b.pending /\ b.on /\ b.live
SourceEnabled(b, l) == [b EXCEPT !.on = Enabled(l), !.live = LineLive(l)]
AckKeyboard(b)  == [b EXCEPT !.pending = FALSE]

PowerReleaseOnly(b, keys, power) == keys = b.keys /\ b.power /\ ~power
SetButtons(b, keys, power) ==
    [b EXCEPT !.keys = keys, !.power = power,
              !.pending = @ \/ /\ keys # b.keys \/ power # b.power
                               /\ ~PowerReleaseOnly(b, keys, power)]

--------------------------------------------------------------------------------
(***************************************************************************)
(* The card in the CompactFlash socket.                                    *)
(***************************************************************************)
NoCard == [in |-> FALSE, irq |-> FALSE, change |-> FALSE, edge |-> FALSE, request |-> FALSE]

GiuSource(c)  == c.in /\ (c.irq \/ c.change \/ c.request)
Insert(c)     == [c EXCEPT !.in = TRUE, !.irq = TRUE, !.change = TRUE, !.edge = TRUE,
                           !.request = FALSE]
\* cf_eject returns at once without a card.
Eject(c)      == IF ~c.in THEN c
                 ELSE [c EXCEPT !.in = FALSE, !.irq = TRUE, !.change = TRUE, !.edge = FALSE,
                                !.request = FALSE]
\* As if the acknowledgement cleared the state change too.
ClearCardIrq_Both(c) == [c EXCEPT !.irq = FALSE, !.change = FALSE]
ClearCardIrq(c) == [c EXCEPT !.irq = FALSE]
ConsumeChange(c) == [c EXCEPT !.change = FALSE]
\* AA00A03C, whose bits 0x22 mean that the card's state changed.
StateCause(c) == c.in /\ (c.irq \/ c.change)
\* AA001B50 bit 3 once per insertion; a write of the bit acknowledges it too.
EdgeRead(c)   == c.in /\ c.edge
EdgeTaken(c)  == [c EXCEPT !.edge = FALSE]

--------------------------------------------------------------------------------
(***************************************************************************)
(* The jacket's socket.  cause latches whenever the controller looks while *)
(* the card is up and requests; reading it clears it byte by byte, so that *)
(* a request that still stands latches it again at once.                   *)
(***************************************************************************)
NoJacket == [card |-> FALSE, up |-> FALSE, on |-> FALSE, enable |-> FALSE,
             unmask |-> FALSE, cause |-> FALSE, request |-> FALSE]

CardUp(j)  == j.card /\ j.on /\ j.up
Looked(j)  == [j EXCEPT !.cause = @ \/ (CardUp(j) /\ j.request)]
\* jacket_irq_line looks only when the tests before it in the && hold.
LineLooked(j, l) == IF j.on /\ j.enable THEN Looked(j) ELSE j
JacketLine(j, l) == j.on /\ j.enable /\ Looked(j).cause /\ j.unmask /\ Enabled(l) /\ LineLive(l)
CauseRead(j) == IF j.on THEN [j EXCEPT !.cause = FALSE] ELSE j
================================================================================
