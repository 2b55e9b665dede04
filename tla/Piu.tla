---------------------------------- MODULE Piu ----------------------------------
(***************************************************************************)
(* The touch-panel interface unit of the companion chip (src/hw/piu.c): a  *)
(* sequencer that watches the pen, a one-deep queue of contact changes and *)
(* two pages of coordinates.  A PIU is a record; every operator is one     *)
(* function of the source.                                                 *)
(*   ctl      what PIUCNTREG asks for, a subset of Controls                *)
(*   pend     PIUINTREG's pending half, mask its enables                   *)
(*   state    the sequencer's state (padstate)                             *)
(*   penstc   the contact the pending change reports; queued the next one  *)
(*   down     the pen as the host last set it                              *)
(*   valid    the pages that hold a sample                                 *)
(*   next     the page to fill next                                        *)
(*   armed    a conversion is under way, ripe: its time has come           *)
(*   adc      the A/D side was on when PIUCNTREG was last written          *)
(* Times (scan interval, stabilising, conversion) become armed and ripe;   *)
(* where the pen is, and so what a page holds, is left out.                *)
(***************************************************************************)
EXTENDS FiniteSets, Integers

Controls   == {"seqen", "atstart", "atstop", "scanstart", "adport"}
Pages      == {"page0", "page1"}
Coordinate == Pages \cup {"lost"}
Events     == Coordinate \cup {"penchg", "adport"}
Scanning   == {"data", "interval"}

PiuReset(down) ==
    [ctl |-> {}, pend |-> {}, mask |-> {}, state |-> "disable", penstc |-> FALSE,
     queued |-> "none", down |-> down, valid |-> {}, next |-> "page0",
     armed |-> FALSE, ripe |-> FALSE, adc |-> FALSE]

Arm(p)    == [p EXCEPT !.armed = TRUE, !.ripe = FALSE]
Disarm(p) == [p EXCEPT !.armed = FALSE, !.ripe = FALSE]
Other(g)  == IF g = "page0" THEN "page1" ELSE "page0"

\* As if a second queued change did not replace the first.
RaisePenchg_KeepsFirst(p, down) ==
    IF "penchg" \in p.pend /\ p.queued # "none" THEN p
    ELSE IF "penchg" \in p.pend THEN [p EXCEPT !.queued = IF down THEN "down" ELSE "up"]
    ELSE [p EXCEPT !.penstc = down, !.pend = @ \cup {"penchg"}]

\* The one queue entry keeps the latest change that was not reported.
RaisePenchg(p, down) ==
    IF "penchg" \in p.pend
    THEN [p EXCEPT !.queued = IF down THEN "down" ELSE "up"]
    ELSE [p EXCEPT !.penstc = down, !.pend = @ \cup {"penchg"}]

ClearCoordinates(p) ==
    Disarm([p EXCEPT !.pend = @ \ Coordinate, !.valid = {}, !.next = "page0"])

WaitPenEnabled(p) == {"seqen", "atstart"} \subseteq p.ctl /\ "adport" \notin p.ctl /\ p.adc

SignalPenDown(p) ==
    LET c == ClearCoordinates(p)
        d == IF p.state = "wait" /\ "atstart" \in p.ctl
             THEN Arm([c EXCEPT !.state = "data"]) ELSE c
    IN RaisePenchg(d, TRUE)

SignalPenUp(p) ==
    LET on    == WaitPenEnabled(p)
        watch == on \/ p.state \in {"wait"} \cup Scanning
        d     == Disarm([p EXCEPT !.state = CASE on -> "wait"
                                              [] ~on /\ p.state # "disable" -> "standby"
                                              [] OTHER -> @])
    IN IF on /\ p.state \in Scanning /\ "atstop" \notin p.ctl
       THEN RaisePenchg(p, FALSE)
       ELSE IF watch THEN RaisePenchg(d, FALSE) ELSE d

PageFree(p, g) == g \notin p.pend /\ g \notin p.valid

\* queue_coordinate_sample, which every tick and every register read runs.
PiuTick(p) ==
    IF ~(p.down /\ p.state \in Scanning /\ p.armed /\ p.ripe) THEN p
    ELSE IF ~\E g \in Pages : PageFree(p, g)
    THEN Disarm([p EXCEPT !.pend = @ \cup {"lost"}, !.state = "standby"])
    ELSE LET g == IF PageFree(p, p.next) THEN p.next ELSE Other(p.next)
         IN Arm([p EXCEPT !.valid = @ \cup {g}, !.next = Other(g), !.pend = @ \cup {g},
                          !.state = "interval"])

\* As if a pen that is already down at the restart were not looked at.
RefreshControl_IgnoresPen(p) ==
    LET q == IF p.state = "disable" /\ p.ctl # {} THEN [p EXCEPT !.state = "standby"] ELSE p
    IN IF WaitPenEnabled(q) /\ (q.state # "standby" \/ q.pend \cap Coordinate = {})
       THEN IF q.state \in Scanning THEN q ELSE [q EXCEPT !.state = "wait"]
       ELSE IF "seqen" \notin q.ctl /\ q.state \in {"wait"} \cup Scanning
       THEN [ClearCoordinates(q) EXCEPT !.state = "standby"] ELSE q

RefreshControl(p) ==
    LET q == IF p.state = "disable" /\ p.ctl # {} THEN [p EXCEPT !.state = "standby"] ELSE p
        w == IF q.state \in {"disable", "standby"} THEN [q EXCEPT !.state = "wait"] ELSE q
    IN IF WaitPenEnabled(q)
       THEN IF q.state = "standby" /\ q.pend \cap Coordinate # {} THEN q
            ELSE IF w.down /\ w.state = "wait" THEN SignalPenDown(w) ELSE w
       ELSE IF /\ {"seqen", "scanstart"} \subseteq q.ctl /\ "adport" \notin q.ctl
               /\ q.adc /\ q.state = "standby"
       THEN IF q.down THEN Arm([q EXCEPT !.state = "data"]) ELSE [q EXCEPT !.state = "data"]
       ELSE IF "seqen" \notin q.ctl /\ q.state \in {"wait"} \cup Scanning
       THEN [ClearCoordinates(q) EXCEPT !.state = "standby"]
       ELSE q

\* piu_set_touch
SetTouch(p, down) ==
    LET q == [p EXCEPT !.down = down] IN
    IF q.state = "wait" /\ down /\ ~p.down THEN SignalPenDown(q)
    ELSE IF ~down /\ p.down THEN SignalPenUp(q)
    ELSE PiuTick(q)

\* PIUCNTREG, which samples the A/D enable first (be300_touch_handle).
WriteCnt(p, ctl, rst, adcword) ==
    LET a == [p EXCEPT !.adc = adcword]
        r == RefreshControl([a EXCEPT !.ctl = ctl])
    IN IF rst THEN PiuReset(p.down)
       ELSE IF {"seqen", "adport"} \subseteq ctl /\ r.adc
       THEN [r EXCEPT !.pend = @ \cup {"adport"}] ELSE r

\* PIUINTREG: acknowledges acks and sets the enables.
WriteInt(p, acks, mask) ==
    LET q == [p EXCEPT !.pend = @ \ acks, !.mask = mask, !.valid = @ \ acks]
        c == IF "penchg" \notin acks THEN q
             ELSE IF q.queued # "none"
             THEN [q EXCEPT !.penstc = q.queued = "down", !.queued = "none",
                            !.pend = @ \cup {"penchg"}]
             ELSE [q EXCEPT !.penstc = p.down]
    IN IF p.pend \cap acks \cap Pages # {} /\ p.down /\ p.state \in Scanning /\ ~p.armed
       THEN Arm(c) ELSE c

PiuPending(p) == p.pend \cap p.mask # {}
================================================================================
