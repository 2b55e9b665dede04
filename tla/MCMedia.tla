-------------------------------- MODULE MCMedia --------------------------------
(***************************************************************************)
(* What the machine stores, the CompactFlash card and the NAND chip and    *)
(* the files they come from, and the network cards that take the card's    *)
(* place.  A behaviour is of one part.                                     *)
(***************************************************************************)
EXTENDS CfSlot, NandGuest, NetCards, TLC

VARIABLE part
mediaVars == <<cfVars, nandVars, netVars, part>>

MediaInit == /\ part \in {"card", "nand", "network"} /\ CfInit /\ NandStart /\ NetInit
             /\ part # "card" => plan = CHOOSE p \in Plans : Deferred(p)
             /\ part # "nand" => image.oob
             /\ part # "network" => card = "ne2000"
MediaNext == \/ part = "card" /\ CfNext /\ UNCHANGED <<nandVars, netVars, part>>
             \/ part = "nand" /\ NandNext /\ UNCHANGED <<cfVars, netVars, part>>
             \/ part = "network" /\ NetNext /\ UNCHANGED <<cfVars, nandVars, part>>
MediaSpec == MediaInit /\ [][MediaNext]_mediaVars

Whole == Blocks * BlockPages
Written == [c \in 0..PageCells - 1 |-> IF c = 2 THEN Tagged ELSE {(c % 2) + 1}]
MarkedBad == [BlankChip EXCEPT ![1] = Written, ![BlockPages] = [@ EXCEPT ![2] = {2}]]
SomeImages == {[oob |-> TRUE, cells |-> MarkedBad, pages |-> Whole],
               [oob |-> FALSE, cells |-> BlankChip, pages |-> BlockPages]}
SomePatterns == {<<{1}, {2}, {}, {2}>>, <<{2}, {2}>>}

SomePlans == {[eject |-> 0, insert |-> 1, net |-> 0], [eject |-> 1, insert |-> 0, net |-> 2],
              [eject |-> 1, insert |-> 2, net |-> 2]}
Shapes(to, cells) == [to : to, cells : cells]
NetworkTraffic ==
    [ne2000 |-> Shapes({"us", "group"}, 1..2), xi825 |-> Shapes({"us"}, 1..2),
     wl54cf |-> Shapes({"us", "group"}, {1})] @@ ("3c589" :> Shapes({"us", "group"}, 1..2))
NetworkFrames == [ne2000 |-> 3, xi825 |-> 2, wl54cf |-> 2] @@ ("3c589" :> 3)
NetworkChanges == [ne2000 |-> 1, xi825 |-> 2, wl54cf |-> 2] @@ ("3c589" :> 2)

AllPlans == [eject : 0..MaxTime, insert : 0..MaxTime, net : 0..MaxTime]
================================================================================
