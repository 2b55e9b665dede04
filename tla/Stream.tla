--------------------------------- MODULE Stream --------------------------------
(***************************************************************************)
(* What one direction of a serial line promises: bytes come out in the     *)
(* order they went in, each once.  What is lost is lost from the front, as *)
(* one visible event: it forgets what came out last.                       *)
(***************************************************************************)
EXTENDS Naturals, Sequences

CONSTANT Byte

VARIABLES
    items,  \* the bytes under way
    last    \* what the last Take took; <<>> after a loss

Init == items = <<>> /\ last = <<>>

Put ==
    /\ items' \in Seq(Byte)
    /\ Len(items') > Len(items)
    /\ SubSeq(items', 1, Len(items)) = items
    /\ UNCHANGED last

Take ==
    \E n \in 1..Len(items) :
        /\ last' = SubSeq(items, 1, n)
        /\ items' = SubSeq(items, n + 1, Len(items))

Lose ==
    /\ last' = <<>>
    /\ \E n \in 0..Len(items) : items' = SubSeq(items, n + 1, Len(items))

Next == Put \/ Take \/ Lose
Spec == Init /\ [][Next]_<<items, last>>
================================================================================
