---------------------------------- MODULE Pipe ---------------------------------
(***************************************************************************)
(* What a FIFO between the guest and the USB bus promises: items come out  *)
(* in the order they went in, each once, and are lost only when the pipe   *)
(* is reset, which ends one session and begins the next.                   *)
(***************************************************************************)
EXTENDS Naturals, Sequences

CONSTANT Item

VARIABLES
    q,       \* the items put in and not yet taken
    last,    \* what the last Get took
    session  \* changes with every reset of the pipe

vars == <<q, last, session>>

Init == q = <<>> /\ last = <<>> /\ session \in {0, 1}

Put ==
    /\ Len(q') > Len(q)
    /\ q' \in Seq(Item)
    /\ SubSeq(q', 1, Len(q)) = q
    /\ UNCHANGED <<last, session>>

Get ==
    /\ \E n \in 1..Len(q) :
         /\ last' = SubSeq(q, 1, n)
         /\ q' = SubSeq(q, n + 1, Len(q))
    /\ UNCHANGED session

Reset ==
    /\ session' = 1 - session
    /\ q' = <<>>
    /\ UNCHANGED last

Next == Put \/ Get \/ Reset

Spec == Init /\ [][Next]_vars
================================================================================
