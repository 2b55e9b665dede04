------------------------------- MODULE TransferPipe ----------------------------
(***************************************************************************)
(* What the host is promised for bulk OUT from the transfers it submits to *)
(* the bytes the guest reads: the bytes come out in order, each once; a    *)
(* cancelled transfer loses its last bytes and no other transfer any; a    *)
(* reset loses what is in the way at that moment.  The i-th byte of a      *)
(* transfer is the pair of its id and i.                                   *)
(***************************************************************************)
EXTENDS Naturals, Sequences

CONSTANTS
    Id,     \* transfer ids; the host may use one again
    MaxLen  \* length of the longest transfer

VARIABLES
    items,   \* the bytes under way
    last     \* the last byte the guest read since the last reset

vars == <<items, last>>

Bytes(id, n) == [i \in 1..n |-> <<id, i>>]

Init == items = <<>> /\ last = <<>>

Submit ==
    /\ \E id \in Id, n \in 1..MaxLen : items' = items \o Bytes(id, n)
    /\ UNCHANGED last

Get ==
    /\ items # <<>>
    /\ last' = <<Head(items)>>
    /\ items' = Tail(items)

\* Bytes a to b are the end of one transfer.
EndOfTransfer(a, b) ==
    /\ \A i \in a..b : items[i] = <<items[a][1], items[a][2] + (i - a)>>
    /\ b < Len(items) => items[b + 1][2] = 1

Cancel ==
    /\ \E a \in 1..Len(items) : \E b \in a..Len(items) :
         /\ EndOfTransfer(a, b)
         /\ items' = SubSeq(items, 1, a - 1) \o SubSeq(items, b + 1, Len(items))
    /\ UNCHANGED last

Reset ==
    /\ \E n \in 0..Len(items) : items' = SubSeq(items, n + 1, Len(items))
    /\ last' = <<>>

Next == Submit \/ Get \/ Cancel \/ Reset
Spec == Init /\ [][Next]_vars
================================================================================
