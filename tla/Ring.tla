---------------------------------- MODULE Ring ---------------------------------
(***************************************************************************)
(* The circular buffer the USB code uses three times: the receive FIFO of  *)
(* EP2 and the transmit FIFO of EP1 in src/hw/usbf.c and the transfer      *)
(* queue of src/usbredir_dev.c.  A ring is a record of N slots, the slot   *)
(* of the oldest item and the number of items.  A slot keeps what was last *)
(* written to it after its item is gone.                                   *)
(***************************************************************************)
EXTENDS Naturals, Sequences

CONSTANTS
    N,      \* number of slots
    W       \* the count is an unsigned number modulo W

ASSUME RingAssumption ==
    /\ N \in Nat \ {0}
    /\ W \in Nat
    /\ N < W

Slots == 0..(N - 1)

RingOf(x) == [slot |-> [i \in Slots |-> x], head |-> 0, count |-> 0]

--------------------------------------------------------------------------------
(* Variants, for testing the properties.                                   *)

\* a removal that closes the gap in the array, not around its end
RemoveNth_NoWrap(r, k) ==
    [r EXCEPT !.slot = [m \in Slots |-> IF /\ r.head + k <= m + 1
                                           /\ m + 1 < r.head + r.count
                                           /\ m + 1 < N
                                        THEN r.slot[m + 1] ELSE r.slot[m]],
              !.count = r.count - 1]

--------------------------------------------------------------------------------
\* The items, oldest first.
Items(r) == [i \in 1..r.count |-> r.slot[(r.head + (i - 1)) % N]]

IsFull(r) == r.count >= N
Head1(r)  == r.slot[r.head]

Push(r, x) ==
    [r EXCEPT !.slot[(r.head + r.count) % N] = x, !.count = r.count + 1]

Pop(r) ==
    [r EXCEPT !.head = (r.head + 1) % N, !.count = (r.count + (W - 1)) % W]

\* The k-th item leaves and the later ones move up one slot.
RemoveNth(r, k) ==
    LET age(m)   == (m + (N - r.head)) % N
        shift(m) == k <= age(m) + 1 /\ age(m) + 1 < r.count
    IN  [r EXCEPT !.slot = [m \in Slots |-> IF shift(m) THEN r.slot[(m + 1) % N]
                                                       ELSE r.slot[m]],
                  !.count = r.count - 1]

Clear(r) == [r EXCEPT !.head = 0, !.count = 0]
================================================================================
