-------------------------------- MODULE UsbOutPath -----------------------------
(***************************************************************************)
(* Bulk OUT as the two files store it: the ring of transfers of            *)
(* src/usbredir_dev.c, from which a cancelled transfer is removed wherever *)
(* it is, cut into packets for the ring of src/hw/usbf.c, which the guest  *)
(* reads a byte at a time by DMA or through the FIFO port.  Modules        *)
(* UsbRedir and Usbf describe the same queues as sequences.                *)
(***************************************************************************)
EXTENDS Ring, SequencesExt

CONSTANTS
    Id,         \* transfer ids; the host may use one again
    Lens,       \* lengths of transfers
    PathPacket, \* USBF_EP_MAX_PACKET
    PathSlots   \* USBF_OUT_SLOTS; N is UR_QUEUE_LEN

ASSUME PathAssumption ==
    /\ PathPacket \in Nat \ {0} /\ PathSlots \in Nat \ {0}
    /\ Lens \subseteq Nat \ {0}

R == INSTANCE Ring WITH N <- PathSlots, W <- 2 * PathSlots + 1

VARIABLES
    xfers,    \* g.bulk_out
    out,      \* out, out_head, out_count
    out_pos,  \* bytes already read from the oldest packet
    pgot      \* the last byte read since the last reset

pathVars == <<xfers, out, out_pos, pgot>>

NoXfer == [id |-> 0, len |-> 0, off |-> 0]

\* The i-th byte of a transfer is the pair of its id and i.
XferBytes(x, i, j) == [k \in 1..((j + 1) - i) |-> <<x.id, i + k - 1>>]

--------------------------------------------------------------------------------
PathInit ==
    /\ xfers = RingOf(NoXfer)
    /\ out = R!RingOf(<<>>)
    /\ out_pos = 0
    /\ pgot = <<>>

\* handle_bulk and queue_push: refused when all slots are taken
HandleBulk ==
    /\ ~IsFull(xfers)
    /\ \E id \in Id, n \in Lens : xfers' = Push(xfers, [id |-> id, len |-> n, off |-> 0])
    /\ UNCHANGED <<out, out_pos, pgot>>

\* handle_cancel and queue_remove: the oldest transfer with the id
Matches(id) == {k \in 1..xfers.count : Items(xfers)[k].id = id}
HandleCancel ==
    /\ \E id \in Id :
         /\ Matches(id) # {}
         /\ LET k == CHOOSE m \in Matches(id) : \A j \in Matches(id) : m <= j IN
            xfers' = RemoveNth(xfers, k)
    /\ UNCHANGED <<out, out_pos, pgot>>

\* service_endpoints, one OUT token: usbf_host_out, then queue_pop when the
\* transfer is done
Chunk(x) == IF x.len - x.off < PathPacket THEN x.len - x.off ELSE PathPacket
ServiceOut ==
    /\ xfers.count # 0
    /\ ~R!IsFull(out)
    /\ LET x == Head1(xfers)
           n == Chunk(x)
       IN  /\ out' = R!Push(out, XferBytes(x, x.off + 1, x.off + n))
           /\ xfers' = IF x.off + n = x.len THEN Pop(xfers)
                   ELSE [xfers EXCEPT !.slot[xfers.head].off = x.off + n]
    /\ UNCHANGED <<out_pos, pgot>>

\* usbf_out_byte
AtLastByte == out_pos + 1 >= Len(R!Head1(out))
OutByte ==
    /\ out.count # 0
    /\ LET p == R!Head1(out) IN
       pgot' = << IF out_pos < Len(p) THEN p[out_pos + 1] ELSE <<0, 0>> >>
    /\ IF AtLastByte
       THEN out' = R!Pop(out) /\ out_pos' = 0
       ELSE out_pos' = out_pos + 1 /\ UNCHANGED out
    /\ UNCHANGED xfers

\* usbf_flush_fifos: by the guest, or by a reset of the bus, which drops the
\* transfers too (drop_transfers, queue_clear)
Flush == out' = R!Clear(out) /\ out_pos' = 0
GuestResets ==
    /\ Flush
    /\ pgot' = <<>>
    /\ UNCHANGED xfers
HostDrops ==
    /\ Flush
    /\ xfers' = Clear(xfers)
    /\ pgot' = <<>>

PathNext == HandleBulk \/ HandleCancel \/ ServiceOut \/ OutByte \/ GuestResets \/ HostDrops
PathSpec == PathInit /\ [][PathNext]_pathVars

--------------------------------------------------------------------------------
Packets == R!Items(out)
Unread  == LET all == FlattenSeq(Packets) IN SubSeq(all, out_pos + 1, Len(all))
Unsent  == FlattenSeq([k \in 1..xfers.count |->
             LET x == Items(xfers)[k] IN XferBytes(x, x.off + 1, x.len)])

(***************************************************************************)
(* From the submitted transfers to the bytes the guest reads, over both    *)
(* rings and wherever they wrap, the OUT endpoint is a transfer pipe.      *)
(***************************************************************************)
Path == INSTANCE TransferPipe WITH
            items <- Unread \o Unsent, last <- pgot,
            MaxLen <- CHOOSE n \in Lens : \A m \in Lens : m <= n
PathIsPipe == Path!Spec
================================================================================
