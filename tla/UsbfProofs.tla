------------------------------- MODULE UsbfProofs ------------------------------
(***************************************************************************)
(* What the USB controller keeps true for every size of its buffers, every *)
(* set of byte values and every workload.                                  *)
(***************************************************************************)
EXTENDS UsbfMachine, SequenceTheorems, TLAPS

Pending(v) == IF v.ctrl_pending THEN 1 ELSE 0
Current(v) == v.irq = IrqPending(v)
NothingLeft(v) ==
    ~v.attached => /\ v.out = <<>> /\ ~v.ctrl_pending
                   /\ v.address = 0 /\ v.config = 0

\* The record before an access: current, and no completion untold.
Fresh(c) == c \in UsbfType /\ c.done = <<>> /\ Current(c) /\ NothingLeft(c)

\* The record w that an access to c leads to: each request it ended was
\* told to the bus side, and each it was told of had been pending.
Settled(c, w) ==
    /\ w \in UsbfType
    /\ NothingLeft(w)
    /\ Len(w.done) + Pending(w) = Pending(c)

\* w has the bus-side state of c.
SameBus(c, w) ==
    /\ w.done = c.done /\ w.ctrl_pending = c.ctrl_pending
    /\ w.attached = c.attached /\ w.out = c.out
    /\ w.address = c.address /\ w.config = c.config

LEMMA SameBusSettled ==
    ASSUME NEW c, NEW w, Fresh(c), w \in UsbfType, SameBus(c, w)
    PROVE  Settled(c, w)
<1>1. Len(w.done) = 0
  BY DEF Fresh, SameBus
<1>2. Pending(w) = Pending(c) /\ NothingLeft(w)
  BY DEF Fresh, SameBus, Pending, NothingLeft
<1>3. Pending(c) \in Nat
  BY DEF Pending
<1> QED
  BY <1>1, <1>2, <1>3 DEF Settled

LEMMA NotifyType ==
    ASSUME NEW w \in UsbfType
    PROVE  /\ Notify(w) \in UsbfType
           /\ Current(Notify(w))
           /\ SameBus(w, Notify(w))
<1>1. IrqPending(w) \in BOOLEAN
  BY DEF IrqPending, UsbfType
<1>2. Notify(w) = [w EXCEPT !.irq = IrqPending(w)]
  BY DEF Notify
<1>3. Notify(w) \in UsbfType
  BY <1>1, <1>2 DEF UsbfType
<1>4. /\ Notify(w).irq = IrqPending(w)
      /\ Notify(w).unit_en = w.unit_en /\ Notify(w).top_en = w.top_en
      /\ Notify(w).top_latched = w.top_latched /\ Notify(w).ep1_req = w.ep1_req
      /\ Notify(w).in = w.in /\ Notify(w).out = w.out
      /\ Notify(w).latched = w.latched /\ Notify(w).ep1_off = w.ep1_off
      /\ Notify(w).intmask = w.intmask
  BY <1>2 DEF UsbfType
<1>5. IrqPending(Notify(w)) = IrqPending(w)
  BY <1>4 DEF IrqPending, TopStat, CorePending, IntStat
<1>6. SameBus(w, Notify(w))
  BY <1>2 DEF SameBus, UsbfType
<1> QED
  BY <1>3, <1>4, <1>5, <1>6 DEF Current

LEMMA NotifySettled ==
    ASSUME NEW c, NEW w, Settled(c, w)
    PROVE  Settled(c, Notify(w)) /\ Current(Notify(w))
<1>1. w \in UsbfType
  BY DEF Settled
<1>2. Notify(w) \in UsbfType /\ Current(Notify(w)) /\ SameBus(w, Notify(w))
  BY <1>1, NotifyType
<1>3. NothingLeft(Notify(w)) /\ Pending(Notify(w)) = Pending(w)
  BY <1>2 DEF SameBus, Settled, NothingLeft, Pending
<1> QED
  BY <1>2, <1>3 DEF SameBus, Settled

(***************************************************************************)
(* finish_control tells the bus side of the request it ends.               *)
(***************************************************************************)
LEMMA FinishSettled ==
    ASSUME NEW c, Fresh(c), NEW status \in {"ok", "stall"}
    PROVE  /\ Settled(c, FinishControl(c, status))
           /\ ~FinishControl(c, status).ctrl_pending
<1> DEFINE w == FinishControl(c, status)
<1>0. c \in UsbfType /\ c.done = <<>>
  BY DEF Fresh
<1>1. CASE ~c.ctrl_pending
  <2>1. w = c
    BY <1>1 DEF FinishControl
  <2> QED
    BY <1>0, <1>1, <2>1, SameBusSettled DEF SameBus
<1>2. CASE c.ctrl_pending
  <2>1. w = [c EXCEPT !.ctrl_pending = FALSE, !.done = <<status>>]
    BY <1>0, <1>2 DEF FinishControl
  <2>2. <<status>> \in Seq({"ok", "stall"})
    OBVIOUS
  <2>3. w \in UsbfType
    BY <1>0, <2>1, <2>2 DEF UsbfType
  <2>4. /\ w.done = <<status>> /\ ~w.ctrl_pending
        /\ w.attached = c.attached /\ w.out = c.out
        /\ w.address = c.address /\ w.config = c.config
    BY <1>0, <2>1 DEF UsbfType
  <2>5. Len(w.done) = 1
    BY <2>4
  <2>6. NothingLeft(w)
    BY <2>4 DEF Fresh, NothingLeft
  <2> QED
    BY <1>2, <2>3, <2>4, <2>5, <2>6 DEF Settled, Pending
<1> QED
  BY <1>1, <1>2

\* What an access may lead to.
Good(c, v) == Settled(c, v) /\ Current(v)

LEMMA NotifyGood ==
    ASSUME NEW c, NEW w, Fresh(c), w \in UsbfType, SameBus(c, w)
    PROVE  Good(c, Notify(w))
BY SameBusSettled, NotifySettled DEF Good

LEMMA FreshGood ==
    ASSUME NEW c, Fresh(c)
    PROVE  c \in UsbfType /\ Good(c, c)
<1>1. c \in UsbfType /\ Current(c) /\ SameBus(c, c)
  BY DEF Fresh, SameBus
<1> QED
  BY <1>1, SameBusSettled DEF Good

--------------------------------------------------------------------------------
(***************************************************************************)
(* Register writes that store a value.                                     *)
(***************************************************************************)
LEMMA StoresGood ==
    ASSUME NEW c, Fresh(c)
    PROVE  /\ \A b \in BOOLEAN :
                Good(c, WriteUnitEn(c, b)) /\ Good(c, WriteEp1Ctrl(c, b))
           /\ \A top \in SUBSET TopEvents :
                Good(c, WriteTopClr(c, top)) /\ Good(c, WriteTopEn(c, top))
           /\ \A i \in 1..3, ev \in SUBSET IntEvents :
                Good(c, WriteIntClr(c, i, ev)) /\ Good(c, WriteIntMask(c, i, ev))
           /\ Good(c, WriteEp1Off(c)) /\ Good(c, ClearEp1Fill(c))
<1>0. c \in UsbfType
  BY DEF Fresh
<1>1. ASSUME NEW b \in BOOLEAN
      PROVE  Good(c, WriteUnitEn(c, b))
  <2> DEFINE w == [c EXCEPT !.unit_en = b]
  <2>1. w \in UsbfType /\ SameBus(c, w)
    BY <1>0 DEF UsbfType, SameBus
  <2> QED
    BY <2>1, NotifyGood DEF WriteUnitEn
<1>2. ASSUME NEW top \in SUBSET TopEvents
      PROVE  Good(c, WriteTopClr(c, top))
  <2> DEFINE w == [c EXCEPT !.top_latched = c.top_latched \ top]
  <2>1. c.top_latched \ top \in SUBSET TopEvents
    BY <1>0 DEF UsbfType
  <2>2. w \in UsbfType /\ SameBus(c, w)
    BY <1>0, <2>1 DEF UsbfType, SameBus
  <2> QED
    BY <2>2, NotifyGood DEF WriteTopClr
<1>3. ASSUME NEW top \in SUBSET TopEvents
      PROVE  Good(c, WriteTopEn(c, top))
  <2> DEFINE w == [c EXCEPT !.top_en = top]
  <2>1. w \in UsbfType /\ SameBus(c, w)
    BY <1>0 DEF UsbfType, SameBus
  <2> QED
    BY <2>1, NotifyGood DEF WriteTopEn
<1>4. Good(c, WriteEp1Off(c))
  <2> DEFINE w == [c EXCEPT !.ep1_off = TRUE]
  <2>1. w \in UsbfType /\ SameBus(c, w)
    BY <1>0 DEF UsbfType, SameBus
  <2> QED
    BY <2>1, NotifyGood DEF WriteEp1Off
<1>5. ASSUME NEW b \in BOOLEAN
      PROVE  Good(c, WriteEp1Ctrl(c, b))
  <2> DEFINE w == [c EXCEPT !.ep1_req = b]
  <2>1. w \in UsbfType /\ SameBus(c, w)
    BY <1>0 DEF UsbfType, SameBus
  <2> QED
    BY <2>1, NotifyGood DEF WriteEp1Ctrl
<1>6. Good(c, ClearEp1Fill(c))
  <2> DEFINE w == [c EXCEPT !.in_stage = <<>>]
  <2>1. w \in UsbfType /\ SameBus(c, w)
    BY <1>0, EmptySeq DEF UsbfType, SameBus
  <2> QED
    BY <2>1, NotifyGood DEF ClearEp1Fill
<1>7. ASSUME NEW i \in 1..3, NEW ev \in SUBSET IntEvents
      PROVE  Good(c, WriteIntClr(c, i, ev))
  <2> DEFINE s == c.latched \ (IntReg[i] \ ev)
             w == [c EXCEPT !.latched = s]
  <2>1. s \in SUBSET IntEvents
    BY <1>0 DEF UsbfType
  <2>2. WriteIntClr(c, i, ev) = Notify(w)
    BY DEF WriteIntClr
  <2> HIDE DEF s
  <2>3. w \in UsbfType /\ SameBus(c, w)
    BY <1>0, <2>1 DEF UsbfType, SameBus
  <2> QED
    BY <2>2, <2>3, NotifyGood
<1>8. ASSUME NEW i \in 1..3, NEW ev \in SUBSET IntEvents
      PROVE  Good(c, WriteIntMask(c, i, ev))
  <2> DEFINE s == (c.intmask \ IntReg[i]) \cup (ev \cap IntReg[i])
             w == [c EXCEPT !.intmask = s]
  <2>1. s \in SUBSET IntEvents
    BY <1>0 DEF UsbfType
  <2>2. WriteIntMask(c, i, ev) = Notify(w)
    BY DEF WriteIntMask
  <2> HIDE DEF s
  <2>3. w \in UsbfType /\ SameBus(c, w)
    BY <1>0, <2>1 DEF UsbfType, SameBus
  <2> QED
    BY <2>2, <2>3, NotifyGood
<1> QED
  BY <1>1, <1>2, <1>3, <1>4, <1>5, <1>6, <1>7, <1>8

(***************************************************************************)
(* The two accesses that change no interrupt condition and do not notify.  *)
(***************************************************************************)
LEMMA SilentGood ==
    ASSUME NEW c, Fresh(c), NEW w \in UsbfType, SameBus(c, w), w.irq = c.irq,
           w.unit_en = c.unit_en, w.top_en = c.top_en,
           w.top_latched = c.top_latched, w.ep1_req = c.ep1_req,
           w.in = c.in, w.latched = c.latched, w.ep1_off = c.ep1_off,
           w.intmask = c.intmask
    PROVE  Good(c, w)
<1>1. IrqPending(w) = IrqPending(c)
  BY DEF IrqPending, TopStat, CorePending, IntStat, SameBus
<1>2. Current(w)
  BY <1>1 DEF Fresh, Current
<1> QED
  BY <1>2, SameBusSettled DEF Good

LEMMA WriteDescGood ==
    ASSUME NEW c, Fresh(c), NEW b \in BOOLEAN
    PROVE  Good(c, WriteDesc(c, b))
<1> DEFINE w == [c EXCEPT !.desc_ok = b]
<1>0. c \in UsbfType
  BY DEF Fresh
<1>1. w \in UsbfType /\ SameBus(c, w)
  BY <1>0 DEF UsbfType, SameBus
<1>2. /\ w.irq = c.irq /\ w.unit_en = c.unit_en /\ w.top_en = c.top_en
      /\ w.top_latched = c.top_latched /\ w.ep1_req = c.ep1_req
      /\ w.in = c.in /\ w.latched = c.latched /\ w.ep1_off = c.ep1_off
      /\ w.intmask = c.intmask
  BY <1>0 DEF UsbfType
<1>3. WriteDesc(c, b) = w
  BY DEF WriteDesc
<1> QED
  BY <1>1, <1>2, <1>3, SilentGood

(***************************************************************************)
(* USBF_SETUP_FIFO                                                         *)
(***************************************************************************)
LEMMA ReadSetupFifoGood ==
    ASSUME NEW c, Fresh(c)
    PROVE  Good(c, ReadSetupFifo(c))
<1> DEFINE v == [c EXCEPT !.setup_pos = c.setup_pos + 1]
<1>0. c \in UsbfType
  BY DEF Fresh
<1>1. CASE c.setup_pos >= SetupLen
  BY <1>1, FreshGood DEF ReadSetupFifo
<1>2. CASE ~(c.setup_pos >= SetupLen)
  <2>1. c.setup_pos + 1 \in SetupPositions
    <3>1. c.setup_pos \in SetupPositions
      BY <1>0 DEF UsbfType
    <3> QED
      BY <1>2, <3>1, UsbfAssumption DEF SetupPositions
  <2>2. v \in UsbfType /\ SameBus(c, v) /\ v.setup_pos = c.setup_pos + 1
    BY <1>0, <2>1 DEF UsbfType, SameBus
  <2>3. /\ v.irq = c.irq /\ v.unit_en = c.unit_en /\ v.top_en = c.top_en
        /\ v.top_latched = c.top_latched /\ v.ep1_req = c.ep1_req
        /\ v.in = c.in /\ v.latched = c.latched /\ v.ep1_off = c.ep1_off
        /\ v.intmask = c.intmask
    BY <1>0 DEF UsbfType
  <2>4. Good(c, v)
    BY <2>2, <2>3, SilentGood
  <2> DEFINE w == [v EXCEPT !.latched = v.latched \ {"SETUP"}]
  <2>5. ReadSetupFifo(c) = IF v.setup_pos = SetupLen THEN Notify(w) ELSE v
    BY <1>2 DEF ReadSetupFifo
  <2> HIDE DEF v
  <2>6. v.latched \ {"SETUP"} \in SUBSET IntEvents
    BY <2>2 DEF UsbfType
  <2>7. w \in UsbfType /\ SameBus(v, w)
    BY <2>2, <2>6 DEF UsbfType, SameBus
  <2>8. SameBus(c, w)
    BY <2>2, <2>7 DEF SameBus
  <2> QED
    BY <2>4, <2>5, <2>7, <2>8, NotifyGood
<1> QED
  BY <1>1, <1>2

--------------------------------------------------------------------------------
(***************************************************************************)
(* Data accesses.                                                          *)
(***************************************************************************)
LEMMA OutSettled ==
    ASSUME NEW c, NEW w, Fresh(c), w \in UsbfType,
           w.done = c.done, w.ctrl_pending = c.ctrl_pending,
           w.attached = c.attached, w.address = c.address, w.config = c.config,
           ~c.attached => w.out = <<>>
    PROVE  Settled(c, w)
<1>1. Len(w.done) = 0
  BY DEF Fresh
<1>2. Pending(w) = Pending(c) /\ NothingLeft(w)
  BY DEF Fresh, Pending, NothingLeft
<1>3. Pending(c) \in Nat
  BY DEF Pending
<1> QED
  BY <1>1, <1>2, <1>3 DEF Settled

LEMMA DmaRxGood ==
    ASSUME NEW c, Fresh(c), NEW n \in Nat
    PROVE  Good(c, DmaRx(c, n))
<1> DEFINE rest == SubSeq(c.out, DmaRxCount(c, n) + 1, Len(c.out))
           top  == c.top_latched \cup {"RX_DONE"}
           w    == [c EXCEPT !.out = rest, !.top_latched = top]
<1>0. c \in UsbfType
  BY DEF Fresh
<1>1. c.out \in Seq([b : Byte, last : BOOLEAN])
  BY <1>0 DEF UsbfType
<1>2. Len(c.out) \in Nat /\ DmaRxCount(c, n) \in 0..Len(c.out)
  BY <1>1, LenProperties DEF DmaRxCount
<1>4. rest \in Seq([b : Byte, last : BOOLEAN])
  <2>1. \A i \in (DmaRxCount(c, n) + 1)..Len(c.out) :
            c.out[i] \in [b : Byte, last : BOOLEAN]
    <3> TAKE i \in (DmaRxCount(c, n) + 1)..Len(c.out)
    <3>1. i \in 1..Len(c.out)
      BY <1>2
    <3> QED
      BY <1>1, <3>1, ElementOfSeq
  <2> QED
    BY <1>2, <2>1, SubSeqProperties
<1>5. top \in SUBSET TopEvents
  BY <1>0 DEF UsbfType, TopEvents
<1>6. ~c.attached => rest = <<>>
  <2> SUFFICES ASSUME ~c.attached PROVE rest = <<>>
    OBVIOUS
  <2>1. c.out = <<>> /\ Len(c.out) = 0
    BY DEF Fresh, NothingLeft
  <2>2. DmaRxCount(c, n) = 0
    BY <1>2, <2>1
  <2> QED
    BY <2>1, <2>2, SubSeqEmpty
<1>7. DmaRx(c, n) = Notify(w)
  BY DEF DmaRx
<1> HIDE DEF rest, top
<1>8. w \in UsbfType /\ w.out = rest /\ w.done = c.done
      /\ w.ctrl_pending = c.ctrl_pending /\ w.attached = c.attached
      /\ w.address = c.address /\ w.config = c.config
  BY <1>0, <1>4, <1>5 DEF UsbfType
<1> HIDE DEF w
<1>9. Settled(c, w)
  BY <1>6, <1>8, OutSettled
<1> QED
  BY <1>7, <1>9, NotifySettled DEF Good

LEMMA ReadOutFifoGood ==
    ASSUME NEW c, Fresh(c)
    PROVE  Good(c, ReadOutFifo(c))
<1> DEFINE rest == IF c.out = <<>> THEN c.out ELSE Tail(c.out)
           w    == [c EXCEPT !.out = rest]
<1>0. c \in UsbfType
  BY DEF Fresh
<1>1. c.out \in Seq([b : Byte, last : BOOLEAN])
  BY <1>0 DEF UsbfType
<1>2. rest \in Seq([b : Byte, last : BOOLEAN])
  BY <1>1, HeadTailProperties
<1>3. ~c.attached => rest = <<>>
  BY DEF Fresh, NothingLeft
<1>4. ReadOutFifo(c) = Notify(w)
  BY DEF ReadOutFifo
<1> HIDE DEF rest
<1>5. w \in UsbfType /\ w.out = rest /\ w.done = c.done
      /\ w.ctrl_pending = c.ctrl_pending /\ w.attached = c.attached
      /\ w.address = c.address /\ w.config = c.config
  BY <1>0, <1>2 DEF UsbfType
<1> HIDE DEF w
<1>6. Settled(c, w)
  BY <1>3, <1>5, OutSettled
<1> QED
  BY <1>4, <1>6, NotifySettled DEF Good

\* usbf_queue_in and the packet of EP3 leave the bus-side state alone.
LEMMA QueueInType ==
    ASSUME NEW v \in UsbfType
    PROVE  QueueIn(v) \in UsbfType /\ SameBus(v, QueueIn(v))
<1>1. v.in_stage \in Seq(Byte) /\ v.in \in Seq(Seq(Byte))
  BY DEF UsbfType
<1>2. Append(v.in, v.in_stage) \in Seq(Seq(Byte))
  BY <1>1, AppendProperties
<1> DEFINE a == [v EXCEPT !.in = Append(v.in, v.in_stage), !.in_stage = <<>>]
           b == [v EXCEPT !.in_stage = <<>>]
<1>3. a \in UsbfType /\ SameBus(v, a)
  BY <1>2, EmptySeq DEF UsbfType, SameBus
<1>4. b \in UsbfType /\ SameBus(v, b)
  BY EmptySeq DEF UsbfType, SameBus
<1>5. QueueIn(v) = a \/ QueueIn(v) = b
  BY DEF QueueIn
<1> QED
  BY <1>3, <1>4, <1>5

LEMMA CommitEp3Type ==
    ASSUME NEW v \in UsbfType
    PROVE  CommitEp3(v) \in UsbfType /\ SameBus(v, CommitEp3(v))
<1>1. v.ep3_stage \in Seq(Byte)
  BY DEF UsbfType
<1>2. <<v.ep3_stage>> \in Seq(Seq(Byte))
  BY <1>1
<1> QED
  BY <1>2, EmptySeq DEF CommitEp3, UsbfType, SameBus

LEMMA DmaTxGood ==
    ASSUME NEW c, Fresh(c), NEW p \in Seq(Byte)
    PROVE  Good(c, DmaTx(c, p))
<1> DEFINE v == [c EXCEPT !.in_stage = p]
           w == IF Len(p) = MaxPacket THEN QueueIn(v) ELSE v
           x == [w EXCEPT !.top_latched = w.top_latched \cup {"TX_DONE"}]
<1>1. v \in UsbfType /\ SameBus(c, v)
  BY DEF Fresh, UsbfType, SameBus
<1>2. DmaTx(c, p) = Notify(x)
  BY DEF DmaTx
<1> HIDE DEF v
<1>3. w \in UsbfType /\ SameBus(v, w)
  BY <1>1, QueueInType DEF SameBus
<1> HIDE DEF w
<1>4. w.top_latched \cup {"TX_DONE"} \in SUBSET TopEvents
  BY <1>3 DEF UsbfType, TopEvents
<1>5. x \in UsbfType /\ SameBus(w, x)
  BY <1>3, <1>4 DEF UsbfType, SameBus
<1>6. SameBus(c, x)
  BY <1>1, <1>3, <1>5 DEF SameBus
<1> QED
  BY <1>2, <1>5, <1>6, NotifyGood

LEMMA WriteEp3FifoGood ==
    ASSUME NEW c, Fresh(c), NEW b \in Byte
    PROVE  Good(c, WriteEp3Fifo(c, b))
<1> DEFINE s == IF Len(c.ep3_stage) < MaxPacket
                THEN Append(c.ep3_stage, b) ELSE c.ep3_stage
           w == [c EXCEPT !.ep3_stage = s]
<1>0. c \in UsbfType
  BY DEF Fresh
<1>1. s \in Seq(Byte)
  <2>1. c.ep3_stage \in Seq(Byte)
    BY <1>0 DEF UsbfType
  <2> QED
    BY <2>1, AppendProperties
<1>2. WriteEp3Fifo(c, b) = Notify(w)
  BY DEF WriteEp3Fifo
<1> HIDE DEF s
<1>3. w \in UsbfType /\ SameBus(c, w)
  BY <1>0, <1>1 DEF UsbfType, SameBus
<1> QED
  BY <1>2, <1>3, NotifyGood

--------------------------------------------------------------------------------
(***************************************************************************)
(* Accesses that may end a control request.                                *)
(***************************************************************************)
LEMMA AfterSettled ==
    ASSUME NEW c, NEW v, NEW w, Settled(c, v), w \in UsbfType,
           NothingLeft(w), w.done = v.done, w.ctrl_pending = v.ctrl_pending
    PROVE  Good(c, Notify(w))
<1>1. Settled(c, w)
  BY DEF Settled, Pending
<1> QED
  BY <1>1, NotifySettled DEF Good

LEMMA Ep0StallGood ==
    ASSUME NEW c, Fresh(c)
    PROVE  Good(c, Ep0Stall(c))
BY FinishSettled, NotifySettled DEF Ep0Stall, Good

LEMMA CommitEp0Settled ==
    ASSUME NEW c, Fresh(c)
    PROVE  Settled(c, CommitEp0(c))
<1> DEFINE w == [c EXCEPT !.latched = c.latched \cup {"STATUS_DONE"}]
<1>0. c \in UsbfType
  BY DEF Fresh
<1>1. c.latched \cup {"STATUS_DONE"} \in SUBSET IntEvents
  BY <1>0 DEF UsbfType, IntEvents, IntReg
<1>2. w \in UsbfType /\ SameBus(c, w)
  BY <1>0, <1>1 DEF UsbfType, SameBus
<1>3. CommitEp0(c) = FinishControl(w, "ok")
  BY DEF CommitEp0
<1> HIDE DEF w
<1> DEFINE x == FinishControl(w, "ok")
<1>4. CASE ~w.ctrl_pending
  <2>1. x = w
    BY <1>4 DEF FinishControl
  <2> QED
    BY <1>2, <1>3, <2>1, SameBusSettled
<1>5. CASE w.ctrl_pending
  <2>1. x = [w EXCEPT !.ctrl_pending = FALSE, !.done = <<"ok">>]
    BY <1>2, <1>5 DEF FinishControl, SameBus, Fresh
  <2>2. <<"ok">> \in Seq({"ok", "stall"})
    OBVIOUS
  <2>3. x \in UsbfType
    BY <1>2, <2>1, <2>2 DEF UsbfType
  <2>4. /\ x.done = <<"ok">> /\ ~x.ctrl_pending
        /\ x.attached = w.attached /\ x.out = w.out
        /\ x.address = w.address /\ x.config = w.config
    BY <1>2, <2>1 DEF UsbfType
  <2> HIDE DEF x
  <2>5. Len(x.done) = 1 /\ Pending(x) = 0 /\ Pending(c) = 1
    BY <1>2, <1>5, <2>4 DEF Pending, SameBus
  <2>6. NothingLeft(x)
    BY <1>2, <2>4 DEF Fresh, SameBus, NothingLeft
  <2>7. Settled(c, x)
    BY <2>3, <2>5, <2>6 DEF Settled
  <2> QED
    BY <1>3, <2>7 DEF x
<1> QED
  BY <1>4, <1>5

LEMMA CommitGood ==
    ASSUME NEW c, Fresh(c), NEW eps
    PROVE  Good(c, Commit(c, eps))
<1> DEFINE a == IF 0 \in eps THEN CommitEp0(c) ELSE c
           b == IF 1 \in eps THEN QueueIn(a) ELSE a
           d == IF 3 \in eps THEN CommitEp3(b) ELSE b
<1>1. Commit(c, eps) = Notify(d)
  BY DEF Commit
<1>2. Settled(c, a)
  BY CommitEp0Settled, FreshGood DEF Good
<1> HIDE DEF a
<1>3. a \in UsbfType
  BY <1>2 DEF Settled
<1>4. b \in UsbfType /\ SameBus(a, b)
  BY <1>3, QueueInType DEF SameBus
<1> HIDE DEF b
<1>5. d \in UsbfType /\ SameBus(b, d)
  BY <1>4, CommitEp3Type DEF SameBus
<1> HIDE DEF d
<1>6. SameBus(a, d)
  BY <1>4, <1>5 DEF SameBus
<1>7. NothingLeft(d)
  BY <1>2, <1>6 DEF SameBus, Settled, NothingLeft
<1> QED
  BY <1>1, <1>2, <1>5, <1>6, <1>7, AfterSettled DEF SameBus

LEMMA FlushType ==
    ASSUME NEW v \in UsbfType
    PROVE  /\ FlushFifos(v) \in UsbfType
           /\ FlushFifos(v).out = <<>>
           /\ FlushFifos(v).done = v.done
           /\ FlushFifos(v).ctrl_pending = v.ctrl_pending
           /\ FlushFifos(v).attached = v.attached
           /\ FlushFifos(v).address = v.address
           /\ FlushFifos(v).config = v.config
<1>1. 0 \in SetupPositions
  BY UsbfAssumption DEF SetupPositions
<1> DEFINE w == [v EXCEPT !.out = <<>>, !.in = <<>>, !.in_stage = <<>>,
                          !.ep3_stage = <<>>, !.ep3 = <<>>, !.setup_pos = 0]
<1>2. FlushFifos(v) = w
  BY DEF FlushFifos
<1>3. w \in UsbfType
  BY <1>1, EmptySeq DEF UsbfType
<1>4. /\ w.out = <<>> /\ w.done = v.done /\ w.ctrl_pending = v.ctrl_pending
      /\ w.attached = v.attached /\ w.address = v.address /\ w.config = v.config
  BY DEF UsbfType
<1> HIDE DEF w
<1> QED
  BY <1>2, <1>3, <1>4

LEMMA ResetPulseGood ==
    ASSUME NEW c, Fresh(c)
    PROVE  Good(c, ResetPulse(c))
<1> DEFINE v == FinishControl(c, "stall")
           f == FlushFifos(v)
           w == [f EXCEPT !.latched = {}, !.top_latched = {}, !.ep1_off = FALSE]
<1>1. Settled(c, v) /\ ~v.ctrl_pending
  BY FinishSettled
<1>2. ResetPulse(c) = Notify(w)
  BY DEF ResetPulse
<1>3. v \in UsbfType
  BY <1>1 DEF Settled
<1> HIDE DEF v
<1>4. /\ f \in UsbfType /\ f.out = <<>> /\ f.done = v.done
      /\ f.ctrl_pending = v.ctrl_pending /\ f.attached = v.attached
      /\ f.address = v.address /\ f.config = v.config
  BY <1>3, FlushType
<1> HIDE DEF f
<1>5. w \in UsbfType /\ SameBus(f, w)
  BY <1>4 DEF UsbfType, SameBus
<1> HIDE DEF w
<1>6. NothingLeft(w)
  BY <1>1, <1>4, <1>5 DEF SameBus, Settled, NothingLeft
<1> QED
  BY <1>1, <1>2, <1>4, <1>5, <1>6, AfterSettled DEF SameBus

LEMMA UsbfResetGood ==
    ASSUME NEW c, Fresh(c)
    PROVE  Good(c, UsbfReset(c))
<1> DEFINE v == FinishControl(c, "stall")
           w == [UsbfInit EXCEPT !.attached = c.attached, !.done = v.done]
<1>1. Settled(c, v) /\ ~v.ctrl_pending
  BY FinishSettled
<1>2. UsbfReset(c) = Notify(w)
  BY DEF UsbfReset
<1>3. v.done \in Seq({"ok", "stall"}) /\ c.attached \in BOOLEAN
  BY <1>1 DEF Settled, Fresh, UsbfType
<1> HIDE DEF v
<1>4. UsbfInit \in UsbfType
  BY UsbfAssumption, EmptySeq DEF UsbfInit, UsbfType, SetupPositions
<1>5. /\ UsbfInit.out = <<>> /\ ~UsbfInit.ctrl_pending
      /\ UsbfInit.address = 0 /\ UsbfInit.config = 0
  BY DEF UsbfInit
<1>6. /\ w \in UsbfType /\ w.done = v.done /\ ~w.ctrl_pending
      /\ w.out = <<>> /\ w.address = 0 /\ w.config = 0
  BY <1>3, <1>4, <1>5 DEF UsbfType
<1> HIDE DEF w
<1>7. NothingLeft(w) /\ Pending(w) = Pending(v)
  BY <1>1, <1>6 DEF NothingLeft, Pending
<1>8. Settled(c, w)
  BY <1>1, <1>6, <1>7 DEF Settled
<1> QED
  BY <1>2, <1>8, NotifySettled DEF Good

--------------------------------------------------------------------------------
(***************************************************************************)
(* The calls of the bus side.                                              *)
(***************************************************************************)
LEMMA UnpluggedSettled ==
    ASSUME NEW c, Fresh(c)
    PROVE  /\ Settled(c, Unplugged(c))
           /\ Unplugged(c).out = <<>> /\ ~Unplugged(c).ctrl_pending
           /\ Unplugged(c).address = 0 /\ Unplugged(c).config = 0
<1> DEFINE v == FinishControl(c, "stall")
           f == FlushFifos(v)
           w == [f EXCEPT !.address = 0, !.config = 0]
<1>1. Settled(c, v) /\ ~v.ctrl_pending
  BY FinishSettled
<1>2. Unplugged(c) = w
  BY DEF Unplugged
<1>3. v \in UsbfType
  BY <1>1 DEF Settled
<1> HIDE DEF v
<1>4. /\ f \in UsbfType /\ f.out = <<>> /\ f.done = v.done
      /\ f.ctrl_pending = v.ctrl_pending /\ f.attached = v.attached
  BY <1>3, FlushType
<1> HIDE DEF f
<1>5. /\ w \in UsbfType /\ w.out = <<>> /\ w.done = f.done
      /\ w.ctrl_pending = f.ctrl_pending /\ w.address = 0 /\ w.config = 0
  BY <1>4 DEF UsbfType
<1> HIDE DEF w
<1>6. NothingLeft(w) /\ Pending(w) = Pending(v)
  BY <1>1, <1>4, <1>5 DEF NothingLeft, Pending
<1>7. Settled(c, w)
  BY <1>1, <1>4, <1>5, <1>6 DEF Settled
<1> QED
  BY <1>1, <1>2, <1>4, <1>5, <1>7

LEMMA HostBusResetGood ==
    ASSUME NEW c, Fresh(c)
    PROVE  Good(c, HostBusReset(c))
<1> DEFINE v == Unplugged(c)
           w == [v EXCEPT !.latched = v.latched \cup {"BUS_RESET"}]
<1>1. HostBusReset(c) = Notify(w)
  BY DEF HostBusReset
<1>2. Settled(c, v) /\ v \in UsbfType
  BY UnpluggedSettled DEF Settled
<1> HIDE DEF v
<1>3. v.latched \cup {"BUS_RESET"} \in SUBSET IntEvents
  BY <1>2 DEF UsbfType, IntEvents, IntReg
<1>4. w \in UsbfType /\ SameBus(v, w)
  BY <1>2, <1>3 DEF UsbfType, SameBus
<1> HIDE DEF w
<1>5. NothingLeft(w)
  BY <1>2, <1>4 DEF SameBus, Settled, NothingLeft
<1> QED
  BY <1>1, <1>2, <1>4, <1>5, AfterSettled DEF SameBus

(***************************************************************************)
(* Plugging in adds nothing; unplugging ends the request and flushes.      *)
(***************************************************************************)
LEMMA HostAttachGood ==
    ASSUME NEW c, Fresh(c), NEW b \in BOOLEAN
    PROVE  Good(c, HostAttach(c, b))
<1> DEFINE v == [c EXCEPT !.attached = b]
<1>0. c \in UsbfType
  BY DEF Fresh
<1>1. CASE c.attached = b
  BY <1>1, FreshGood DEF HostAttach
<1>2. CASE c.attached # b /\ b
  <2>1. HostAttach(c, b) = Notify(v)
    BY <1>2 DEF HostAttach
  <2>2. /\ v \in UsbfType /\ v.attached /\ v.done = c.done
        /\ v.ctrl_pending = c.ctrl_pending
    BY <1>0, <1>2 DEF UsbfType
  <2> HIDE DEF v
  <2>3. NothingLeft(v) /\ Settled(c, c)
    BY <2>2, FreshGood DEF NothingLeft, Good
  <2> QED
    BY <2>1, <2>2, <2>3, AfterSettled
<1>3. CASE c.attached # b /\ ~b
  \* The descriptor of the attachment is the only field v does not share.
  <2> DEFINE f == FinishControl(v, "stall")
             g == FlushFifos(f)
             w == [g EXCEPT !.address = 0, !.config = 0]
  <2>1. HostAttach(c, b) = Notify(w)
    BY <1>3 DEF HostAttach, Unplugged
  <2>2. /\ v \in UsbfType /\ v.done = <<>> /\ v.ctrl_pending = c.ctrl_pending
    BY <1>0 DEF UsbfType, Fresh
  <2> HIDE DEF v
  <2>3. /\ f \in UsbfType /\ ~f.ctrl_pending
        /\ Len(f.done) = Pending(c)
    <3>1. CASE ~v.ctrl_pending
      <4>1. f = v
        BY <3>1 DEF FinishControl
      <4> QED
        BY <2>2, <3>1, <4>1 DEF Pending
    <3>2. CASE v.ctrl_pending
      <4>1. f = [v EXCEPT !.ctrl_pending = FALSE, !.done = <<"stall">>]
        BY <2>2, <3>2 DEF FinishControl
      <4>2. <<"stall">> \in Seq({"ok", "stall"})
        OBVIOUS
      <4>3. f \in UsbfType
        BY <2>2, <4>1, <4>2 DEF UsbfType
      <4>4. f.done = <<"stall">> /\ ~f.ctrl_pending
        BY <2>2, <4>1 DEF UsbfType
      <4> HIDE DEF f
      <4> QED
        BY <2>2, <3>2, <4>3, <4>4 DEF Pending
    <3> QED
      BY <3>1, <3>2
  <2> HIDE DEF f
  <2>4. /\ g \in UsbfType /\ g.out = <<>> /\ g.done = f.done
        /\ g.ctrl_pending = f.ctrl_pending
    BY <2>3, FlushType
  <2> HIDE DEF g
  <2>5. /\ w \in UsbfType /\ w.out = <<>> /\ w.done = g.done
        /\ w.ctrl_pending = g.ctrl_pending /\ w.address = 0 /\ w.config = 0
    BY <2>4 DEF UsbfType
  <2> HIDE DEF w
  <2>6. NothingLeft(w) /\ Pending(w) = 0 /\ Pending(c) \in Nat
    BY <2>3, <2>4, <2>5 DEF NothingLeft, Pending
  <2>7. Settled(c, w)
    BY <2>3, <2>4, <2>5, <2>6 DEF Settled
  <2> QED
    BY <2>1, <2>7, NotifySettled DEF Good
<1> QED
  BY <1>1, <1>2, <1>3

LEMMA SetAddressGood ==
    ASSUME NEW c, Fresh(c), NEW a \in Nat
    PROVE  Good(c, SetAddress(c, a))
<1> DEFINE w == [c EXCEPT !.address = a]
<1>0. c \in UsbfType
  BY DEF Fresh
<1>1. CASE ~ControlAccepted(c)
  BY <1>1, FreshGood DEF SetAddress
<1>2. CASE ControlAccepted(c)
  <2>1. SetAddress(c, a) = w
    BY <1>2 DEF SetAddress
  <2>2. /\ w \in UsbfType /\ w.done = c.done /\ w.ctrl_pending = c.ctrl_pending
        /\ w.attached = c.attached
    BY <1>0 DEF UsbfType
  <2>3. /\ w.irq = c.irq /\ w.unit_en = c.unit_en /\ w.top_en = c.top_en
        /\ w.top_latched = c.top_latched /\ w.ep1_req = c.ep1_req
        /\ w.in = c.in /\ w.latched = c.latched /\ w.ep1_off = c.ep1_off
        /\ w.intmask = c.intmask /\ w.out = c.out
    BY <1>0 DEF UsbfType
  <2> HIDE DEF w
  <2>4. IrqPending(w) = IrqPending(c)
    BY <2>3 DEF IrqPending, TopStat, CorePending, IntStat
  <2>5. Current(w)
    BY <2>3, <2>4 DEF Fresh, Current
  <2>6. NothingLeft(w)
    BY <1>2, <2>2 DEF ControlAccepted, NothingLeft
  <2>7. Settled(c, c)
    BY FreshGood DEF Good
  <2>8. Settled(c, w)
    BY <2>2, <2>6, <2>7 DEF Settled, Pending
  <2> QED
    BY <2>1, <2>5, <2>8 DEF Good
<1> QED
  BY <1>1, <1>2

LEMMA SetConfigurationGood ==
    ASSUME NEW c, Fresh(c), NEW n \in Nat
    PROVE  Good(c, SetConfiguration(c, n))
<1> DEFINE w == [c EXCEPT !.config = n, !.latched = c.latched \cup {"CONFIG"}]
<1>0. c \in UsbfType
  BY DEF Fresh
<1>1. CASE ~ControlAccepted(c)
  BY <1>1, FreshGood DEF SetConfiguration
<1>2. CASE ControlAccepted(c)
  <2>1. SetConfiguration(c, n) = Notify(w)
    BY <1>2 DEF SetConfiguration
  <2>2. c.latched \cup {"CONFIG"} \in SUBSET IntEvents
    BY <1>0 DEF UsbfType, IntEvents, IntReg
  <2>3. /\ w \in UsbfType /\ w.done = c.done /\ w.ctrl_pending = c.ctrl_pending
        /\ w.attached = c.attached
    BY <1>0, <2>2 DEF UsbfType
  <2> HIDE DEF w
  <2>4. NothingLeft(w) /\ Settled(c, c)
    BY <1>2, <2>3, FreshGood DEF ControlAccepted, NothingLeft, Good
  <2> QED
    BY <2>1, <2>3, <2>4, AfterSettled
<1> QED
  BY <1>1, <1>2

(***************************************************************************)
(* A class request adds one to the requests that are to be answered.       *)
(***************************************************************************)
LEMMA ClassRequestGood ==
    ASSUME NEW c, Fresh(c)
    PROVE  LET v == ClassRequest(c) IN
           /\ v \in UsbfType /\ Current(v) /\ NothingLeft(v)
           /\ Len(v.done) + Pending(v)
                = Pending(c) + (IF ControlAccepted(c) THEN 1 ELSE 0)
<1> DEFINE v == ClassRequest(c)
           f == FinishControl(c, "stall")
           w == [f EXCEPT !.setup_pos = 0, !.ctrl_pending = TRUE,
                          !.latched = f.latched
                                        \cup {"SETUP", "SETUP_OVR", "STATUS_RDY"}]
<1>0. Pending(c) \in Nat
  BY DEF Pending
<1>1. CASE ~ControlAccepted(c)
  <2>1. v = c /\ c \in UsbfType /\ Good(c, c)
    BY <1>1, FreshGood DEF ClassRequest
  <2>2. Settled(c, c) /\ Current(c)
    BY <2>1 DEF Good
  <2> QED
    BY <1>0, <1>1, <2>1, <2>2 DEF Settled
<1>2. CASE ControlAccepted(c)
  <2>1. v = Notify(w)
    BY <1>2 DEF ClassRequest
  <2>2. Settled(c, f) /\ ~f.ctrl_pending
    BY FinishSettled
  <2>3. f.attached
    BY <1>2 DEF ControlAccepted, FinishControl, Fresh, UsbfType
  <2>4. f \in UsbfType /\ Len(f.done) = Pending(c)
    <3>1. f \in UsbfType /\ Pending(f) = 0
      BY <2>2 DEF Settled, Pending
    <3>2. Len(f.done) \in Nat
      BY <3>1, LenProperties DEF UsbfType
    <3> QED
      BY <2>2, <3>1, <3>2 DEF Settled
  <2> HIDE DEF f
  <2>5. 0 \in SetupPositions
    BY UsbfAssumption DEF SetupPositions
  <2>6. f.latched \cup {"SETUP", "SETUP_OVR", "STATUS_RDY"} \in SUBSET IntEvents
    BY <2>4 DEF UsbfType, IntEvents, IntReg
  <2>7. w \in UsbfType /\ w.ctrl_pending /\ w.done = f.done /\ w.attached
    BY <2>3, <2>4, <2>5, <2>6 DEF UsbfType
  <2> HIDE DEF w
  <2>8. /\ Notify(w) \in UsbfType /\ Current(Notify(w))
        /\ Notify(w).ctrl_pending /\ Notify(w).done = f.done /\ Notify(w).attached
    BY <2>7, NotifyType DEF SameBus
  <2>9. Len(Notify(w).done) = Pending(c) /\ Pending(Notify(w)) = 1
    BY <2>4, <2>8 DEF Pending
  <2>10. NothingLeft(Notify(w))
    BY <2>8 DEF NothingLeft
  <2> QED
    BY <1>0, <1>2, <2>1, <2>8, <2>9, <2>10
<1> QED
  BY <1>1, <1>2

LEMMA MarkedType ==
    ASSUME NEW p \in Seq(Byte)
    PROVE  Marked(p) \in Seq([b : Byte, last : BOOLEAN])
<1> DEFINE n    == Len(p)
           T    == [b : Byte, last : BOOLEAN]
           e(i) == [b |-> p[i], last |-> i = n]
<1>1. n \in Nat /\ DOMAIN p = 1..n
  BY LenProperties
<1>2. \A i \in 1..n : e(i) \in T
  BY ElementOfSeq
<1>3. Marked(p) = [i \in 1..n |-> e(i)]
  BY <1>1 DEF Marked
<1> HIDE DEF n, T, e
<1>4. [i \in 1..n |-> e(i)] \in Seq(T)
  BY <1>1, <1>2
<1> QED
  BY <1>3, <1>4 DEF T

LEMMA HostOutGood ==
    ASSUME NEW c, Fresh(c), NEW p \in Seq(Byte), CanHostOut(c)
    PROVE  Good(c, HostOut(c, p))
<1> DEFINE s == c.out \o Marked(p)
           w == [c EXCEPT !.out = s]
<1>0. c \in UsbfType /\ c.attached
  BY DEF Fresh, CanHostOut
<1>1. CASE p = <<>>
  BY <1>1, FreshGood DEF HostOut
<1>2. CASE p # <<>>
  <2>1. s \in Seq([b : Byte, last : BOOLEAN])
    BY <1>0, MarkedType, ConcatProperties DEF UsbfType
  <2>2. HostOut(c, p) = Notify(w)
    BY <1>2 DEF HostOut
  <2> HIDE DEF s
  <2>3. /\ w \in UsbfType /\ w.done = c.done /\ w.ctrl_pending = c.ctrl_pending
        /\ w.attached = c.attached /\ w.address = c.address /\ w.config = c.config
    BY <1>0, <2>1 DEF UsbfType
  <2> HIDE DEF w
  <2>4. Settled(c, w)
    BY <1>0, <2>3, OutSettled
  <2> QED
    BY <2>2, <2>4, NotifySettled DEF Good
<1> QED
  BY <1>1, <1>2

LEMMA HostInGood ==
    ASSUME NEW c, Fresh(c)
    PROVE  /\ CanHostIn(c) => Good(c, HostIn(c))
           /\ Good(c, HostIntrIn(c))
<1>0. c \in UsbfType
  BY DEF Fresh
<1>1. ASSUME CanHostIn(c) PROVE Good(c, HostIn(c))
  <2> DEFINE s == Tail(c.in)
             w == [c EXCEPT !.in = s]
  <2>1. s \in Seq(Seq(Byte))
    BY <1>0, <1>1, HeadTailProperties DEF CanHostIn, UsbfType
  <2>2. HostIn(c) = Notify(w)
    BY DEF HostIn
  <2> HIDE DEF s
  <2>3. w \in UsbfType /\ SameBus(c, w)
    BY <1>0, <2>1 DEF UsbfType, SameBus
  <2> QED
    BY <2>2, <2>3, NotifyGood
<1>2. Good(c, HostIntrIn(c))
  <2> DEFINE w == [c EXCEPT !.ep3 = <<>>]
  <2>1. w \in UsbfType /\ SameBus(c, w)
    BY <1>0, EmptySeq DEF UsbfType, SameBus
  <2> QED
    BY <2>1, NotifyGood DEF HostIntrIn
<1> QED
  BY <1>1, <1>2

--------------------------------------------------------------------------------
(***************************************************************************)
(* The inductive invariant: each property needs the type of the record,    *)
(* and a class request needs the three together, since what it is answered *)
(* with depends on ctrl_pending, which only an attached controller has.    *)
(***************************************************************************)
IInv ==
    /\ u \in UsbfType
    /\ IrqLineCurrent
    /\ NothingLeftWhenDetached
    /\ AnsweredOnce

LEMMA ClearFresh ==
    ASSUME IInv
    PROVE  /\ Fresh(Unreported)
           /\ Pending(Unreported) = Pending(u)
           /\ owed = Pending(u)
           /\ ControlAccepted(Unreported) = ControlAccepted(u)
<1> DEFINE c == Unreported
<1>1. u \in UsbfType
  BY DEF IInv
<1>2. /\ c \in UsbfType /\ c.done = <<>>
      /\ c.irq = u.irq /\ c.unit_en = u.unit_en /\ c.top_en = u.top_en
      /\ c.top_latched = u.top_latched /\ c.ep1_req = u.ep1_req
      /\ c.in = u.in /\ c.latched = u.latched /\ c.ep1_off = u.ep1_off
      /\ c.intmask = u.intmask /\ c.out = u.out /\ c.desc_ok = u.desc_ok
      /\ c.attached = u.attached /\ c.ctrl_pending = u.ctrl_pending
      /\ c.address = u.address /\ c.config = u.config
  BY <1>1, EmptySeq DEF Unreported, UsbfType
<1> HIDE DEF c
<1>3. IrqPending(c) = IrqPending(u)
  BY <1>2 DEF IrqPending, TopStat, CorePending, IntStat
<1>4. Current(c)
  BY <1>2, <1>3 DEF Current, IInv, IrqLineCurrent
<1>5. NothingLeft(c)
  BY <1>2 DEF NothingLeft, IInv, NothingLeftWhenDetached
<1>6. Fresh(c) /\ Pending(c) = Pending(u)
  BY <1>2, <1>4, <1>5 DEF Fresh, Pending
<1>7. owed = Pending(u)
  BY DEF IInv, AnsweredOnce, Pending
<1>8. ControlAccepted(c) = ControlAccepted(u)
  BY <1>2 DEF ControlAccepted, DescriptorsReady
<1> QED
  BY <1>6, <1>7, <1>8 DEF c

LEMMA BecomesKeeps ==
    ASSUME IInv, NEW v, Good(Unreported, v), Becomes(v)
    PROVE  IInv'
<1>1. v \in UsbfType /\ Current(v) /\ NothingLeft(v)
  BY DEF Good, Settled
<1>2. Len(v.done) + Pending(v) = owed
  BY ClearFresh DEF Good, Settled
<1>3. Len(v.done) \in Nat /\ Pending(v) \in Nat
  BY <1>1, LenProperties DEF UsbfType, Pending
<1>4. u' = v /\ owed' = Pending(v)
  BY <1>2, <1>3 DEF Becomes
<1> QED
  BY <1>1, <1>4 DEF IInv, IrqLineCurrent, NothingLeftWhenDetached, AnsweredOnce,
                    Current, NothingLeft, Pending

LEMMA DataPacketsType == DataPackets \subseteq Seq(Byte) /\ Data \subseteq Byte
<1>1. Datum \in Byte
  BY UsbfAssumption DEF Datum
<1>2. Packet \subseteq Seq(Byte)
  BY DEF Packet
<1>3. \A n \in 0..MaxPacket : [i \in 1..n |-> Datum] \in Seq(Byte)
  <2> TAKE n \in 0..MaxPacket
  <2>1. n \in Nat
    BY UsbfAssumption
  <2> DEFINE d == Datum
  <2> HIDE DEF d
  <2>2. [i \in 1..n |-> d] \in Seq(Byte)
    BY <1>1, <2>1 DEF d
  <2> QED
    BY <2>2 DEF d
<1>4. {0, MaxPacket} \subseteq 0..MaxPacket
  BY UsbfAssumption
<1> QED
  BY <1>1, <1>2, <1>3, <1>4 DEF DataPackets, Data

LEMMA GuestKeeps ==
    ASSUME IInv, Guest
    PROVE  IInv'
<1> DEFINE c == Unreported
<1>0. Fresh(c)
  BY ClearFresh
<1>1. CASE GuestReadsOut
  <2>1. \/ \E n \in 1..MaxPacket : Becomes(DmaRx(c, n))
        \/ Becomes(ReadOutFifo(c))
    BY <1>1 DEF GuestReadsOut
  <2>2. CASE Becomes(ReadOutFifo(c))
    BY <1>0, <2>2, ReadOutFifoGood, BecomesKeeps
  <2>3. ASSUME NEW n \in 1..MaxPacket, Becomes(DmaRx(c, n)) PROVE IInv'
    <3>1. n \in Nat
      OBVIOUS
    <3> QED
      BY <1>0, <2>3, <3>1, DmaRxGood, BecomesKeeps
  <2> QED
    BY <2>1, <2>2, <2>3
<1>2. CASE GuestFillsIn
  <2>1. \/ \E p \in Seq(Byte) : Becomes(DmaTx(c, p))
        \/ Becomes(ClearEp1Fill(c))
        \/ \E b \in BOOLEAN : Becomes(WriteEp1Ctrl(c, b))
        \/ \E b \in Byte : Becomes(WriteEp3Fifo(c, b))
    BY <1>2, DataPacketsType DEF GuestFillsIn, Plain
  <2>2. CASE \E p \in Seq(Byte) : Becomes(DmaTx(c, p))
    BY <1>0, <2>2, DmaTxGood, BecomesKeeps
  <2>3. CASE Becomes(ClearEp1Fill(c)) \/ \E b \in BOOLEAN : Becomes(WriteEp1Ctrl(c, b))
    BY <1>0, <2>3, StoresGood, BecomesKeeps
  <2>4. CASE \E b \in Byte : Becomes(WriteEp3Fifo(c, b))
    BY <1>0, <2>4, WriteEp3FifoGood, BecomesKeeps
  <2> QED
    BY <2>1, <2>2, <2>3, <2>4
<1>3. CASE GuestCommits
  BY <1>0, <1>3, CommitGood, BecomesKeeps DEF GuestCommits, Plain
<1>4. CASE GuestServesSetup
  BY <1>0, <1>4, ReadSetupFifoGood, Ep0StallGood, BecomesKeeps
     DEF GuestServesSetup, Plain
<1>5. CASE GuestHandlesIrq
  <2>1. \/ \E top \in SUBSET TopEvents :
              Becomes(WriteTopClr(c, top)) \/ Becomes(WriteTopEn(c, top))
        \/ \E i \in 1..3, ev \in SUBSET IntEvents :
              Becomes(WriteIntMask(c, i, ev)) \/ Becomes(WriteIntClr(c, i, ev))
    BY <1>5, MachineAssumption DEF GuestHandlesIrq, Plain
  <2> QED
    BY <1>0, <2>1, StoresGood, BecomesKeeps
<1>6. CASE GuestPowers
  <2>1. \/ \E b \in BOOLEAN : Becomes(WriteUnitEn(c, b)) \/ Becomes(WriteDesc(c, b))
        \/ Becomes(WriteEp1Off(c)) \/ Becomes(ResetPulse(c)) \/ Becomes(UsbfReset(c))
    BY <1>6 DEF GuestPowers, Plain, Flushes
  <2>2. CASE \E b \in BOOLEAN : Becomes(WriteUnitEn(c, b)) \/ Becomes(WriteDesc(c, b))
    BY <1>0, <2>2, StoresGood, WriteDescGood, BecomesKeeps
  <2>3. CASE Becomes(WriteEp1Off(c))
    BY <1>0, <2>3, StoresGood, BecomesKeeps
  <2>4. CASE Becomes(ResetPulse(c)) \/ Becomes(UsbfReset(c))
    BY <1>0, <2>4, ResetPulseGood, UsbfResetGood, BecomesKeeps
  <2> QED
    BY <2>1, <2>2, <2>3, <2>4
<1> QED
  BY <1>1, <1>2, <1>3, <1>4, <1>5, <1>6 DEF Guest

LEMMA HostKeeps ==
    ASSUME IInv, Host
    PROVE  IInv'
<1> DEFINE c == Unreported
<1>0. Fresh(c)
  BY ClearFresh
<1>1. CASE HostPlugs
  <2>1. \E b \in BOOLEAN : Becomes(HostAttach(c, b))
    BY <1>1 DEF HostPlugs, Plain, Flushes
  <2> QED
    BY <1>0, <2>1, HostAttachGood, BecomesKeeps
<1>2. CASE HostResets
  BY <1>0, <1>2, HostBusResetGood, BecomesKeeps DEF HostResets, Flushes
<1>3. CASE HostConfigures
  <2>1. \E n \in Nat : Becomes(SetAddress(c, n)) \/ Becomes(SetConfiguration(c, n))
    BY <1>3 DEF HostConfigures, Plain
  <2> QED
    BY <1>0, <2>1, SetAddressGood, SetConfigurationGood, BecomesKeeps
<1>4. CASE HostRequests
  <2> DEFINE v == ClassRequest(c)
             k == IF ControlAccepted(u) THEN 1 ELSE 0
  <2>1. u' = v /\ owed' = owed + k - Len(v.done)
    BY <1>4 DEF HostRequests
  <2>2. /\ v \in UsbfType /\ Current(v) /\ NothingLeft(v)
        /\ Len(v.done) + Pending(v) = owed + k
    BY <1>0, ClearFresh, ClassRequestGood
  <2>3. owed \in Nat /\ k \in Nat /\ Len(v.done) \in Nat /\ Pending(v) \in Nat
    BY <2>2, ClearFresh, LenProperties DEF UsbfType, Pending
  <2> HIDE DEF v, k
  <2>4. owed' = Pending(v)
    <3> DEFINE l == Len(v.done)
               m == Pending(v)
    <3>1. owed' = owed + k - l /\ l + m = owed + k
      BY <2>1, <2>2
    <3>2. owed \in Nat /\ k \in Nat /\ l \in Nat /\ m \in Nat
      BY <2>3
    <3> HIDE DEF l, m
    <3> SUFFICES owed' = m
      BY DEF m
    <3> QED
      BY <3>1, <3>2
  <2> QED
    BY <2>1, <2>2, <2>4 DEF IInv, IrqLineCurrent, NothingLeftWhenDetached,
                            AnsweredOnce, Current, NothingLeft, Pending
<1>5. CASE HostSends
  <2>1. CanHostOut(u) /\ \E p \in Seq(Byte) : Becomes(HostOut(c, p))
    BY <1>5, DataPacketsType DEF HostSends, Plain
  <2>2. CanHostOut(c)
    BY <2>1 DEF CanHostOut, OutCount, Unreported, IInv, UsbfType
  <2> QED
    BY <1>0, <2>1, <2>2, HostOutGood, BecomesKeeps
<1>6. CASE HostTakes
  <2>1. CanHostIn(u) => CanHostIn(c)
    BY DEF CanHostIn, Unreported, IInv, UsbfType
  <2>2. (CanHostIn(u) /\ Becomes(HostIn(c))) \/ Becomes(HostIntrIn(c))
    BY <1>6 DEF HostTakes, Plain
  <2> QED
    BY <1>0, <2>1, <2>2, HostInGood, BecomesKeeps
<1> QED
  BY <1>1, <1>2, <1>3, <1>4, <1>5, <1>6 DEF Host

LEMMA InitIInv == Init => IInv
<1> SUFFICES ASSUME Init PROVE IInv
  OBVIOUS
<1>1. UsbfInit \in UsbfType
  BY UsbfAssumption, EmptySeq DEF UsbfInit, UsbfType, SetupPositions
<1>2. IrqPending(UsbfInit) = FALSE /\ UsbfInit.irq = FALSE
  BY DEF UsbfInit, IrqPending
<1> QED
  BY <1>1, <1>2 DEF Init, IInv, IrqLineCurrent, NothingLeftWhenDetached,
                    AnsweredOnce, UsbfInit

(***************************************************************************)
(* Whatever the guest and the bus do: the level the machine was last told  *)
(* is current, nothing of an attachment outlives it, and every class       *)
(* request that was accepted is answered once or still with the guest.     *)
(***************************************************************************)
THEOREM ControllerCorrect ==
    Spec => [](IrqLineCurrent /\ NothingLeftWhenDetached /\ AnsweredOnce)
<1>1. IInv /\ [Next]_vars => IInv'
  <2>1. ASSUME IInv, Next PROVE IInv'
    BY <2>1, GuestKeeps, HostKeeps DEF Next
  <2>2. ASSUME IInv, UNCHANGED vars PROVE IInv'
    BY <2>2 DEF vars, IInv, IrqLineCurrent, NothingLeftWhenDetached, AnsweredOnce
  <2> QED
    BY <2>1, <2>2
<1>2. IInv => IrqLineCurrent /\ NothingLeftWhenDetached /\ AnsweredOnce
  BY DEF IInv
<1> QED
  BY <1>1, <1>2, InitIInv, PTL DEF Spec

(***************************************************************************)
(* The three separately.  The interrupt line: no access of the guest and   *)
(* no event of the bus changes usbf_irq_pending unnoticed.                 *)
(***************************************************************************)
THEOREM LineStaysCurrent == Spec => []IrqLineCurrent
BY ControllerCorrect, PTL

(***************************************************************************)
(* The attachment: no data, request, address or configuration outlives it. *)
(***************************************************************************)
THEOREM DetachedIsClean == Spec => []NothingLeftWhenDetached
BY ControllerCorrect, PTL

(***************************************************************************)
(* The class requests: each that was accepted is answered once or is still *)
(* with the guest.                                                         *)
(***************************************************************************)
THEOREM RequestsAnsweredOnce == Spec => []AnsweredOnce
BY ControllerCorrect, PTL

--------------------------------------------------------------------------------
(***************************************************************************)
(* The two endpoints as pipes.  An access leaves both queues alone but for *)
(* at most one packet it adds to the IN queue, or it is one of the three   *)
(* that move data, or it empties both.                                     *)
(***************************************************************************)
Boxed(w) == w \in UsbfType /\ w.in \in Seq(Packet) /\ w.in_stage \in Packet

FillsIn(c, w) ==
    /\ w.out = c.out
    /\ w.in_stage \in Packet
    /\ w.in = c.in \/ \E p \in Packet : w.in = Append(c.in, p)

Emptied(w) == w.out = <<>> /\ w.in = <<>> /\ w.in_stage = <<>>

\* w has the queues of v.
SameQueues(v, w) == w.out = v.out /\ w.in = v.in /\ w.in_stage = v.in_stage

LEMMA EmptyPacket == <<>> \in Packet
<1>1. 0 \in 0..MaxPacket
  BY UsbfAssumption
<1>2. <<>> \in [1..0 -> Byte]
  OBVIOUS
<1> QED
  BY <1>1, <1>2 DEF Packet

LEMMA NotifyQueues ==
    ASSUME NEW w \in UsbfType
    PROVE  SameQueues(w, Notify(w))
BY DEF Notify, UsbfType, SameQueues

LEMMA FinishQueues ==
    ASSUME NEW c \in UsbfType, NEW status \in {"ok", "stall"}
    PROVE  /\ FinishControl(c, status) \in UsbfType
           /\ SameQueues(c, FinishControl(c, status))
<1>1. CASE ~c.ctrl_pending
  BY <1>1 DEF FinishControl, SameQueues
<1>2. CASE c.ctrl_pending
  <2> DEFINE d == Append(c.done, status)
             w == [c EXCEPT !.ctrl_pending = FALSE, !.done = d]
  <2>1. d \in Seq({"ok", "stall"})
    BY AppendProperties DEF UsbfType
  <2>2. FinishControl(c, status) = w
    BY <1>2 DEF FinishControl
  <2> HIDE DEF d
  <2>3. w \in UsbfType /\ SameQueues(c, w)
    BY <2>1 DEF UsbfType, SameQueues
  <2> QED
    BY <2>2, <2>3
<1> QED
  BY <1>1, <1>2

LEMMA KeepsFill ==
    ASSUME NEW c, Boxed(c), NEW w \in UsbfType, SameQueues(c, w)
    PROVE  FillsIn(c, Notify(w))
<1>1. SameQueues(w, Notify(w))
  BY NotifyQueues
<1> QED
  BY <1>1 DEF Boxed, FillsIn, SameQueues

LEMMA StoresFill ==
    ASSUME NEW c, Boxed(c)
    PROVE  /\ \A b \in BOOLEAN :
                /\ FillsIn(c, WriteUnitEn(c, b)) /\ FillsIn(c, WriteEp1Ctrl(c, b))
                /\ FillsIn(c, WriteDesc(c, b))
           /\ \A top \in SUBSET TopEvents :
                FillsIn(c, WriteTopClr(c, top)) /\ FillsIn(c, WriteTopEn(c, top))
           /\ \A i \in 1..3, ev \in SUBSET IntEvents :
                FillsIn(c, WriteIntClr(c, i, ev)) /\ FillsIn(c, WriteIntMask(c, i, ev))
           /\ FillsIn(c, WriteEp1Off(c)) /\ FillsIn(c, ClearEp1Fill(c))
<1>0. c \in UsbfType
  BY DEF Boxed
<1>1. ASSUME NEW b \in BOOLEAN
      PROVE  /\ FillsIn(c, WriteUnitEn(c, b)) /\ FillsIn(c, WriteEp1Ctrl(c, b))
             /\ FillsIn(c, WriteDesc(c, b))
  <2>1. /\ [c EXCEPT !.unit_en = b] \in UsbfType
        /\ SameQueues(c, [c EXCEPT !.unit_en = b])
    BY <1>0 DEF UsbfType, SameQueues
  <2>2. /\ [c EXCEPT !.ep1_req = b] \in UsbfType
        /\ SameQueues(c, [c EXCEPT !.ep1_req = b])
    BY <1>0 DEF UsbfType, SameQueues
  <2>3. SameQueues(c, WriteDesc(c, b))
    BY <1>0 DEF UsbfType, SameQueues, WriteDesc
  <2>4. FillsIn(c, WriteDesc(c, b))
    BY <2>3 DEF Boxed, FillsIn, SameQueues
  <2> QED
    BY <2>1, <2>2, <2>4, KeepsFill DEF WriteUnitEn, WriteEp1Ctrl
<1>2. ASSUME NEW top \in SUBSET TopEvents
      PROVE  FillsIn(c, WriteTopClr(c, top)) /\ FillsIn(c, WriteTopEn(c, top))
  <2> DEFINE s == c.top_latched \ top
  <2>0. s \in SUBSET TopEvents
    BY <1>0 DEF UsbfType
  <2>1. WriteTopClr(c, top) = Notify([c EXCEPT !.top_latched = s])
    BY DEF WriteTopClr
  <2> HIDE DEF s
  <2>2. /\ [c EXCEPT !.top_latched = s] \in UsbfType
        /\ SameQueues(c, [c EXCEPT !.top_latched = s])
    BY <1>0, <2>0 DEF UsbfType, SameQueues
  <2>3. /\ [c EXCEPT !.top_en = top] \in UsbfType
        /\ SameQueues(c, [c EXCEPT !.top_en = top])
    BY <1>0 DEF UsbfType, SameQueues
  <2> QED
    BY <2>1, <2>2, <2>3, KeepsFill DEF WriteTopEn
<1>3. ASSUME NEW i \in 1..3, NEW ev \in SUBSET IntEvents
      PROVE  FillsIn(c, WriteIntClr(c, i, ev)) /\ FillsIn(c, WriteIntMask(c, i, ev))
  <2> DEFINE s == c.latched \ (IntReg[i] \ ev)
             t == (c.intmask \ IntReg[i]) \cup (ev \cap IntReg[i])
  <2>0. s \in SUBSET IntEvents /\ t \in SUBSET IntEvents
    BY <1>0 DEF UsbfType
  <2>1. /\ WriteIntClr(c, i, ev) = Notify([c EXCEPT !.latched = s])
        /\ WriteIntMask(c, i, ev) = Notify([c EXCEPT !.intmask = t])
    BY DEF WriteIntClr, WriteIntMask
  <2> HIDE DEF s, t
  <2>2. /\ [c EXCEPT !.latched = s] \in UsbfType
        /\ SameQueues(c, [c EXCEPT !.latched = s])
    BY <1>0, <2>0 DEF UsbfType, SameQueues
  <2>3. /\ [c EXCEPT !.intmask = t] \in UsbfType
        /\ SameQueues(c, [c EXCEPT !.intmask = t])
    BY <1>0, <2>0 DEF UsbfType, SameQueues
  <2> QED
    BY <2>1, <2>2, <2>3, KeepsFill
<1>4. FillsIn(c, WriteEp1Off(c)) /\ FillsIn(c, ClearEp1Fill(c))
  <2>1. /\ [c EXCEPT !.ep1_off = TRUE] \in UsbfType
        /\ SameQueues(c, [c EXCEPT !.ep1_off = TRUE])
    BY <1>0 DEF UsbfType, SameQueues
  <2> DEFINE w == [c EXCEPT !.in_stage = <<>>]
  <2>2. /\ w \in UsbfType
        /\ w.out = c.out /\ w.in = c.in /\ w.in_stage = <<>>
    BY <1>0, EmptySeq DEF UsbfType
  <2>3. ClearEp1Fill(c) = Notify(w)
    BY DEF ClearEp1Fill
  <2> HIDE DEF w
  <2>4. FillsIn(c, ClearEp1Fill(c))
    BY <2>2, <2>3, NotifyQueues, EmptyPacket DEF FillsIn, SameQueues
  <2> QED
    BY <2>1, <2>4, KeepsFill DEF WriteEp1Off
<1> QED
  BY <1>1, <1>2, <1>3, <1>4

LEMMA ReadSetupFill ==
    ASSUME NEW c, Boxed(c)
    PROVE  FillsIn(c, ReadSetupFifo(c)) /\ FillsIn(c, Ep0Stall(c))
<1>0. c \in UsbfType
  BY DEF Boxed
<1>1. FillsIn(c, c)
  BY DEF Boxed, FillsIn
<1>2. FillsIn(c, ReadSetupFifo(c))
  <2>1. CASE c.setup_pos >= SetupLen
    BY <1>1, <2>1 DEF ReadSetupFifo
  <2>2. CASE ~(c.setup_pos >= SetupLen)
    <3> DEFINE n == c.setup_pos + 1
               v == [c EXCEPT !.setup_pos = n]
               s == v.latched \ {"SETUP"}
               w == [v EXCEPT !.latched = s]
    <3>1. n \in SetupPositions
      BY <1>0, <2>2, UsbfAssumption DEF UsbfType, SetupPositions
    <3>2. ReadSetupFifo(c) = IF v.setup_pos = SetupLen THEN Notify(w) ELSE v
      BY <2>2 DEF ReadSetupFifo
    <3> HIDE DEF n
    <3>3. v \in UsbfType /\ SameQueues(c, v)
      BY <1>0, <3>1 DEF UsbfType, SameQueues
    <3> HIDE DEF v
    <3>4. s \in SUBSET IntEvents
      BY <3>3 DEF UsbfType
    <3> HIDE DEF s
    <3>5. w \in UsbfType /\ SameQueues(v, w)
      BY <3>3, <3>4 DEF UsbfType, SameQueues
    <3>6. FillsIn(c, v) /\ SameQueues(c, w)
      BY <3>3, <3>5 DEF Boxed, FillsIn, SameQueues
    <3> QED
      BY <3>2, <3>5, <3>6, KeepsFill
  <2> QED
    BY <2>1, <2>2
<1>3. FillsIn(c, Ep0Stall(c))
  BY <1>0, FinishQueues, KeepsFill DEF Ep0Stall
<1> QED
  BY <1>2, <1>3

(***************************************************************************)
(* usbf_queue_in, with and without room.                                   *)
(***************************************************************************)
LEMMA QueueInFill ==
    ASSUME NEW c, NEW v \in UsbfType, FillsIn(c, v), v.in = c.in
    PROVE  QueueIn(v) \in UsbfType /\ FillsIn(c, QueueIn(v))
<1>1. QueueIn(v) \in UsbfType
  BY QueueInType
<1> DEFINE s == Append(v.in, v.in_stage)
           a == [v EXCEPT !.in = s, !.in_stage = <<>>]
           b == [v EXCEPT !.in_stage = <<>>]
<1>2. /\ QueueIn(v) = a \/ QueueIn(v) = b
      /\ v.in_stage \in Packet /\ s = Append(c.in, v.in_stage)
  BY DEF QueueIn, FillsIn
<1> HIDE DEF s
<1>3. a.out = v.out /\ a.in = s /\ a.in_stage = <<>>
  BY DEF UsbfType
<1>4. b.out = v.out /\ b.in = v.in /\ b.in_stage = <<>>
  BY DEF UsbfType
<1>5. FillsIn(c, a) /\ FillsIn(c, b)
  <2> HIDE DEF a, b
  <2> QED
    BY <1>2, <1>3, <1>4, EmptyPacket DEF FillsIn
<1> QED
  BY <1>1, <1>2, <1>5

LEMMA DmaTxFill ==
    ASSUME NEW c, Boxed(c), NEW p \in Packet
    PROVE  FillsIn(c, DmaTx(c, p))
<1> DEFINE v == [c EXCEPT !.in_stage = p]
           w == IF Len(p) = MaxPacket THEN QueueIn(v) ELSE v
           t == w.top_latched \cup {"TX_DONE"}
           x == [w EXCEPT !.top_latched = t]
<1>1. v \in UsbfType /\ v.out = c.out /\ v.in = c.in /\ v.in_stage = p
  <2>1. p \in Seq(Byte)
    BY DEF Packet
  <2> QED
    BY <2>1 DEF Boxed, UsbfType
<1>2. DmaTx(c, p) = Notify(x)
  BY DEF DmaTx
<1> HIDE DEF v
<1>3. w \in UsbfType /\ FillsIn(c, w)
  BY <1>1, QueueInFill DEF FillsIn
<1> HIDE DEF w
<1>4. t \in SUBSET TopEvents
  BY <1>3 DEF UsbfType, TopEvents
<1> HIDE DEF t
<1>5. x \in UsbfType /\ SameQueues(w, x)
  BY <1>3, <1>4 DEF UsbfType, SameQueues
<1>6. SameQueues(x, Notify(x))
  BY <1>5, NotifyQueues
<1> QED
  BY <1>2, <1>3, <1>5, <1>6 DEF FillsIn, SameQueues

LEMMA CommitFill ==
    ASSUME NEW c, Boxed(c), NEW eps \in SUBSET {0, 1, 3}
    PROVE  FillsIn(c, Commit(c, eps))
<1> DEFINE a == IF 0 \in eps THEN CommitEp0(c) ELSE c
           b == IF 1 \in eps THEN QueueIn(a) ELSE a
           d == IF 3 \in eps THEN CommitEp3(b) ELSE b
<1>1. a \in UsbfType /\ SameQueues(c, a)
  <2>1. CASE 0 \in eps
    <3> DEFINE s == c.latched \cup {"STATUS_DONE"}
               v == [c EXCEPT !.latched = s]
    <3>1. s \in SUBSET IntEvents
      BY DEF Boxed, UsbfType, IntEvents, IntReg
    <3>2. a = FinishControl(v, "ok")
      BY <2>1 DEF CommitEp0
    <3> HIDE DEF s
    <3>3. v \in UsbfType /\ SameQueues(c, v)
      BY <3>1 DEF Boxed, UsbfType, SameQueues
    <3> HIDE DEF v
    <3> QED
      BY <3>2, <3>3, FinishQueues DEF SameQueues
  <2>2. CASE 0 \notin eps
    BY <2>2 DEF Boxed, SameQueues
  <2> QED
    BY <2>1, <2>2
<1>2. Commit(c, eps) = Notify(d)
  BY DEF Commit
<1> HIDE DEF a
<1>3. b \in UsbfType /\ FillsIn(c, b)
  <2>1. FillsIn(c, a) /\ a.in = c.in
    BY <1>1 DEF Boxed, FillsIn, SameQueues
  <2> QED
    BY <1>1, <2>1, QueueInFill
<1> HIDE DEF b
<1>4. d \in UsbfType /\ SameQueues(b, d)
  <2>1. CASE 3 \in eps
    <3>1. CommitEp3(b) \in UsbfType
      BY <1>3, CommitEp3Type
    <3>2. SameQueues(b, CommitEp3(b))
      BY <1>3 DEF CommitEp3, UsbfType, SameQueues
    <3> QED
      BY <2>1, <3>1, <3>2
  <2>2. CASE 3 \notin eps
    BY <1>3, <2>2 DEF SameQueues
  <2> QED
    BY <2>1, <2>2
<1> HIDE DEF d
<1>5. SameQueues(d, Notify(d))
  BY <1>4, NotifyQueues
<1> QED
  BY <1>2, <1>3, <1>4, <1>5 DEF FillsIn, SameQueues

(***************************************************************************)
(* What ends a session: both queues are emptied.                           *)
(***************************************************************************)
LEMMA FlushEmpties ==
    ASSUME NEW c \in UsbfType
    PROVE  FlushFifos(c) \in UsbfType /\ Emptied(FlushFifos(c))
<1>1. FlushFifos(c) \in UsbfType
  BY FlushType
<1> QED
  BY <1>1 DEF FlushFifos, UsbfType, Emptied

LEMMA NotifyEmpties ==
    ASSUME NEW w \in UsbfType, Emptied(w)
    PROVE  Emptied(Notify(w))
BY NotifyQueues DEF Emptied, SameQueues

LEMMA ResetEmpties ==
    ASSUME NEW c \in UsbfType
    PROVE  Emptied(ResetPulse(c)) /\ Emptied(UsbfReset(c))
<1>1. Emptied(ResetPulse(c))
  <2> DEFINE f == FlushFifos(FinishControl(c, "stall"))
             w == [f EXCEPT !.latched = {}, !.top_latched = {}, !.ep1_off = FALSE]
  <2>1. f \in UsbfType /\ Emptied(f)
    BY FinishQueues, FlushEmpties
  <2>2. ResetPulse(c) = Notify(w)
    BY DEF ResetPulse
  <2> HIDE DEF f
  <2>3. w \in UsbfType /\ Emptied(w)
    BY <2>1 DEF UsbfType, Emptied
  <2> QED
    BY <2>2, <2>3, NotifyEmpties
<1>2. Emptied(UsbfReset(c))
  <2> DEFINE f == FinishControl(c, "stall")
             w == [UsbfInit EXCEPT !.attached = c.attached, !.done = f.done]
  <2>1. f \in UsbfType
    BY FinishQueues
  <2>2. UsbfInit \in UsbfType /\ Emptied(UsbfInit)
    BY UsbfAssumption, EmptySeq DEF UsbfInit, UsbfType, SetupPositions, Emptied
  <2>3. UsbfReset(c) = Notify(w)
    BY DEF UsbfReset
  <2>4. c.attached \in BOOLEAN /\ f.done \in Seq({"ok", "stall"})
    BY <2>1 DEF UsbfType
  <2> HIDE DEF f
  <2>5. w \in UsbfType /\ Emptied(w)
    BY <2>2, <2>4 DEF UsbfType, Emptied
  <2> QED
    BY <2>3, <2>5, NotifyEmpties
<1> QED
  BY <1>1, <1>2

LEMMA UnpluggedEmpties ==
    ASSUME NEW c \in UsbfType
    PROVE  Unplugged(c) \in UsbfType /\ Emptied(Unplugged(c))
<1> DEFINE f == FlushFifos(FinishControl(c, "stall"))
           w == [f EXCEPT !.address = 0, !.config = 0]
<1>1. f \in UsbfType /\ Emptied(f)
  BY FinishQueues, FlushEmpties
<1>2. Unplugged(c) = w
  BY DEF Unplugged
<1> HIDE DEF f
<1>3. w \in UsbfType /\ Emptied(w)
  BY <1>1 DEF UsbfType, Emptied
<1> QED
  BY <1>2, <1>3

LEMMA HostEmpties ==
    ASSUME NEW c \in UsbfType
    PROVE  /\ Emptied(HostBusReset(c))
           /\ c.attached => Emptied(HostAttach(c, FALSE))
<1>1. Emptied(HostBusReset(c))
  <2> DEFINE f == Unplugged(c)
             s == f.latched \cup {"BUS_RESET"}
             w == [f EXCEPT !.latched = s]
  <2>1. f \in UsbfType /\ Emptied(f)
    BY UnpluggedEmpties
  <2>2. HostBusReset(c) = Notify(w)
    BY DEF HostBusReset
  <2> HIDE DEF f
  <2>3. s \in SUBSET IntEvents
    BY <2>1 DEF UsbfType, IntEvents, IntReg
  <2> HIDE DEF s
  <2>4. w \in UsbfType /\ Emptied(w)
    BY <2>1, <2>3 DEF UsbfType, Emptied
  <2> QED
    BY <2>2, <2>4, NotifyEmpties
<1>2. ASSUME c.attached PROVE Emptied(HostAttach(c, FALSE))
  <2> DEFINE v == [c EXCEPT !.attached = FALSE]
  <2>1. v \in UsbfType
    BY DEF UsbfType
  <2>2. HostAttach(c, FALSE) = Notify(Unplugged(v))
    BY <1>2 DEF HostAttach
  <2> HIDE DEF v
  <2> QED
    BY <2>1, <2>2, UnpluggedEmpties, NotifyEmpties
<1> QED
  BY <1>1, <1>2

(***************************************************************************)
(* The bus's requests leave the queues alone.                              *)
(***************************************************************************)
LEMMA HostFills ==
    ASSUME NEW c, Boxed(c)
    PROVE  /\ \A b \in BOOLEAN : b \/ ~c.attached => FillsIn(c, HostAttach(c, b))
           /\ \A n \in Nat :
                FillsIn(c, SetAddress(c, n)) /\ FillsIn(c, SetConfiguration(c, n))
           /\ FillsIn(c, ClassRequest(c)) /\ FillsIn(c, HostIntrIn(c))
<1>0. c \in UsbfType
  BY DEF Boxed
<1>1. FillsIn(c, c)
  BY DEF Boxed, FillsIn
<1>2. ASSUME NEW b \in BOOLEAN, b \/ ~c.attached
      PROVE  FillsIn(c, HostAttach(c, b))
  <2>1. CASE c.attached = b
    BY <1>1, <2>1 DEF HostAttach
  <2>2. CASE c.attached # b
    <3> DEFINE v == [c EXCEPT !.attached = TRUE]
    <3>1. HostAttach(c, b) = Notify(v)
      BY <1>0, <1>2, <2>2 DEF HostAttach, UsbfType
    <3>2. v \in UsbfType /\ SameQueues(c, v)
      BY <1>0 DEF UsbfType, SameQueues
    <3> QED
      BY <3>1, <3>2, KeepsFill
  <2> QED
    BY <2>1, <2>2
<1>3. ASSUME NEW n \in Nat
      PROVE  FillsIn(c, SetAddress(c, n)) /\ FillsIn(c, SetConfiguration(c, n))
  <2> DEFINE v == [c EXCEPT !.address = n]
             s == c.latched \cup {"CONFIG"}
             w == [c EXCEPT !.config = n, !.latched = s]
  <2>1. SetAddress(c, n) \in {c, v} /\ SetConfiguration(c, n) \in {c, Notify(w)}
    BY DEF SetAddress, SetConfiguration
  <2>2. s \in SUBSET IntEvents
    BY <1>0 DEF UsbfType, IntEvents, IntReg
  <2>3. FillsIn(c, v)
    BY <1>0 DEF UsbfType, Boxed, FillsIn
  <2> HIDE DEF s
  <2>4. w \in UsbfType /\ SameQueues(c, w)
    BY <1>0, <2>2 DEF UsbfType, SameQueues
  <2> QED
    BY <1>1, <2>1, <2>3, <2>4, KeepsFill
<1>4. FillsIn(c, ClassRequest(c))
  <2> DEFINE f == FinishControl(c, "stall")
             s == f.latched \cup {"SETUP", "SETUP_OVR", "STATUS_RDY"}
             w == [f EXCEPT !.setup_pos = 0, !.ctrl_pending = TRUE, !.latched = s]
  <2>1. f \in UsbfType /\ SameQueues(c, f)
    BY <1>0, FinishQueues
  <2>2. ClassRequest(c) \in {c, Notify(w)}
    BY DEF ClassRequest
  <2> HIDE DEF f
  <2>3. s \in SUBSET IntEvents
    BY <2>1 DEF UsbfType, IntEvents, IntReg
  <2> HIDE DEF s
  <2>4. 0 \in SetupPositions
    BY UsbfAssumption DEF SetupPositions
  <2>5. w \in UsbfType /\ SameQueues(f, w)
    BY <2>1, <2>3, <2>4 DEF UsbfType, SameQueues
  <2> HIDE DEF w
  <2> QED
    BY <1>1, <2>1, <2>2, <2>5, KeepsFill DEF SameQueues
<1>5. FillsIn(c, HostIntrIn(c))
  <2> DEFINE w == [c EXCEPT !.ep3 = <<>>]
  <2>1. w \in UsbfType /\ SameQueues(c, w)
    BY <1>0, EmptySeq DEF UsbfType, SameQueues
  <2> QED
    BY <2>1, KeepsFill DEF HostIntrIn
<1> QED
  BY <1>2, <1>3, <1>4, <1>5

--------------------------------------------------------------------------------
(***************************************************************************)
(* Lemmas about sequences: the two ways data enter and leave a pipe.       *)
(***************************************************************************)
Slot == [b : Byte, last : BOOLEAN]

LEMMA BytesProperties ==
    ASSUME NEW s \in Seq(Slot)
    PROVE  /\ Bytes(s) \in Seq(Byte) /\ Len(Bytes(s)) = Len(s)
           /\ \A i \in 1..Len(s) : Bytes(s)[i] = s[i].b
<1> DEFINE n == Len(s)
           e(i) == s[i].b
<1>1. n \in Nat /\ DOMAIN s = 1..n
  BY LenProperties
<1>2. \A i \in 1..n : e(i) \in Byte
  <2>1. \A i \in 1..n : s[i] \in Slot
    BY ElementOfSeq
  <2> QED
    BY <2>1 DEF Slot
<1>3. Bytes(s) = [i \in 1..n |-> e(i)]
  BY <1>1 DEF Bytes
<1> HIDE DEF n, e
<1>4. [i \in 1..n |-> e(i)] \in Seq(Byte) /\ Len([i \in 1..n |-> e(i)]) = n
  <2> DEFINE f == [i \in 1..n |-> e(i)]
  <2>1. f \in Seq(Byte) /\ DOMAIN f = 1..n
    BY <1>1, <1>2
  <2> HIDE DEF f
  <2>2. Len(f) = n
    BY <1>1, <2>1, LenProperties
  <2> QED
    BY <2>1, <2>2 DEF f
<1>5. \A i \in 1..n : Bytes(s)[i] = e(i)
  BY <1>3
<1>6. Bytes(s) \in Seq(Byte) /\ Len(Bytes(s)) = n
  BY <1>3, <1>4
<1> QED
  BY <1>5, <1>6 DEF n, e

LEMMA BytesOfRest ==
    ASSUME NEW s \in Seq(Slot), NEW k \in 0..Len(s)
    PROVE  /\ SubSeq(s, k + 1, Len(s)) \in Seq(Slot)
           /\ Bytes(SubSeq(s, k + 1, Len(s))) = SubSeq(Bytes(s), k + 1, Len(s))
<1> DEFINE n == Len(s)
           t == SubSeq(s, k + 1, n)
           r == SubSeq(Bytes(s), k + 1, n)
<1>1. n \in Nat
  BY LenProperties
<1>2. \A i \in (k + 1)..n : s[i] \in Slot /\ Bytes(s)[i] \in Byte
  <2> TAKE i \in (k + 1)..n
  <2>1. i \in 1..n
    BY <1>1
  <2> QED
    BY <2>1, ElementOfSeq, BytesProperties
<1>3. /\ t \in Seq(Slot) /\ Len(t) = n - k
      /\ \A i \in 1..(n - k) : t[i] = s[k + i]
  <2>1. /\ t \in Seq(Slot) /\ Len(t) = IF k + 1 <= n THEN n - (k + 1) + 1 ELSE 0
        /\ \A i \in 1..(n - (k + 1) + 1) : t[i] = s[k + 1 + i - 1]
    BY <1>1, <1>2, SubSeqProperties
  <2> QED
    BY <1>1, <2>1
<1>4. /\ r \in Seq(Byte) /\ Len(r) = n - k
      /\ \A i \in 1..(n - k) : r[i] = Bytes(s)[k + i]
  <2>1. /\ r \in Seq(Byte) /\ Len(r) = IF k + 1 <= n THEN n - (k + 1) + 1 ELSE 0
        /\ \A i \in 1..(n - (k + 1) + 1) : r[i] = Bytes(s)[k + 1 + i - 1]
    BY <1>1, <1>2, SubSeqProperties
  <2> QED
    BY <1>1, <2>1
<1>5. /\ Bytes(t) \in Seq(Byte) /\ Len(Bytes(t)) = n - k
      /\ \A i \in 1..(n - k) : Bytes(t)[i] = t[i].b
  BY <1>3, BytesProperties
<1>6. \A i \in 1..(n - k) : Bytes(t)[i] = r[i]
  <2> TAKE i \in 1..(n - k)
  <2>1. k + i \in 1..n
    BY <1>1
  <2> QED
    BY <1>3, <1>4, <1>5, <2>1, BytesProperties
<1>7. Bytes(t) = r
  BY <1>4, <1>5, <1>6, SeqEqual
<1> QED
  BY <1>3, <1>7

\* A pipe that holds s and is given t besides.
Longer(s, t) == Len(t) > Len(s) /\ SubSeq(t, 1, Len(s)) = s

LEMMA ConcatIsLonger ==
    ASSUME NEW S, NEW s \in Seq(S), NEW t \in Seq(S), t # <<>>
    PROVE  Longer(s, s \o t)
<1>1. Len(t) \in Nat \ {0} /\ Len(s) \in Nat
  BY LenProperties, EmptySeq
<1>2. Len(s \o t) = Len(s) + Len(t)
  BY ConcatProperties
<1>3. SubSeq(s \o t, 1, Len(s)) = s
  <2>1. \A i \in 1..Len(s) : (s \o t)[i] = s[i]
    BY <1>1, ConcatProperties
  <2>2. \A i \in 1..Len(s) : (s \o t)[i] \in S
    BY <2>1, ElementOfSeq
  <2>3. /\ SubSeq(s \o t, 1, Len(s)) \in Seq(S)
        /\ Len(SubSeq(s \o t, 1, Len(s))) = Len(s)
        /\ \A i \in 1..Len(s) : SubSeq(s \o t, 1, Len(s))[i] = (s \o t)[i]
    <3> DEFINE r == SubSeq(s \o t, 1, Len(s))
               n == Len(s)
    <3>1. /\ r \in Seq(S) /\ Len(r) = IF 1 <= n THEN n - 1 + 1 ELSE 0
          /\ \A i \in 1..(n - 1 + 1) : r[i] = (s \o t)[1 + i - 1]
      BY <1>1, <2>2, SubSeqProperties
    <3> HIDE DEF r, n
    <3>2. n \in Nat
      BY <1>1 DEF n
    <3>3. Len(r) = n
      BY <3>1, <3>2
    <3>4. ASSUME NEW i \in 1..n PROVE r[i] = (s \o t)[i]
      <4>1. i \in 1..(n - 1 + 1) /\ 1 + i - 1 = i
        BY <3>2
      <4> QED
        BY <3>1, <4>1
    <3> QED
      BY <3>1, <3>3, <3>4 DEF r, n
  <2> QED
    BY <2>1, <2>3, SeqEqual
<1> QED
  BY <1>1, <1>2, <1>3 DEF Longer

--------------------------------------------------------------------------------
(***************************************************************************)
(* The invariant of the pipes, beside IInv: the packets fit.               *)
(***************************************************************************)
PipeInv == IInv /\ Boxed(u) /\ session \in {0, 1}

Piped == /\ Boxed(u)' /\ session' \in {0, 1}
         /\ [OutPipe!Next]_(OutPipe!vars)
         /\ [InPipe!Next]_(InPipe!vars)

LEMMA SameReported ==
    ASSUME PipeInv
    PROVE  /\ Boxed(Unreported) /\ Fresh(Unreported)
           /\ SameQueues(u, Unreported)
           /\ Unreported.attached = u.attached
<1>1. Unreported \in UsbfType
  BY ClearFresh DEF PipeInv, Fresh
<1>2. SameQueues(u, Unreported) /\ Unreported.attached = u.attached
  BY DEF PipeInv, Boxed, UsbfType, Unreported, SameQueues
<1> QED
  BY <1>1, <1>2, ClearFresh DEF PipeInv, Boxed, SameQueues

\* A packet put in the IN queue.
LEMMA InPut ==
    ASSUME PipeInv, IInv', Observe, NEW p \in Packet, u'.in = Append(u.in, p),
           UNCHANGED <<taken, session, groups>>
    PROVE  [InPipe!Next]_(InPipe!vars)
<1>1. u.in \in Seq(Packet)
  BY DEF PipeInv, Boxed
<1>2. <<p>> \in Seq(Packet) /\ <<p>> # <<>>
  OBVIOUS
<1>3. u'.in = u.in \o <<p>> /\ u'.in \in Seq(Packet)
  BY <1>1, <1>2, AppendIsConcat, ConcatProperties
<1>4. Longer(u.in, u'.in)
  BY <1>1, <1>2, <1>3, ConcatIsLonger
<1>5. Watched(u.in) = u.in /\ Watched(u.in)' = u'.in
  BY DEF Watched, Observe
<1>6. InPipe!Put
  BY <1>3, <1>4, <1>5 DEF InPipe!Put, Longer
<1> QED
  BY <1>6 DEF InPipe!Next

LEMMA FilledPiped ==
    ASSUME PipeInv, IInv', NEW v, FillsIn(Unreported, v),
           u' = v, UNCHANGED <<got, taken, session, groups>>
    PROVE  Piped
<1>1. /\ u' = v /\ UNCHANGED <<got, taken, session, groups>>
  OBVIOUS
<1>2. /\ u'.out = u.out /\ u'.in_stage \in Packet
      /\ u'.in = u.in \/ \E p \in Packet : u'.in = Append(u.in, p)
  BY <1>1, SameReported DEF FillsIn, SameQueues
<1>3. u'.in \in Seq(Packet)
  BY <1>2, AppendProperties DEF PipeInv, Boxed
<1>4. Boxed(u)'
  BY <1>2, <1>3 DEF IInv, Boxed
<1>5. UNCHANGED OutPipe!vars
  BY <1>1, <1>2 DEF OutPipe!vars, Watched, Observe, Bytes
<1>6. [InPipe!Next]_(InPipe!vars)
  <2>1. CASE ~Observe \/ u'.in = u.in
    BY <1>1, <2>1 DEF InPipe!vars, Watched, Observe
  <2>2. CASE Observe /\ \E p \in Packet : u'.in = Append(u.in, p)
    BY <1>1, <2>2, InPut
  <2> QED
    BY <1>2, <2>1, <2>2
<1> QED
  BY <1>1, <1>4, <1>5, <1>6 DEF Piped, PipeInv

LEMMA FillPiped ==
    ASSUME PipeInv, IInv', NEW v, FillsIn(Unreported, v), Plain(v)
    PROVE  Piped
BY FilledPiped DEF Plain, Becomes

LEMMA FlushPiped ==
    ASSUME PipeInv, IInv', NEW v, Emptied(v), Flushes(v)
    PROVE  Piped
<1>1. /\ u' = v /\ UNCHANGED <<got, taken, groups>>
      /\ session' = IF Observe THEN 1 - session ELSE session
  BY DEF Flushes, Becomes
<1>2. u'.out = <<>> /\ u'.in = <<>> /\ u'.in_stage = <<>>
  BY <1>1 DEF Emptied
<1>3. Boxed(u)'
  BY <1>2, EmptyPacket, EmptySeq DEF IInv, Boxed
<1>4. session' \in {0, 1}
  BY <1>1 DEF PipeInv
<1>5. Bytes(u.out)' = <<>>
  BY <1>2 DEF Bytes
<1>6. CASE Observe
  <2>1. Watched(Bytes(u.out))' = <<>> /\ Watched(u.in)' = <<>>
    BY <1>1, <1>2, <1>5 DEF Watched
  <2>2. session' = 1 - session
    BY <1>1, <1>6
  <2> QED
    BY <1>1, <1>3, <1>4, <2>1, <2>2
       DEF Piped, OutPipe!Next, OutPipe!Reset, InPipe!Next, InPipe!Reset
<1>7. CASE ~Observe
  BY <1>1, <1>3, <1>4, <1>7
     DEF Piped, OutPipe!vars, InPipe!vars, Watched, Observe
<1> QED
  BY <1>6, <1>7

(***************************************************************************)
(* The guest's reads take from the OUT pipe what it finds there.           *)
(***************************************************************************)
LEMMA OutGets ==
    ASSUME PipeInv, IInv', NEW k \in 1..Len(u.out),
           u'.out = SubSeq(u.out, k + 1, Len(u.out)),
           u'.in = u.in, u'.in_stage = u.in_stage,
           got' = IF Observe THEN SubSeq(Bytes(u.out), 1, k) ELSE got,
           UNCHANGED <<taken, session, groups>>
    PROVE  Piped
<1>0. u.out \in Seq(Slot)
  BY DEF PipeInv, Boxed, UsbfType, Slot
<1>1. Boxed(u)' /\ session' \in {0, 1}
  BY DEF PipeInv, IInv, Boxed
<1>2. UNCHANGED InPipe!vars
  BY DEF InPipe!vars, Watched, Observe
<1>3. /\ Bytes(u.out)' = SubSeq(Bytes(u.out), k + 1, Len(u.out))
      /\ Len(Bytes(u.out)) = Len(u.out)
  <2>1. k \in 0..Len(u.out)
    BY <1>0, LenProperties
  <2> QED
    BY <1>0, <2>1, BytesOfRest, BytesProperties
<1>4. CASE Observe
  <2>1. /\ Watched(Bytes(u.out)) = Bytes(u.out)
        /\ Watched(Bytes(u.out))' = Bytes(u.out)'
    BY <1>4 DEF Watched, Observe
  <2>2. OutPipe!Get
    BY <1>3, <1>4, <2>1 DEF OutPipe!Get
  <2> QED
    BY <1>1, <1>2, <2>2 DEF Piped, OutPipe!Next
<1>5. CASE ~Observe
  <2>1. UNCHANGED OutPipe!vars
    BY <1>5 DEF OutPipe!vars, Watched, Observe
  <2> QED
    BY <1>1, <1>2, <2>1 DEF Piped
<1> QED
  BY <1>4, <1>5

\* A read of an empty FIFO.
LEMMA NothingToGet ==
    ASSUME PipeInv, IInv', u.out = <<>>, u'.out = <<>>,
           u'.in = u.in, u'.in_stage = u.in_stage,
           UNCHANGED <<got, taken, session, groups>>
    PROVE  Piped
<1>1. Boxed(u)' /\ session' \in {0, 1}
  BY DEF PipeInv, IInv, Boxed
<1>2. UNCHANGED InPipe!vars /\ UNCHANGED OutPipe!vars
  BY DEF InPipe!vars, OutPipe!vars, Watched, Observe, Bytes
<1> QED
  BY <1>1, <1>2 DEF Piped

LEMMA DmaRxQueues ==
    ASSUME NEW c \in UsbfType, NEW n \in Nat
    PROVE  LET w == DmaRx(c, n) IN
           /\ w.out = SubSeq(c.out, DmaRxCount(c, n) + 1, Len(c.out))
           /\ w.in = c.in /\ w.in_stage = c.in_stage
<1> DEFINE s == SubSeq(c.out, DmaRxCount(c, n) + 1, Len(c.out))
           t == c.top_latched \cup {"RX_DONE"}
           w == [c EXCEPT !.out = s, !.top_latched = t]
<1>1. DmaRx(c, n) = Notify(w)
  BY DEF DmaRx
<1>2. s \in Seq(Slot)
  <2>1. c.out \in Seq(Slot)
    BY DEF UsbfType, Slot
  <2>2. Len(c.out) \in Nat /\ DmaRxCount(c, n) \in 0..Len(c.out)
    BY <2>1, LenProperties DEF DmaRxCount
  <2> QED
    BY <2>1, <2>2, BytesOfRest
<1>3. t \in SUBSET TopEvents
  BY DEF UsbfType, TopEvents
<1> HIDE DEF s, t
<1>4. w \in UsbfType /\ w.out = s /\ w.in = c.in /\ w.in_stage = c.in_stage
  BY <1>2, <1>3 DEF UsbfType, Slot
<1> HIDE DEF w
<1>5. SameQueues(w, Notify(w))
  BY <1>4, NotifyQueues
<1> QED
  BY <1>1, <1>4, <1>5 DEF SameQueues, s

LEMMA ReadOutQueues ==
    ASSUME NEW c \in UsbfType
    PROVE  LET w == ReadOutFifo(c) IN
           /\ w.out = IF c.out = <<>> THEN <<>> ELSE SubSeq(c.out, 2, Len(c.out))
           /\ w.in = c.in /\ w.in_stage = c.in_stage
<1> DEFINE s == IF c.out = <<>> THEN c.out ELSE Tail(c.out)
           w == [c EXCEPT !.out = s]
<1>0. c.out \in Seq(Slot)
  BY DEF UsbfType, Slot
<1>1. ReadOutFifo(c) = Notify(w)
  BY DEF ReadOutFifo
<1>2. s \in Seq(Slot) /\ s = IF c.out = <<>> THEN <<>> ELSE SubSeq(c.out, 2, Len(c.out))
  BY <1>0, HeadTailProperties, TailIsSubSeq
<1> HIDE DEF s
<1>4. w \in UsbfType /\ w.out = s /\ w.in = c.in /\ w.in_stage = c.in_stage
  BY <1>2 DEF UsbfType, Slot
<1> HIDE DEF w
<1>5. SameQueues(w, Notify(w))
  BY <1>4, NotifyQueues
<1> QED
  BY <1>1, <1>2, <1>4, <1>5 DEF SameQueues

LEMMA ReadsPiped ==
    ASSUME PipeInv, IInv', GuestReadsOut
    PROVE  Piped
<1> DEFINE c == Unreported
<1>0. /\ c \in UsbfType /\ c.out = u.out /\ c.in = u.in /\ c.in_stage = u.in_stage
      /\ u.out \in Seq(Slot) /\ Len(u.out) \in Nat
  BY SameReported, LenProperties DEF Boxed, SameQueues, UsbfType, Slot, PipeInv
<1>1. CASE u.out = <<>>
  <2>1. UNCHANGED <<got, taken, session, groups>>
    BY <1>1 DEF GuestReadsOut, Becomes
  <2>2. (\E n \in 1..MaxPacket : u' = DmaRx(c, n)) \/ u' = ReadOutFifo(c)
    BY DEF GuestReadsOut, Becomes
  <2>3. u'.out = <<>> /\ u'.in = u.in /\ u'.in_stage = u.in_stage
    <3>1. CASE u' = ReadOutFifo(c)
      BY <1>0, <1>1, <3>1, ReadOutQueues
    <3>2. ASSUME NEW n \in 1..MaxPacket, u' = DmaRx(c, n)
          PROVE  u'.out = <<>> /\ u'.in = u.in /\ u'.in_stage = u.in_stage
      <4>1. Len(u.out) = 0 /\ n \in Nat
        BY <1>1, UsbfAssumption
      <4>2. DmaRxCount(c, n) = 0
        BY <1>0, <4>1 DEF DmaRxCount
      <4>3. SubSeq(u.out, 1, 0) = <<>>
        BY SubSeqEmpty
      <4> QED
        BY <1>0, <3>2, <4>1, <4>2, <4>3, DmaRxQueues
    <3> QED
      BY <2>2, <3>1, <3>2
  <2> QED
    BY <1>1, <2>1, <2>3, NothingToGet
<1>2. CASE u.out # <<>>
  <2>0. Len(u.out) # 0
    BY <1>0, <1>2, EmptySeq
  <2>1. ASSUME NEW n \in 1..MaxPacket, u' = DmaRx(c, n),
               got' = IF Observe THEN SubSeq(Bytes(u.out), 1, DmaRxCount(u, n))
                      ELSE got,
               UNCHANGED <<taken, session, groups>>
        PROVE  Piped
    <3> DEFINE k == DmaRxCount(u, n)
    <3>1. k \in 1..Len(u.out) /\ k = DmaRxCount(c, n) /\ n \in Nat
      BY <1>0, <2>0, UsbfAssumption DEF DmaRxCount
    <3>2. /\ u'.out = SubSeq(u.out, k + 1, Len(u.out))
          /\ u'.in = u.in /\ u'.in_stage = u.in_stage
      BY <1>0, <2>1, <3>1, DmaRxQueues
    <3> HIDE DEF k
    <3>3. got' = IF Observe THEN SubSeq(Bytes(u.out), 1, k) ELSE got
      BY <2>1 DEF k
    <3> QED
      BY <2>1, <3>1, <3>2, <3>3, OutGets
  <2>2. ASSUME u' = ReadOutFifo(c),
               got' = IF Observe THEN SubSeq(Bytes(u.out), 1, 1) ELSE got,
               UNCHANGED <<taken, session, groups>>
        PROVE  Piped
    <3>1. 1 \in 1..Len(u.out)
      BY <1>0, <2>0
    <3>2. /\ u'.out = SubSeq(u.out, 1 + 1, Len(u.out))
          /\ u'.in = u.in /\ u'.in_stage = u.in_stage
      <4>1. 1 + 1 = 2
        OBVIOUS
      <4> QED
        BY <1>0, <1>2, <2>2, <4>1, ReadOutQueues
    <3> QED
      BY <2>2, <3>1, <3>2, OutGets
  <2> QED
    BY <1>2, <2>1, <2>2 DEF GuestReadsOut, Becomes
<1> QED
  BY <1>1, <1>2

(***************************************************************************)
(* The bus's tokens: an OUT packet is put in one pipe, an IN token takes   *)
(* from the other.                                                         *)
(***************************************************************************)
LEMMA BytesOfMarked ==
    ASSUME NEW s \in Seq(Slot), NEW p \in Seq(Byte)
    PROVE  Bytes(s \o Marked(p)) = Bytes(s) \o p
<1> DEFINE t == s \o Marked(p)
           l == Bytes(t)
           r == Bytes(s) \o p
           n == Len(s)
           m == Len(p)
<1>1. n \in Nat /\ m \in Nat /\ DOMAIN p = 1..m
  BY LenProperties
<1>2. Marked(p) \in Seq(Slot)
  BY MarkedType DEF Slot
<1>3. /\ Len(Marked(p)) = m
      /\ \A i \in 1..m : Marked(p)[i].b = p[i]
  <2>1. DOMAIN Marked(p) = 1..m
    BY <1>1 DEF Marked
  <2>2. Len(Marked(p)) = m
    BY <1>1, <1>2, <2>1, LenProperties
  <2> QED
    BY <1>1, <2>2 DEF Marked
<1>4. /\ t \in Seq(Slot) /\ Len(t) = n + m
      /\ \A i \in 1..(n + m) : t[i] = IF i <= n THEN s[i] ELSE Marked(p)[i - n]
  <2> DEFINE q == Marked(p)
  <2> HIDE DEF q
  <2>1. q \in Seq(Slot) /\ Len(q) = m
    BY <1>2, <1>3 DEF q
  <2>2. /\ s \o q \in Seq(Slot) /\ Len(s \o q) = n + m
        /\ \A i \in 1..(n + m) : (s \o q)[i] = IF i <= n THEN s[i] ELSE q[i - n]
    <3>1. /\ s \o q \in Seq(Slot) /\ Len(s \o q) = Len(s) + Len(q)
          /\ \A i \in 1..(Len(s) + Len(q)) :
                (s \o q)[i] = IF i <= Len(s) THEN s[i] ELSE q[i - Len(s)]
      BY <2>1, ConcatProperties, Zenon
    <3> QED
      BY <2>1, <3>1
  <2> QED
    BY <2>2 DEF q
<1>5. /\ l \in Seq(Byte) /\ Len(l) = n + m
      /\ \A i \in 1..(n + m) : l[i] = t[i].b
  BY <1>4, BytesProperties
<1>6. /\ Bytes(s) \in Seq(Byte) /\ Len(Bytes(s)) = n
      /\ \A i \in 1..n : Bytes(s)[i] = s[i].b
  BY BytesProperties
<1>7. /\ r \in Seq(Byte) /\ Len(r) = n + m
      /\ \A i \in 1..(n + m) : r[i] = IF i <= n THEN Bytes(s)[i] ELSE p[i - n]
  <2> DEFINE q == Bytes(s)
  <2> HIDE DEF q
  <2>1. q \in Seq(Byte) /\ Len(q) = n
    BY <1>6 DEF q
  <2>2. /\ q \o p \in Seq(Byte) /\ Len(q \o p) = n + m
        /\ \A i \in 1..(n + m) : (q \o p)[i] = IF i <= n THEN q[i] ELSE p[i - n]
    <3>1. /\ q \o p \in Seq(Byte) /\ Len(q \o p) = Len(q) + Len(p)
          /\ \A i \in 1..(Len(q) + Len(p)) :
                (q \o p)[i] = IF i <= Len(q) THEN q[i] ELSE p[i - Len(q)]
      BY <2>1, ConcatProperties, Zenon
    <3> QED
      BY <2>1, <3>1
  <2> QED
    BY <2>2 DEF q
<1> HIDE DEF t, l, r, n, m
<1>8. ASSUME NEW i \in 1..(n + m) PROVE l[i] = r[i]
  <2>1. CASE i <= n
    <3>1. i \in 1..n
      BY <1>1, <2>1
    <3>2. l[i] = s[i].b
      BY <1>4, <1>5, <2>1
    <3> QED
      BY <1>6, <1>7, <2>1, <3>1, <3>2
  <2>2. CASE ~(i <= n)
    <3>1. i - n \in 1..m
      BY <1>1, <2>2
    <3>2. t[i] = Marked(p)[i - n] /\ r[i] = p[i - n]
      BY <1>4, <1>7, <2>2
    <3> QED
      BY <1>3, <1>5, <3>1, <3>2
  <2> QED
    BY <2>1, <2>2
<1>9. l = r
  BY <1>5, <1>7, <1>8, SeqEqual
<1> QED
  BY <1>9 DEF l, r, t

LEMMA HostOutQueues ==
    ASSUME NEW c \in UsbfType, NEW p \in Seq(Byte)
    PROVE  LET w == HostOut(c, p) IN
           /\ w.out = IF p = <<>> THEN c.out ELSE c.out \o Marked(p)
           /\ w.in = c.in /\ w.in_stage = c.in_stage
<1> DEFINE s == c.out \o Marked(p)
           w == [c EXCEPT !.out = s]
<1>1. CASE p = <<>>
  BY <1>1 DEF HostOut
<1>2. CASE p # <<>>
  <2>1. s \in Seq(Slot)
    BY MarkedType, ConcatProperties DEF UsbfType, Slot
  <2>2. HostOut(c, p) = Notify(w)
    BY <1>2 DEF HostOut
  <2> HIDE DEF s
  <2>3. w \in UsbfType /\ w.out = s /\ w.in = c.in /\ w.in_stage = c.in_stage
    BY <2>1 DEF UsbfType, Slot
  <2> HIDE DEF w
  <2>4. SameQueues(w, Notify(w))
    BY <2>3, NotifyQueues
  <2> QED
    BY <1>2, <2>2, <2>3, <2>4 DEF SameQueues, s
<1> QED
  BY <1>1, <1>2

LEMMA SendsPiped ==
    ASSUME PipeInv, IInv', HostSends
    PROVE  Piped
<1> DEFINE c == Unreported
<1>0. /\ c \in UsbfType /\ c.out = u.out /\ c.in = u.in /\ c.in_stage = u.in_stage
      /\ u.out \in Seq(Slot)
  BY SameReported DEF Boxed, SameQueues, UsbfType, Slot, PipeInv
<1>1. PICK p \in DataPackets : Plain(HostOut(c, p))
  BY DEF HostSends
<1>2. p \in Seq(Byte)
  BY DataPacketsType
<1>3. /\ u'.out = IF p = <<>> THEN u.out ELSE u.out \o Marked(p)
      /\ u'.in = u.in /\ u'.in_stage = u.in_stage
      /\ UNCHANGED <<got, taken, session, groups>>
  BY <1>0, <1>1, <1>2, HostOutQueues DEF Plain, Becomes
<1>4. Boxed(u)' /\ session' \in {0, 1}
  BY <1>3 DEF PipeInv, IInv, Boxed
<1>5. UNCHANGED InPipe!vars
  BY <1>3 DEF InPipe!vars, Watched, Observe
<1>6. CASE ~Observe \/ p = <<>>
  <2>1. UNCHANGED OutPipe!vars
    BY <1>3, <1>6 DEF OutPipe!vars, Watched, Observe, Bytes
  <2> QED
    BY <1>4, <1>5, <2>1 DEF Piped
<1>7. CASE Observe /\ p # <<>>
  <2> DEFINE s == Bytes(u.out)
  <2>1. s \in Seq(Byte) /\ Bytes(u.out)' = s \o p
    BY <1>0, <1>2, <1>3, <1>7, BytesOfMarked, BytesProperties DEF Bytes
  <2>2. Watched(Bytes(u.out)) = s /\ Watched(Bytes(u.out))' = s \o p
    BY <1>3, <1>7, <2>1 DEF Watched, Observe
  <2> HIDE DEF s
  <2>3. Longer(s, s \o p) /\ s \o p \in Seq(Byte)
    BY <1>2, <1>7, <2>1, ConcatIsLonger, ConcatProperties
  <2>4. OutPipe!Put
    BY <1>3, <2>2, <2>3 DEF OutPipe!Put, Longer
  <2> QED
    BY <1>4, <1>5, <2>4 DEF Piped, OutPipe!Next
<1> QED
  BY <1>6, <1>7

LEMMA FirstOfSeq ==
    ASSUME NEW S, NEW s \in Seq(S), s # <<>>
    PROVE  SubSeq(s, 1, 1) = <<Head(s)>>
<1>1. 1 \in 1..Len(s)
  BY EmptySeq, LenProperties
<1>2. Head(s) = s[1] /\ s[1] \in S
  BY <1>1, ElementOfSeq
<1>3. \A i \in 1..1 : s[i] \in S
  BY <1>2
<1> DEFINE r == SubSeq(s, 1, 1)
<1>4. r \in Seq(S) /\ Len(r) = 1 /\ r[1] = s[1]
  <2>1. /\ r \in Seq(S) /\ Len(r) = IF 1 <= 1 THEN 1 - 1 + 1 ELSE 0
        /\ \A i \in 1..(1 - 1 + 1) : r[i] = s[1 + i - 1]
    BY <1>3, SubSeqProperties
  <2> QED
    BY <2>1
<1> HIDE DEF r
<1>5. <<s[1]>> \in Seq(S) /\ Len(<<s[1]>>) = 1 /\ <<s[1]>>[1] = s[1]
  BY <1>2
<1>6. r = <<s[1]>>
  BY <1>4, <1>5, SeqEqual
<1> QED
  BY <1>2, <1>6 DEF r

LEMMA TakesPiped ==
    ASSUME PipeInv, IInv', HostTakes
    PROVE  Piped
<1> DEFINE c == Unreported
<1>0. /\ c \in UsbfType /\ c.out = u.out /\ c.in = u.in /\ c.in_stage = u.in_stage
      /\ u.in \in Seq(Packet) /\ Boxed(c)
  BY SameReported DEF Boxed, SameQueues, PipeInv
<1>1. CASE Plain(HostIntrIn(c))
  BY <1>0, <1>1, HostFills, FillPiped
<1>2. ASSUME CanHostIn(u), Becomes(HostIn(c)),
             taken' = IF Observe THEN <<Head(u.in)>> ELSE taken,
             UNCHANGED <<got, session>>
      PROVE  Piped
  <2> DEFINE s == Tail(c.in)
             w == [c EXCEPT !.in = s]
  <2>0. u.in # <<>>
    BY <1>2 DEF CanHostIn
  <2>1. s \in Seq(Packet) /\ s \in Seq(Seq(Byte)) /\ s = SubSeq(u.in, 2, Len(u.in))
    BY <1>0, <2>0, HeadTailProperties, TailIsSubSeq DEF UsbfType
  <2>2. HostIn(c) = Notify(w)
    BY DEF HostIn
  <2> HIDE DEF s
  <2>3. w \in UsbfType /\ w.out = u.out /\ w.in = s /\ w.in_stage = u.in_stage
    BY <1>0, <2>1 DEF UsbfType
  <2> HIDE DEF w
  <2>4. u'.out = u.out /\ u'.in = s /\ u'.in_stage = u.in_stage /\ groups' = groups
    BY <1>2, <2>2, <2>3, NotifyQueues DEF Becomes, SameQueues
  <2>5. Boxed(u)' /\ session' \in {0, 1}
    BY <1>2, <2>1, <2>4 DEF PipeInv, IInv, Boxed
  <2>6. UNCHANGED OutPipe!vars
    BY <1>2, <2>4 DEF OutPipe!vars, Watched, Observe, Bytes
  <2>7. CASE Observe
    <3>1. Watched(u.in) = u.in /\ Watched(u.in)' = s
      BY <2>4, <2>7 DEF Watched, Observe
    <3>2. Len(u.in) \in Nat /\ 1 \in 1..Len(u.in)
      BY <1>0, <2>0, EmptySeq, LenProperties
    <3>3. SubSeq(u.in, 1, 1) = <<Head(u.in)>>
      BY <1>0, <2>0, <3>2, FirstOfSeq
    <3>4. InPipe!Get
      BY <1>2, <2>1, <2>7, <3>1, <3>2, <3>3 DEF InPipe!Get
    <3> QED
      BY <2>5, <2>6, <3>4 DEF Piped, InPipe!Next
  <2>8. CASE ~Observe
    <3>1. UNCHANGED InPipe!vars
      BY <1>2, <2>4, <2>8 DEF InPipe!vars, Watched, Observe
    <3> QED
      BY <2>5, <2>6, <3>1 DEF Piped
  <2> QED
    BY <2>7, <2>8
<1> QED
  BY <1>1, <1>2 DEF HostTakes

--------------------------------------------------------------------------------
LEMMA DataInPackets == DataPackets \subseteq Packet
<1>1. Datum \in Byte
  BY UsbfAssumption DEF Datum
<1> DEFINE d == Datum
<1> HIDE DEF d
<1>2. \A n \in 0..MaxPacket : [i \in 1..n |-> d] \in Packet
  BY <1>1 DEF d, Packet
<1>3. {0, MaxPacket} \subseteq 0..MaxPacket
  BY UsbfAssumption
<1> QED
  BY <1>2, <1>3 DEF DataPackets, d

LEMMA WriteEp3Fill ==
    ASSUME NEW c, Boxed(c), NEW b \in Byte
    PROVE  FillsIn(c, WriteEp3Fifo(c, b))
<1> DEFINE s == IF Len(c.ep3_stage) < MaxPacket THEN Append(c.ep3_stage, b)
                ELSE c.ep3_stage
           w == [c EXCEPT !.ep3_stage = s]
<1>1. s \in Seq(Byte)
  BY AppendProperties DEF Boxed, UsbfType
<1>2. WriteEp3Fifo(c, b) = Notify(w)
  BY DEF WriteEp3Fifo
<1> HIDE DEF s
<1>3. w \in UsbfType /\ SameQueues(c, w)
  BY <1>1 DEF Boxed, UsbfType, SameQueues
<1> QED
  BY <1>2, <1>3, KeepsFill

LEMMA GuestPiped ==
    ASSUME PipeInv, IInv', Guest
    PROVE  Piped
<1> DEFINE c == Unreported
<1>0. Boxed(c) /\ c \in UsbfType
  BY SameReported DEF Boxed
<1>1. CASE GuestReadsOut
  BY <1>1, ReadsPiped
<1>2. CASE GuestFillsIn
  <2>1. \/ \E p \in Packet : Plain(DmaTx(c, p))
        \/ Plain(ClearEp1Fill(c))
        \/ \E b \in BOOLEAN : Plain(WriteEp1Ctrl(c, b))
        \/ \E b \in Byte : Plain(WriteEp3Fifo(c, b))
    BY <1>2, DataInPackets, DataPacketsType DEF GuestFillsIn
  <2>2. \A b \in Byte : FillsIn(c, WriteEp3Fifo(c, b))
    BY <1>0, WriteEp3Fill
  <2> QED
    BY <1>0, <2>1, <2>2, DmaTxFill, StoresFill, FillPiped
<1>3. CASE GuestCommits
  BY <1>0, <1>3, CommitFill, FillPiped DEF GuestCommits
<1>4. CASE GuestServesSetup
  BY <1>0, <1>4, ReadSetupFill, FillPiped DEF GuestServesSetup
<1>5. CASE GuestHandlesIrq
  <2>1. \/ \E top \in SUBSET TopEvents :
              Plain(WriteTopClr(c, top)) \/ Plain(WriteTopEn(c, top))
        \/ \E i \in 1..3, ev \in SUBSET IntEvents :
              Plain(WriteIntMask(c, i, ev)) \/ Plain(WriteIntClr(c, i, ev))
    BY <1>5, MachineAssumption DEF GuestHandlesIrq
  <2> QED
    BY <1>0, <2>1, StoresFill, FillPiped
<1>6. CASE GuestPowers
  <2>1. \/ \E b \in BOOLEAN : Plain(WriteUnitEn(c, b)) \/ Plain(WriteDesc(c, b))
        \/ Plain(WriteEp1Off(c)) \/ Flushes(ResetPulse(c)) \/ Flushes(UsbfReset(c))
    BY <1>6 DEF GuestPowers
  <2> QED
    BY <1>0, <2>1, StoresFill, ResetEmpties, FillPiped, FlushPiped
<1> QED
  BY <1>1, <1>2, <1>3, <1>4, <1>5, <1>6 DEF Guest

LEMMA HostPiped ==
    ASSUME PipeInv, IInv', Host
    PROVE  Piped
<1> DEFINE c == Unreported
<1>0. Boxed(c) /\ c \in UsbfType /\ c.attached = u.attached /\ u.attached \in BOOLEAN
  BY SameReported DEF Boxed, UsbfType
<1>1. CASE HostPlugs
  <2>1. PICK b \in BOOLEAN :
          IF b = u.attached THEN Plain(HostAttach(c, b))
          ELSE IF b THEN Plain(HostAttach(c, b)) ELSE Flushes(HostAttach(c, b))
    BY <1>1 DEF HostPlugs
  <2>2. CASE b \/ ~u.attached
    BY <1>0, <2>1, <2>2, HostFills, FillPiped
  <2>3. CASE ~b /\ u.attached
    <3>1. Flushes(HostAttach(c, FALSE))
      BY <2>1, <2>3
    <3> QED
      BY <1>0, <2>3, <3>1, HostEmpties, FlushPiped
  <2> QED
    BY <2>2, <2>3
<1>2. CASE HostResets
  BY <1>0, <1>2, HostEmpties, FlushPiped DEF HostResets
<1>3. CASE HostConfigures
  BY <1>0, <1>3, HostFills, FillPiped DEF HostConfigures
<1>4. CASE HostRequests
  <2> DEFINE v == ClassRequest(c)
  <2>1. u' = v /\ UNCHANGED <<got, taken, session, groups>>
    BY <1>4 DEF HostRequests
  <2>2. FillsIn(c, v)
    BY <1>0, HostFills
  <2> HIDE DEF v
  <2> QED
    BY <2>1, <2>2, FilledPiped
<1>5. CASE HostSends
  BY <1>5, SendsPiped
<1>6. CASE HostTakes
  BY <1>6, TakesPiped
<1> QED
  BY <1>1, <1>2, <1>3, <1>4, <1>5, <1>6 DEF Host

(***************************************************************************)
(* The controller implements a pipe in each direction: for every size of   *)
(* the buffers and every workload, what the guest reads is what the bus    *)
(* sent and what the bus takes is what the guest committed, in order and   *)
(* once, and only a reset or an unplugging loses data, all of it at once.  *)
(***************************************************************************)
THEOREM EndpointsCorrect == Spec => EndpointsArePipes
<1>1. Init => PipeInv /\ OutPipe!Init /\ InPipe!Init
  <2> SUFFICES ASSUME Init PROVE PipeInv /\ OutPipe!Init /\ InPipe!Init
    OBVIOUS
  <2>1. /\ u = UsbfInit /\ IInv
        /\ got = <<>> /\ taken = <<>> /\ session = 0
    BY InitIInv DEF Init
  <2>2. u.in = <<>> /\ u.in_stage = <<>> /\ u.out = <<>>
    BY <2>1 DEF UsbfInit
  <2>3. Boxed(u)
    BY <2>1, <2>2, EmptyPacket, EmptySeq DEF IInv, Boxed
  <2>4. Bytes(u.out) = <<>>
    BY <2>2 DEF Bytes
  <2> QED
    BY <2>1, <2>2, <2>3, <2>4
       DEF PipeInv, OutPipe!Init, InPipe!Init, Watched
<1>2. PipeInv /\ [Next]_vars
        => PipeInv' /\ [OutPipe!Next]_(OutPipe!vars) /\ [InPipe!Next]_(InPipe!vars)
  <2>1. ASSUME PipeInv, Next PROVE IInv' /\ Piped
    BY <2>1, GuestKeeps, HostKeeps, GuestPiped, HostPiped DEF Next, PipeInv
  <2>2. ASSUME PipeInv, UNCHANGED vars
        PROVE  PipeInv' /\ UNCHANGED OutPipe!vars /\ UNCHANGED InPipe!vars
    BY <2>2 DEF vars, PipeInv, IInv, Boxed, IrqLineCurrent, NothingLeftWhenDetached,
                AnsweredOnce, OutPipe!vars, InPipe!vars, Watched, Observe, Bytes
  <2> QED
    BY <2>1, <2>2 DEF PipeInv, Piped
<1> QED
  BY <1>1, <1>2, PTL DEF Spec, EndpointsArePipes, OutPipe!Spec, InPipe!Spec
================================================================================
