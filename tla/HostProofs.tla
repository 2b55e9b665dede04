------------------------------- MODULE HostProofs ------------------------------
(***************************************************************************)
(* What two parts of the host side keep true.  The serial bridge, for      *)
(* every size of its queues, every set of bytes and every configuration;   *)
(* the launcher's virtual machines, for any names and failures.            *)
(***************************************************************************)
EXTENDS SerialBridge, Bundles, HostChardevLemmas, SequenceTheorems

Bytes == Seq(Byte)
BridgeType ==
    [ch : Channel, cable : BOOLEAN, link : BOOLEAN, ready : BOOLEAN,
     configured : BOOLEAN, drop_idle : BOOLEAN, rx : Bytes, pre : Bytes,
     tx : Bytes, pace : BOOLEAN, woken : BOOLEAN]

(***************************************************************************)
(* A bridge whose flags agree, whatever its queues hold.                   *)
(***************************************************************************)
Wired(b) ==
    /\ b \in BridgeType
    /\ ChGood(b.ch)
    /\ b.ready => b.configured

(***************************************************************************)
(* The bridge between any two steps.  The conjunct on configured is what   *)
(* makes the tail kept before the guest sets its UART up a loss at the     *)
(* front of the stream: nothing is ahead of it.                            *)
(***************************************************************************)
Good(b) ==
    /\ Wired(b)
    /\ Len(b.rx) <= GuestFifo /\ Len(b.pre) <= RxCap /\ Len(b.tx) <= TxCap
    /\ ~DataPath(b) => b.rx = <<>> /\ b.pre = <<>> /\ b.tx = <<>>
    /\ b.drop_idle => b.rx = <<>> /\ b.pre = <<>>
    /\ ~b.configured => b.rx = <<>>
    /\ b.pace => b.pre # <<>>
    /\ mode.wince /\ b.rx # <<>> => b.woken

Empty(b) == b.rx = <<>> /\ b.pre = <<>> /\ b.tx = <<>>

--------------------------------------------------------------------------------
(***************************************************************************)
(* clear_serial_queues leaves nothing in either direction.                 *)
(***************************************************************************)
LEMMA ClearGood ==
    ASSUME NEW b, Wired(b)
    PROVE  /\ Good(ClearQueues(b)) /\ Empty(ClearQueues(b))
           /\ ClearQueues(b).ch = b.ch
<1> DEFINE c == [b EXCEPT !.rx = <<>>, !.pre = <<>>, !.tx = <<>>,
                          !.pace = FALSE, !.woken = FALSE]
<1>1. ClearQueues(b) = c
  BY DEF ClearQueues
<1>2. b \in BridgeType /\ <<>> \in Bytes
  BY DEF Wired, Bytes
<1>3. c \in BridgeType
  BY <1>2 DEF BridgeType
<1>4. /\ c.rx = <<>> /\ c.pre = <<>> /\ c.tx = <<>> /\ ~c.pace
      /\ c.ch = b.ch /\ c.ready = b.ready /\ c.configured = b.configured
  BY <1>2 DEF BridgeType
<1> HIDE DEF c
<1>5. Wired(c)
  BY <1>3, <1>4 DEF Wired
<1>6. Len(c.rx) = 0 /\ Len(c.pre) = 0 /\ Len(c.tx) = 0
  BY <1>4
<1> QED
  BY <1>1, <1>4, <1>5, <1>6, BridgeAssumption DEF Good, Empty

(***************************************************************************)
(* A change of the host stream alone keeps the bridge good.                *)
(***************************************************************************)
LEMMA ChannelGood ==
    ASSUME NEW b, NEW h, ChGood(h)
    PROVE  /\ Wired(b) => Wired([b EXCEPT !.ch = h]) /\ [b EXCEPT !.ch = h].ch = h
           /\ Good(b) => Good([b EXCEPT !.ch = h])
           /\ Wired(b) => /\ [b EXCEPT !.ch = h].rx = b.rx
                          /\ [b EXCEPT !.ch = h].pre = b.pre
                          /\ [b EXCEPT !.ch = h].tx = b.tx
<1> DEFINE c == [b EXCEPT !.ch = h]
<1> SUFFICES ASSUME Wired(b)
             PROVE  /\ Wired(c) /\ c.ch = h
                    /\ Good(b) => Good(c)
                    /\ c.rx = b.rx /\ c.pre = b.pre /\ c.tx = b.tx
  BY DEF Good
<1>1. b \in BridgeType /\ h \in Channel
  BY DEF Wired, ChGood
<1>2. c \in BridgeType
  BY <1>1 DEF BridgeType
<1>3. /\ c.ch = h
      /\ c.cable = b.cable /\ c.link = b.link /\ c.ready = b.ready
      /\ c.configured = b.configured /\ c.drop_idle = b.drop_idle
      /\ c.rx = b.rx /\ c.pre = b.pre /\ c.tx = b.tx
      /\ c.pace = b.pace /\ c.woken = b.woken
  BY <1>1 DEF BridgeType
<1> HIDE DEF c
<1>4. Wired(c)
  BY <1>2, <1>3 DEF Wired
<1> QED
  BY <1>3, <1>4 DEF Good, DataPath

(***************************************************************************)
(* on_peer_gone, with and without a PTY that is opened again.              *)
(***************************************************************************)
LEMMA PeerGoneGood ==
    ASSUME NEW b, Wired(b)
    PROVE  /\ Good(PeerGone(b)) /\ Empty(PeerGone(b))
           /\ Good([PeerGone(b) EXCEPT !.ch = ChReopenPty(@, 1)])
           /\ Empty([PeerGone(b) EXCEPT !.ch = ChReopenPty(@, 1)])
<1> DEFINE d == [b EXCEPT !.ch = ChDropPeer(@)]
           h == ChReopenPty(ChDropPeer(b.ch), 1)
<1>1. d = [b EXCEPT !.ch = ChDropPeer(b.ch)]
  OBVIOUS
<1>2. ChGood(ChDropPeer(b.ch)) /\ ChGood(h)
  BY DropGood DEF Wired, ChGood
<1>3. Wired(d) /\ d.ch = ChDropPeer(b.ch)
  BY <1>1, <1>2, ChannelGood
<1> DEFINE p == PeerGone(b)
<1>4. p = ClearQueues(d)
  BY DEF PeerGone
<1> HIDE DEF d, p
<1>5. Good(p) /\ p.ch = ChDropPeer(b.ch) /\ Empty(p)
  BY <1>3, <1>4, ClearGood
<1>6. [p EXCEPT !.ch = ChReopenPty(@, 1)] = [p EXCEPT !.ch = h]
  BY <1>5
<1> HIDE DEF h
<1>7. Good([p EXCEPT !.ch = h]) /\ Empty([p EXCEPT !.ch = h])
  BY <1>2, <1>5, ChannelGood DEF Good, Empty
<1> QED
  BY <1>5, <1>6, <1>7 DEF p

(***************************************************************************)
(* A new peer starts with empty queues.                                    *)
(***************************************************************************)
LEMMA TakePeerGood ==
    ASSUME NEW b, Wired(b), b.ch.new_peer
    PROVE  Good(TakePeer(b)) /\ Empty(TakePeer(b)) /\ TakePeer(b).ch = ChTakeNewPeer(b.ch)
<1> DEFINE d == [b EXCEPT !.ch = ChTakeNewPeer(@)]
<1>1. d = [b EXCEPT !.ch = ChTakeNewPeer(b.ch)]
  OBVIOUS
<1>2. ChGood(ChTakeNewPeer(b.ch))
  BY TakeGood DEF Wired
<1>3. Wired(d) /\ d.ch = ChTakeNewPeer(b.ch)
  BY <1>1, <1>2, ChannelGood
<1>4. TakePeer(b) = ClearQueues(d)
  BY DEF TakePeer
<1> QED
  BY <1>3, <1>4, ClearGood

(***************************************************************************)
(* Concatenation of the queues.                                            *)
(***************************************************************************)
LEMMA Associative ==
    \A x, y, z \in Bytes : (x \o y) \o z = x \o (y \o z)
  BY ConcatAssociative DEF Bytes

LEMMA Joined ==
    ASSUME NEW x \in Bytes, NEW y \in Bytes
    PROVE  x \o y \in Bytes /\ Len(x \o y) = Len(x) + Len(y) /\ Len(y) \in Nat
<1>1. x \in Seq(Byte) /\ y \in Seq(Byte)
  BY DEF Bytes
<1>2. x \o y \in Seq(Byte) /\ Len(x \o y) = Len(x) + Len(y)
  BY <1>1, ConcatProperties
<1> QED
  BY <1>1, <1>2, LenProperties DEF Bytes

LEMMA Associates ==
    ASSUME NEW x \in Bytes, NEW y \in Bytes, NEW z \in Bytes
    PROVE  (x \o y) \o z = x \o (y \o z)
  BY Associative

(***************************************************************************)
(* What CanRelease leaves room for.                                        *)
(***************************************************************************)
LEMMA CanReleaseFits ==
    ASSUME NEW b, Good(b)
    PROVE  /\ CanRelease(b) \in Nat
           /\ CanRelease(b) <= Len(b.pre)
           /\ Len(b.rx) + CanRelease(b) <= GuestFifo
<1>1. b.rx \in Bytes /\ b.pre \in Bytes
  BY DEF Good, Wired, BridgeType
<1> DEFINE l == Len(b.rx)
           m == Len(b.pre)
<1>2. l \in Nat /\ m \in Nat /\ l <= GuestFifo /\ GuestFifo \in Nat
  BY <1>1, LenProperties, BridgeAssumption DEF Bytes, Good
<1>3. CanRelease(b) = Low(m, GuestFifo - Low(l, GuestFifo))
  BY DEF CanRelease
<1> HIDE DEF l, m
<1>4. /\ CanRelease(b) \in Nat /\ CanRelease(b) <= m
      /\ l + CanRelease(b) <= GuestFifo
  BY <1>2, <1>3 DEF Low
<1> QED
  BY <1>4 DEF l, m

(***************************************************************************)
(* Moving bytes to the guest's FIFO keeps the bytes under way as they are. *)
(***************************************************************************)
LEMMA MoveQueues ==
    ASSUME NEW b, Good(b), NEW n \in 0..CanRelease(b)
    PROVE  /\ Move(b, n).rx \in Bytes /\ Move(b, n).pre \in Bytes
           /\ Len(Move(b, n).rx) <= GuestFifo
           /\ Len(Move(b, n).pre) = Len(b.pre) - n
           /\ Move(b, n).rx \o Move(b, n).pre = b.rx \o b.pre
           /\ n = 0 => Move(b, n).rx = b.rx
           /\ b.pre = <<>> => n = 0
<1> DEFINE m == Move(b, n)
           l == Len(b.pre)
           x == SubSeq(b.pre, 1, n)
           y == SubSeq(b.pre, n + 1, l)
<1>1. b \in BridgeType /\ b.rx \in Bytes /\ b.pre \in Bytes
  BY DEF Good, Wired, BridgeType
<1>2. m.rx = b.rx \o x /\ m.pre = y
  BY <1>1 DEF Move, BridgeType
<1>3. l \in Nat /\ n \in Nat /\ n <= l
  BY <1>1, CanReleaseFits, LenProperties DEF Bytes
<1>4. x \in Bytes /\ Len(x) = n /\ y \in Bytes /\ Len(y) = l - n
  <2>1. \A i \in 1..l : b.pre[i] \in Byte
    BY <1>1, ElementOfSeq DEF Bytes
  <2> HIDE DEF l
  <2>2. x \in Seq(Byte) /\ Len(x) = IF 1 <= n THEN n - 1 + 1 ELSE 0
    BY <1>3, <2>1, SubSeqProperties
  <2>3. y \in Seq(Byte) /\ Len(y) = IF n + 1 <= l THEN l - (n + 1) + 1 ELSE 0
    BY <1>3, <2>1, SubSeqProperties
  <2> QED
    BY <1>3, <2>2, <2>3 DEF Bytes
<1>5. x \o y = b.pre
  <2>1. n \in 1-1 .. l /\ l \in n .. l /\ 1 \in 1 .. l+1
    BY <1>3
  <2>2. x \o y = SubSeq(b.pre, 1, l)
    BY <1>1, <2>1, ConcatAdjacentSubSeq DEF Bytes
  <2> QED
    BY <1>1, <2>2, SubSeqFull DEF Bytes
<1> HIDE DEF x, y, m
<1>6. m.rx \in Bytes /\ Len(m.rx) = Len(b.rx) + n
  BY <1>1, <1>2, <1>4, Joined
<1>7. Len(b.rx) + n <= GuestFifo
  <2>1. Len(b.rx) \in Nat /\ GuestFifo \in Nat
    BY <1>1, LenProperties, BridgeAssumption DEF Bytes
  <2> QED
    BY <2>1, CanReleaseFits
<1>8. m.rx \o m.pre = b.rx \o b.pre
  <2>1. (b.rx \o x) \o y = b.rx \o (x \o y)
    BY <1>1, <1>4, Associative
  <2> QED
    BY <1>2, <1>5, <2>1
<1>9. ASSUME n = 0 PROVE m.rx = b.rx
  <2>1. x = <<>>
    BY <1>9, <1>4, EmptySeq DEF Bytes
  <2> QED
    BY <1>1, <1>2, <2>1, ConcatEmptySeq DEF Bytes
<1>10. ASSUME b.pre = <<>> PROVE n = 0
  <2>1. l = 0
    BY <1>10, EmptySeq
  <2> QED
    BY <1>3, <2>1
<1> QED
  BY <1>2, <1>4, <1>6, <1>7, <1>8, <1>9, <1>10 DEF m

(***************************************************************************)
(* bridge_release_rx_paced: it wakes the guest when it must, and ends the  *)
(* pacing with the backlog; what is under way stays the same.              *)
(***************************************************************************)
LEMMA MoveGood ==
    ASSUME NEW b, Good(b), DataPath(b), b.ready, NEW n \in 0..CanRelease(b),
           NEW p \in BOOLEAN, p => Move(b, n).pre # <<>>
    PROVE  /\ Good([Move(b, n) EXCEPT !.pace = p])
           /\ Move(b, n).pace = b.pace
           /\ [Move(b, n) EXCEPT !.pace = p].rx = Move(b, n).rx
           /\ [Move(b, n) EXCEPT !.pace = p].pre = Move(b, n).pre
           /\ [Move(b, n) EXCEPT !.pace = p].tx = b.tx
           /\ [Move(b, n) EXCEPT !.pace = p].ch = b.ch
<1> DEFINE m == Move(b, n)
           c == [m EXCEPT !.pace = p]
           w == NoteReleased(b, n)
<1>1. b \in BridgeType
  BY DEF Good, Wired
<1>2. m = [b EXCEPT !.rx = m.rx, !.pre = m.pre, !.woken = w]
  BY <1>1 DEF Move, BridgeType
<1>3. w \in BOOLEAN /\ (w = IF mode.wince /\ n > 0 /\ b.rx = <<>> THEN TRUE ELSE b.woken)
  BY <1>1 DEF NoteReleased, BridgeType
<1>4. m.rx \in Bytes /\ m.pre \in Bytes
  BY MoveQueues
<1> HIDE DEF m, w
<1>5. m \in BridgeType
  BY <1>1, <1>2, <1>3, <1>4 DEF BridgeType
<1>6. c \in BridgeType
  BY <1>5 DEF BridgeType
<1>7. /\ c.rx = m.rx /\ c.pre = m.pre /\ c.woken = w /\ c.pace = p
      /\ c.ch = b.ch /\ c.tx = b.tx /\ c.cable = b.cable /\ c.link = b.link
      /\ c.ready = b.ready /\ c.configured = b.configured
      /\ c.drop_idle = b.drop_idle /\ m.pace = b.pace
  BY <1>1, <1>2, <1>5 DEF BridgeType
<1> HIDE DEF c
<1>8. Wired(c)
  BY <1>6, <1>7 DEF Good, Wired
<1>9. Len(c.rx) <= GuestFifo /\ Len(c.pre) <= RxCap
  <2>1. Len(b.pre) \in Nat /\ RxCap \in Nat /\ n \in Nat
    BY <1>1, LenProperties, BridgeAssumption, CanReleaseFits DEF BridgeType, Bytes
  <2>2. Len(m.pre) = Len(b.pre) - n /\ Len(m.rx) <= GuestFifo
    BY MoveQueues DEF m
  <2> QED
    BY <1>7, <2>1, <2>2 DEF Good
<1>10. ASSUME c.drop_idle PROVE c.rx = <<>> /\ c.pre = <<>>
  <2>1. b.rx = <<>> /\ b.pre = <<>>
    BY <1>7, <1>10 DEF Good
  <2>2. n = 0 /\ m.rx = <<>>
    BY <2>1, MoveQueues DEF m
  <2>3. Len(m.pre) = 0
    <3>1. Len(m.pre) = Len(b.pre) - n
      BY MoveQueues DEF m
    <3>2. Len(b.pre) = 0
      BY <2>1, EmptySeq
    <3> QED
      BY <2>2, <3>1, <3>2
  <2> QED
    BY <1>4, <1>7, <2>2, <2>3, EmptySeq DEF Bytes
<1>11. ASSUME mode.wince, c.rx # <<>> PROVE c.woken
  <2>1. CASE n = 0
    BY <1>3, <1>7, <1>11, <2>1, MoveQueues DEF m, Good
  <2>2. CASE n # 0
    BY <1>3, <1>7, <1>11, <2>2, CanReleaseFits DEF Good
  <2> QED
    BY <2>1, <2>2
<1>12. /\ DataPath(c) /\ c.configured /\ (c.pace => c.pre # <<>>)
       /\ Len(c.tx) <= TxCap
  BY <1>7 DEF Good, Wired, DataPath, m
<1> QED
  BY <1>7, <1>8, <1>9, <1>10, <1>11, <1>12 DEF Good, m, c

(***************************************************************************)
(* bridge_release_rx_paced, paced or not.                                  *)
(***************************************************************************)
LEMMA ReleaseGood ==
    ASSUME NEW b, Good(b), NEW c \in Release(b)
    PROVE  /\ Good(c) /\ c.rx \o c.pre = b.rx \o b.pre /\ c.tx = b.tx
           /\ c.ch = b.ch
<1>1. CASE ~(DataPath(b) /\ b.ready)
  BY <1>1 DEF Release
<1>2. CASE DataPath(b) /\ b.ready
  <2> DEFINE arm == b.pace \/ (mode.paced /\ Len(b.pre) >= PaceBacklog)
             a == [b EXCEPT !.pace = arm]
             r(n) == [Move(a, n) EXCEPT !.pace = a.pre = <<>> \/ Move(a, n).pre # <<>>]
  <2>1. a = [b EXCEPT !.pace = b.pace \/ (mode.paced /\ Len(b.pre) >= PaceBacklog)]
    OBVIOUS
  <2>2. c \in (IF a.pace THEN {r(n) : n \in 0..CanRelease(a)}
                         ELSE {Move(a, CanRelease(a))})
    BY <1>2 DEF Release
  <2>3. b \in BridgeType
    BY DEF Good, Wired
  <2>4. arm \in BOOLEAN /\ (arm => b.pre # <<>>)
    <3>1. b.pre = <<>> => ~(Len(b.pre) >= PaceBacklog)
      BY BridgeAssumption, EmptySeq
    <3>2. b.pace \in BOOLEAN /\ (b.pace => b.pre # <<>>)
      BY <2>3 DEF BridgeType, Good
    <3> QED
      BY <3>1, <3>2
  <2> HIDE DEF arm
  <2>5. a \in BridgeType
    BY <2>3, <2>4 DEF BridgeType
  <2>6. /\ a.ch = b.ch /\ a.cable = b.cable /\ a.link = b.link
        /\ a.ready = b.ready /\ a.configured = b.configured
        /\ a.drop_idle = b.drop_idle /\ a.rx = b.rx /\ a.pre = b.pre
        /\ a.tx = b.tx /\ a.woken = b.woken /\ a.pace = arm
    BY <2>3 DEF BridgeType
  <2> HIDE DEF a
  <2>7. Wired(a)
    BY <2>5, <2>6 DEF Good, Wired
  <2>8. Good(a) /\ DataPath(a) /\ a.ready
    BY <1>2, <2>4, <2>6, <2>7 DEF Good, DataPath
  <2>9. ASSUME a.pace, NEW n \in 0..CanRelease(a), c = r(n)
        PROVE  Good(c) /\ c.rx \o c.pre = b.rx \o b.pre /\ c.tx = b.tx /\ c.ch = b.ch
    <3> DEFINE p == a.pre = <<>> \/ Move(a, n).pre # <<>>
    <3>1. c = [Move(a, n) EXCEPT !.pace = p] /\ p \in BOOLEAN
      BY <2>9
    <3>2. a.pre # <<>>
      BY <2>4, <2>6, <2>9
    <3>3. p => Move(a, n).pre # <<>>
      BY <3>2
    <3> HIDE DEF p
    <3>4. /\ Good(c) /\ c.rx = Move(a, n).rx /\ c.pre = Move(a, n).pre
          /\ c.tx = a.tx /\ c.ch = a.ch
      BY <2>8, <3>1, <3>3, MoveGood
    <3> QED
      BY <2>6, <2>8, <3>4, MoveQueues
  <2>10. ASSUME ~a.pace, c = Move(a, CanRelease(a))
         PROVE  Good(c) /\ c.rx \o c.pre = b.rx \o b.pre /\ c.tx = b.tx /\ c.ch = b.ch
    <3> DEFINE n == CanRelease(a)
    <3>1. n \in 0..CanRelease(a)
      BY <2>8, CanReleaseFits
    <3> HIDE DEF n
    <3> DEFINE d == [Move(a, n) EXCEPT !.pace = FALSE]
    <3>2. Good(d) /\ Move(a, n).pace = a.pace /\ d.tx = a.tx /\ d.ch = a.ch
      BY <2>8, <3>1, MoveGood
    <3>3. c = d
      <4>1. Move(a, n) = [a EXCEPT !.rx = a.rx \o SubSeq(a.pre, 1, n),
                                   !.pre = SubSeq(a.pre, n + 1, Len(a.pre)),
                                   !.woken = NoteReleased(a, n)]
        BY DEF Move
      <4>2. d = Move(a, n)
        BY <2>5, <2>10, <4>1 DEF BridgeType
      <4> QED
        BY <2>10, <4>2 DEF n
    <3>4. c = Move(a, n)
      BY <2>10 DEF n
    <3>5. c.rx \o c.pre = a.rx \o a.pre
      BY <2>8, <3>1, <3>4, MoveQueues
    <3> QED
      BY <2>6, <3>2, <3>3, <3>5
  <2> QED
    BY <2>2, <2>9, <2>10
<1> QED
  BY <1>1, <1>2

(***************************************************************************)
(* What becomes of rx_pre_ring when a byte arrives.  The byte is the last  *)
(* of it, or is dropped before the guest is docked or with the idle marks. *)
(***************************************************************************)
LEMMA ReceiveGood ==
    ASSUME NEW b, Good(b), Len(b.pre) < RxCap, NEW x \in Byte
    PROVE  /\ Good(Receive(b, x))
           /\ Receive(b, x).rx = b.rx /\ Receive(b, x).tx = b.tx
           /\ Receive(b, x).ch = b.ch
           /\ Settled(b) => Receive(b, x).pre = Append(b.pre, x)
           /\ ~Settled(b) => b.rx = <<>>
           /\ \/ b.pre = <<>> /\ Receive(b, x).pre = <<>>
              \/ Receive(b, x).pre = Append(b.pre, x)
              \/ b.pre # <<>> /\ Receive(b, x).pre = Append(Tail(b.pre), x)
<1>1. b \in BridgeType /\ b.pre \in Seq(Byte)
  BY DEF Good, Wired, BridgeType, Bytes
<1>2. ~Settled(b) => b.rx = <<>>
  BY DEF Settled, Good
<1> DEFINE c == Receive(b, x)
<1>3. CASE ~DataPath(b) \/ (b.drop_idle /\ x = IdleByte)
  BY <1>2, <1>3 DEF Receive, Settled, Good
<1>4. CASE DataPath(b) /\ ~(b.drop_idle /\ x = IdleByte)
  <2> DEFINE d == [b EXCEPT !.drop_idle = FALSE]
             full == ~d.configured /\ Len(d.pre) >= PreopenCap
             e == IF full THEN [d EXCEPT !.pre = Tail(d.pre)] ELSE d
             q == IF full THEN Tail(b.pre) ELSE b.pre
  <2>1. c = IF Len(e.pre) = RxCap THEN e ELSE [e EXCEPT !.pre = Append(e.pre, x)]
    BY <1>4 DEF Receive, QueueHostRxPre
  <2>2. d \in BridgeType
    BY <1>1 DEF BridgeType
  <2>3. /\ d.ch = b.ch /\ d.cable = b.cable /\ d.link = b.link
        /\ d.ready = b.ready /\ d.configured = b.configured
        /\ ~d.drop_idle /\ d.rx = b.rx /\ d.pre = b.pre
        /\ d.tx = b.tx /\ d.woken = b.woken /\ d.pace = b.pace
    BY <1>1 DEF BridgeType
  <2> HIDE DEF d
  <2>4. full => b.pre # <<>>
    BY <2>3, BridgeAssumption, EmptySeq
  <2>5. q \in Seq(Byte) /\ Len(q) < RxCap
    <3>1. CASE full
      <4>1. Tail(b.pre) \in Seq(Byte) /\ Len(Tail(b.pre)) = Len(b.pre) - 1
        BY <1>1, <2>4, <3>1, HeadTailProperties
      <4>2. Len(b.pre) \in Nat /\ RxCap \in Nat
        BY <1>1, LenProperties, BridgeAssumption
      <4> QED
        BY <3>1, <4>1, <4>2
    <3>2. CASE ~full
      BY <1>1, <3>2
    <3> QED
      BY <3>1, <3>2
  <2>6. full <=> ~b.configured /\ Len(b.pre) >= PreopenCap
    BY <2>3
  <2> HIDE DEF full
  <2>7. e = [d EXCEPT !.pre = q]
    <3>1. CASE full
      BY <2>3, <3>1
    <3>2. CASE ~full
      <4>1. [d EXCEPT !.pre = d.pre] = d
        BY <2>2 DEF BridgeType
      <4> QED
        BY <2>3, <3>2, <4>1
    <3> QED
      BY <3>1, <3>2
  <2>8. e.pre = q
    BY <2>2, <2>7 DEF BridgeType
  <2>9. c = [e EXCEPT !.pre = Append(q, x)]
    <3>1. Len(e.pre) # RxCap
      <4>1. Len(q) \in Nat /\ RxCap \in Nat
        BY <2>5, LenProperties, BridgeAssumption
      <4>2. Len(q) < RxCap
        BY <2>5
      <4> HIDE DEF q, e
      <4>3. Len(q) # RxCap
        BY <4>1, <4>2
      <4> QED
        BY <2>8, <4>3
    <3> HIDE DEF q, e
    <3> QED
      BY <2>1, <2>8, <3>1
  <2>10. c = [d EXCEPT !.pre = Append(q, x)]
    <3> HIDE DEF e, q
    <3> QED
      BY <2>7, <2>9
  <2> DEFINE y == Append(q, x)
  <2>11. /\ y \in Bytes /\ y # <<>> /\ Len(y) <= RxCap
    <3>1. Append(q, x) \in Seq(Byte) /\ Append(q, x) # <<>> /\ Len(Append(q, x)) = Len(q) + 1
      <4> HIDE DEF q
      <4> QED
        BY <2>5, AppendProperties
    <3>2. Len(q) \in Nat /\ RxCap \in Nat
      <4> HIDE DEF q
      <4> QED
        BY <2>5, LenProperties, BridgeAssumption
    <3> QED
      BY <2>5, <3>1, <3>2 DEF Bytes
  <2>12. c = [d EXCEPT !.pre = y]
    BY <2>10
  <2>13. y = Append(b.pre, x) \/ (b.pre # <<>> /\ y = Append(Tail(b.pre), x))
    BY <2>4
  <2>14. b.configured => y = Append(b.pre, x)
    BY <2>6
  <2> HIDE DEF y, q, e, c
  <2>15. c \in BridgeType
    BY <2>2, <2>11, <2>12 DEF BridgeType
  <2>16. /\ c.ch = b.ch /\ c.cable = b.cable /\ c.link = b.link
         /\ c.ready = b.ready /\ c.configured = b.configured
         /\ ~c.drop_idle /\ c.rx = b.rx /\ c.pre = y
         /\ c.tx = b.tx /\ c.woken = b.woken /\ c.pace = b.pace
    BY <2>2, <2>3, <2>12 DEF BridgeType
  <2>17. Wired(c)
    BY <2>15, <2>16 DEF Good, Wired
  <2>18. Good(c)
    BY <1>4, <2>11, <2>16, <2>17 DEF Good, DataPath
  <2>19. Settled(b) => c.pre = Append(b.pre, x)
    BY <2>14, <2>16 DEF Settled
  <2> QED
    BY <1>2, <2>13, <2>16, <2>18, <2>19 DEF c
<1> QED
  BY <1>3, <1>4

(***************************************************************************)
(* A change of tx_ring alone.                                              *)
(***************************************************************************)
LEMMA TxGood ==
    ASSUME NEW b, Good(b), NEW y \in Bytes, Len(y) <= TxCap,
           ~DataPath(b) => y = <<>>
    PROVE  /\ Good([b EXCEPT !.tx = y])
           /\ [b EXCEPT !.tx = y].rx = b.rx
           /\ [b EXCEPT !.tx = y].pre = b.pre
           /\ [b EXCEPT !.tx = y].tx = y
           /\ [b EXCEPT !.tx = y].ch = b.ch
<1> DEFINE c == [b EXCEPT !.tx = y]
<1>1. b \in BridgeType
  BY DEF Good, Wired
<1>2. c \in BridgeType
  BY <1>1 DEF BridgeType
<1>3. /\ c.ch = b.ch /\ c.cable = b.cable /\ c.link = b.link
      /\ c.ready = b.ready /\ c.configured = b.configured
      /\ c.drop_idle = b.drop_idle /\ c.rx = b.rx /\ c.pre = b.pre
      /\ c.tx = y /\ c.pace = b.pace /\ c.woken = b.woken
  BY <1>1 DEF BridgeType
<1> HIDE DEF c
<1>4. Wired(c)
  BY <1>2, <1>3 DEF Good, Wired
<1>5. Good(c)
  BY <1>3, <1>4 DEF Good, DataPath
<1> QED
  BY <1>3, <1>5 DEF c

(***************************************************************************)
(* A guest that takes from its FIFO, or resets it.                         *)
(***************************************************************************)
LEMMA RxGood ==
    ASSUME NEW b, Good(b), NEW c \in BridgeType,
           /\ c.ch = b.ch /\ c.cable = b.cable /\ c.link = b.link
           /\ c.ready = b.ready /\ c.configured = b.configured
           /\ c.drop_idle = b.drop_idle /\ c.pre = b.pre
           /\ c.tx = b.tx /\ c.pace = b.pace,
           Len(c.rx) <= GuestFifo,
           b.rx = <<>> => c.rx = <<>>,
           c.rx # <<>> /\ b.woken => c.woken
    PROVE  Good(c)
<1>1. Wired(c)
  BY DEF Good, Wired
<1> QED
  BY <1>1 DEF Good, DataPath

(***************************************************************************)
(* A change of the guest's and the dock's flags over queues that allow it. *)
(***************************************************************************)
LEMMA FlagsGood ==
    ASSUME NEW b, Good(b), NEW c \in BridgeType,
           /\ c.ch = b.ch /\ c.rx = b.rx /\ c.pre = b.pre /\ c.tx = b.tx
           /\ c.pace = b.pace /\ c.woken = b.woken,
           c.ready => c.configured,
           ~DataPath(c) => b.rx = <<>> /\ b.pre = <<>> /\ b.tx = <<>>,
           c.drop_idle => b.rx = <<>> /\ b.pre = <<>>,
           ~c.configured => b.rx = <<>>
    PROVE  Good(c)
<1>1. Wired(c)
  BY DEF Good, Wired
<1> QED
  BY <1>1 DEF Good

(***************************************************************************)
(* A guest reset and a pulled cable leave empty queues.                    *)
(***************************************************************************)
LEMMA ResetGood ==
    ASSUME NEW b, Good(b), mode.wince \in BOOLEAN
    PROVE  /\ Good(ResetGuestSerial(b)) /\ Good(CableOut(b))
           /\ Empty(ResetGuestSerial(b)) /\ Empty(CableOut(b))
           /\ ResetGuestSerial(b).ch = b.ch /\ CableOut(b).ch = b.ch
<1> DEFINE q == ClearQueues(b)
           id == mode.wince \/ q.drop_idle
           r == ResetGuestSerial(b)
<1>1. Good(q) /\ q.rx = <<>> /\ q.pre = <<>> /\ q.tx = <<>> /\ q.ch = b.ch
  BY ClearGood DEF Good, Empty
<1>2. r = [q EXCEPT !.link = FALSE, !.ready = FALSE, !.configured = FALSE,
                    !.drop_idle = id]
  BY DEF ResetGuestSerial
<1> HIDE DEF q
<1>3. q \in BridgeType
  BY <1>1 DEF Good, Wired
<1>4. id \in BOOLEAN /\ q.cable \in BOOLEAN
  BY <1>3 DEF BridgeType
<1> HIDE DEF id
<1> DEFINE o == [r EXCEPT !.cable = FALSE]
<1>5. CableOut(b) = o
  BY DEF CableOut
<1> HIDE DEF r
<1>6. /\ r \in BridgeType /\ r.ch = q.ch
      /\ r.rx = q.rx /\ r.pre = q.pre /\ r.tx = q.tx
      /\ r.pace = q.pace /\ r.woken = q.woken /\ ~r.ready
  BY <1>2, <1>3, <1>4 DEF BridgeType
<1>7. /\ o \in BridgeType /\ o.ch = q.ch
      /\ o.rx = q.rx /\ o.pre = q.pre /\ o.tx = q.tx
      /\ o.pace = q.pace /\ o.woken = q.woken /\ ~o.ready
  BY <1>6 DEF BridgeType
<1> HIDE DEF o
<1>8. Good(r) /\ Empty(r) /\ r.ch = b.ch
  BY <1>1, <1>6, FlagsGood DEF Empty
<1>9. Good(o) /\ Empty(o) /\ o.ch = b.ch
  BY <1>1, <1>7, FlagsGood DEF Empty
<1> QED
  BY <1>5, <1>8, <1>9 DEF r

(***************************************************************************)
(* bridge_queue_guest_tx drops or appends.                                 *)
(***************************************************************************)
LEMMA QueueGuestTxGood ==
    ASSUME NEW b, Good(b), NEW x \in Byte
    PROVE  LET c == QueueGuestTx(b, x) IN
           /\ Good(c) /\ c.rx = b.rx /\ c.pre = b.pre /\ c.ch = b.ch
           /\ c.tx = b.tx \/ c.tx = Append(b.tx, x)
<1> DEFINE c == QueueGuestTx(b, x)
           y == Append(b.tx, x)
<1>1. CASE ~TxOpen(b) \/ Len(b.tx) = TxCap
  BY <1>1 DEF QueueGuestTx
<1>2. CASE TxOpen(b) /\ Len(b.tx) # TxCap
  <2>1. b.tx \in Seq(Byte)
    BY DEF Good, Wired, BridgeType, Bytes
  <2>2. y \in Seq(Byte) /\ Len(y) = Len(b.tx) + 1
    BY <2>1, AppendProperties
  <2>3. Len(b.tx) \in Nat /\ TxCap \in Nat /\ Len(b.tx) <= TxCap
    BY <2>1, LenProperties, BridgeAssumption DEF Good
  <2>4. c = [b EXCEPT !.tx = y]
    BY <1>2 DEF QueueGuestTx
  <2> HIDE DEF c, y
  <2>5. y \in Bytes /\ Len(y) <= TxCap
    BY <1>2, <2>2, <2>3 DEF Bytes
  <2>6. DataPath(b)
    BY <1>2 DEF TxOpen
  <2>7. /\ Good(c) /\ c.rx = b.rx /\ c.pre = b.pre /\ c.tx = y
        /\ c.ch = b.ch
    BY <2>4, <2>5, <2>6, TxGood
  <2> QED
    BY <2>7 DEF c, y
<1> QED
  BY <1>1, <1>2

--------------------------------------------------------------------------------
(***************************************************************************)
(* The three steps of a stream, of queues that are concatenated: something *)
(* is lost from the front, a byte is taken, a byte is put.                 *)
(***************************************************************************)
Lost(u, v) == \E n \in 0..Len(u) : v = SubSeq(u, n + 1, Len(u))

(***************************************************************************)
(* What is behind a lost part is a loss from the front.                    *)
(***************************************************************************)
LEMMA DropFront == ASSUME NEW a \in Bytes, NEW c \in Bytes
                   PROVE  /\ c = SubSeq(a \o c, Len(a) + 1, Len(a \o c))
                          /\ Lost(a \o c, c)
<1> DEFINE l == Len(a)
           m == Len(c)
<1>1. l \in Nat /\ m \in Nat /\ Len(a \o c) = l + m
  BY LenProperties, ConcatProperties DEF Bytes
<1> HIDE DEF l, m
<1>2. c = SubSeq(a \o c, l + 1, l + m)
  <2>1. CASE m = 0
    <3>1. c = <<>>
      BY <2>1, EmptySeq DEF Bytes, m
    <3>2. SubSeq(a \o c, l + 1, l + m) = <<>>
      BY <1>1, <2>1, SubSeqEmpty
    <3> QED
      BY <3>1, <3>2
  <2>2. CASE m # 0
    <3>1. l + 1 \in l + 1 .. l + m /\ l + m \in l + 1 .. l + m
      BY <1>1, <2>2
    <3>2. SubSeq(a \o c, l + 1, l + m) = SubSeq(c, l + 1 - l, l + m - l)
      BY <3>1, SubSeqOfConcat2 DEF Bytes, l, m
    <3>3. SubSeq(c, 1, m) = c
      BY SubSeqFull DEF Bytes, m
    <3>4. l + 1 - l = 1 /\ l + m - l = m
      BY <1>1
    <3> QED
      BY <3>2, <3>3, <3>4
  <2> QED
    BY <2>1, <2>2
<1>3. l \in 0 .. Len(a \o c)
  BY <1>1
<1> QED
  BY <1>1, <1>2, <1>3 DEF Lost, l, m

(***************************************************************************)
(* A queue is its first byte and the rest.                                 *)
(***************************************************************************)
LEMMA HeadFirst == ASSUME NEW c \in Bytes, c # <<>>
                   PROVE  /\ c = <<Head(c)>> \o Tail(c)
                          /\ <<Head(c)>> \in Bytes /\ Tail(c) \in Bytes
                          /\ Len(Tail(c)) = Len(c) - 1
<1>1. Head(c) \in Byte /\ Tail(c) \in Bytes /\ Len(Tail(c)) = Len(c) - 1
  BY HeadTailProperties DEF Bytes
<1>2. Len(c) \in Nat \ {0}
  BY EmptySeq DEF Bytes
<1> DEFINE l == Len(c)
<1>3. 1 \in 1 .. l /\ l \in 1 .. l
  BY <1>2
<1>4. SubSeq(c, 1, l) = <<c[1]>> \o SubSeq(c, 1 + 1, l)
  BY <1>3, SubSeqRecursiveFirst DEF Bytes
<1>5. SubSeq(c, 1, l) = c /\ Tail(c) = SubSeq(c, 2, l)
  BY SubSeqFull, TailIsSubSeq DEF Bytes
<1>6. Head(c) = c[1]
  OBVIOUS
<1> QED
  BY <1>1, <1>4, <1>5, <1>6 DEF Bytes

(***************************************************************************)
(* The first byte of the first queue is the first byte under way.          *)
(***************************************************************************)
LEMMA TakeFront == ASSUME NEW c \in Bytes, c # <<>>, NEW d \in Bytes
                   PROVE  /\ <<Head(c)>> = SubSeq(c \o d, 1, 1)
                          /\ Tail(c) \o d = SubSeq(c \o d, 2, Len(c \o d))
                          /\ 1 \in 1..Len(c \o d)
<1> DEFINE h == <<Head(c)>>
           e == Tail(c)
           u == e \o d
<1>1. c = h \o e /\ h \in Bytes /\ e \in Bytes
  BY HeadFirst
<1>2. Len(h) = 1
  OBVIOUS
<1> HIDE DEF h, e
<1>3. u \in Bytes
  BY <1>1, ConcatProperties DEF Bytes
<1>4. c \o d = h \o u
  BY <1>1, Associative
<1> HIDE DEF u
<1>5. u = SubSeq(h \o u, 1 + 1, Len(h \o u))
  BY <1>1, <1>2, <1>3, DropFront
<1>6. SubSeq(h \o u, 1, 1) = h
  <2>1. SubSeq(h \o u, 1, 1) = SubSeq(h, 1, 1)
    <3>1. 1 \in 1 .. Len(h)
      BY <1>2
    <3>2. h \in Seq(Byte) /\ u \in Seq(Byte)
      BY <1>1, <1>3 DEF Bytes
    <3> QED
      BY <3>1, <3>2, SubSeqOfConcat1
  <2>2. SubSeq(h, 1, 1) = h
    BY <1>1, <1>2, SubSeqFull DEF Bytes
  <2> QED
    BY <2>1, <2>2
<1>7. Len(h \o u) = 1 + Len(u) /\ Len(u) \in Nat
  <2>1. h \in Bytes /\ Len(h) = 1
    BY <1>1, <1>2
  <2> QED
    BY <2>1, <1>3, Joined
<1> QED
  BY <1>4, <1>5, <1>6, <1>7 DEF h, e, u

(***************************************************************************)
(* An appended byte leaves those before it in front.                       *)
(***************************************************************************)
LEMMA PutEnd == ASSUME NEW u \in Bytes, NEW x \in Byte
                PROVE  /\ Append(u, x) \in Bytes /\ Len(Append(u, x)) > Len(u)
                       /\ SubSeq(Append(u, x), 1, Len(u)) = u
<1> DEFINE l == Len(u)
           e == <<x>>
<1>1. Append(u, x) \in Seq(Byte) /\ Len(Append(u, x)) = l + 1 /\ l \in Nat
  BY AppendProperties, LenProperties DEF Bytes
<1>2. Append(u, x) = u \o e /\ e \in Seq(Byte)
  BY AppendIsConcat DEF Bytes
<1> HIDE DEF e
<1>3. SubSeq(u \o e, 1, l) = u
  <2>1. CASE l = 0
    <3>1. u = <<>>
      BY <2>1, EmptySeq DEF Bytes
    <3>2. SubSeq(u \o e, 1, l) = <<>>
      BY <2>1, SubSeqEmpty
    <3> QED
      BY <3>1, <3>2
  <2>2. CASE l # 0
    <3>1. 1 \in 1 .. l /\ l \in 1 .. l
      BY <1>1, <2>2
    <3>2. SubSeq(u \o e, 1, l) = SubSeq(u, 1, l)
      BY <1>2, <3>1, SubSeqOfConcat1 DEF Bytes
    <3> QED
      BY <3>2, SubSeqFull DEF Bytes
  <2> QED
    BY <2>1, <2>2
<1> HIDE DEF l
<1>4. Len(Append(u, x)) > l
  BY <1>1
<1> QED
  BY <1>1, <1>2, <1>3, <1>4 DEF Bytes, l

--------------------------------------------------------------------------------
(***************************************************************************)
(* The inductive invariant, and what a step is to the two streams.  The    *)
(* last conjunct is why a new peer's stream starts empty: nothing is in    *)
(* flight to a descriptor that is not usable.                              *)
(***************************************************************************)
IInv ==
    /\ mode \in Modes
    /\ Good(s)
    /\ net \in Bytes
    /\ net # <<>> => IsReady(s.ch)

InStep  == In!Next \/ UNCHANGED <<s.rx \o s.pre \o net, got>>
OutStep == Out!Next \/ UNCHANGED <<s.tx, put>>
Step    == IInv' /\ InStep /\ OutStep

(***************************************************************************)
(* The bridge a step leaves is good if it is good in the same mode.        *)
(***************************************************************************)
LEMMA GoodNext ==
    ASSUME IInv, mode' = mode, Good(s'), net' \in Bytes,
           net' # <<>> => IsReady(s'.ch)
    PROVE  IInv'
<1>1. Good(s)'
  BY DEF Good, Wired, DataPath
<1> QED
  BY <1>1 DEF IInv, IsReady

(***************************************************************************)
(* The queues of an invariant state.                                       *)
(***************************************************************************)
LEMMA QueuesType ==
    ASSUME IInv
    PROVE  /\ s.rx \in Bytes /\ s.pre \in Bytes /\ s.tx \in Bytes /\ net \in Bytes
           /\ s.rx \o s.pre \in Bytes /\ s.rx \o s.pre \o net \in Bytes
           /\ <<>> \in Bytes
<1>1. s.rx \in Bytes /\ s.pre \in Bytes /\ s.tx \in Bytes /\ net \in Bytes
  BY DEF IInv, Good, Wired, BridgeType
<1>2. s.rx \o s.pre \in Bytes
  BY <1>1, ConcatProperties DEF Bytes
<1>3. s.rx \o s.pre \o net \in Bytes
  BY <1>1, <1>2, ConcatProperties DEF Bytes
<1> QED
  BY <1>1, <1>2, <1>3 DEF Bytes

(***************************************************************************)
(* A step that empties the queues is a visible loss of both streams.       *)
(***************************************************************************)
LEMMA LosesStep ==
    ASSUME IInv, NEW b, Good(b), Empty(b), Loses(b), mode' = mode,
           net' = net \/ net' = <<>>, net' # <<>> => IsReady(b.ch)
    PROVE  Step
<1>1. s' = b /\ got' = <<>> /\ put' = <<>>
  BY DEF Loses
<1>2. net' \in Bytes
  BY QueuesType
<1>3. IInv'
  BY <1>1, <1>2, GoodNext
<1> DEFINE q == s.rx \o s.pre
           u == q \o net
<1>4. q \in Bytes /\ net \in Bytes /\ u \in Bytes /\ <<>> \in Bytes /\ s.tx \in Bytes
  BY QueuesType
<1>5. (s.rx \o s.pre \o net)' = net'
  <2>1. (s.rx \o s.pre \o net)' = <<>> \o <<>> \o net'
    BY <1>1 DEF Empty
  <2>2. <<>> \o <<>> = <<>> /\ <<>> \o net' = net'
    BY <1>2, <1>4, ConcatEmptySeq DEF Bytes
  <2> QED
    BY <2>1, <2>2
<1>6. Lost(u, net')
  <2> HIDE DEF q
  <2>1. Lost(q \o net, net)
    BY <1>4, DropFront
  <2> HIDE DEF u
  <2>2. Lost(u \o <<>>, <<>>) /\ u \o <<>> = u
    BY <1>4, DropFront, ConcatEmptySeq DEF Bytes
  <2> QED
    BY <2>1, <2>2 DEF u
<1>7. InStep
  BY <1>1, <1>5, <1>6 DEF InStep, In!Next, In!Lose, Lost
<1>8. Lost(s.tx \o <<>>, <<>>) /\ s.tx \o <<>> = s.tx
  BY <1>4, DropFront, ConcatEmptySeq DEF Bytes
<1>9. OutStep
  BY <1>1, <1>8 DEF OutStep, Out!Next, Out!Lose, Lost, Empty
<1> QED
  BY <1>3, <1>7, <1>9 DEF Step

(***************************************************************************)
(* A step that moves bytes inside the bridge is none of the streams.       *)
(***************************************************************************)
LEMMA KeepsStep ==
    ASSUME IInv, NEW b, Good(b), s' = b, mode' = mode, UNCHANGED <<net, got, put>>,
           b.rx \o b.pre = s.rx \o s.pre, b.tx = s.tx,
           IsReady(s.ch) => IsReady(b.ch)
    PROVE  Step
<1>1. IInv'
  BY QueuesType, GoodNext DEF IInv
<1> QED
  BY <1>1 DEF Step, InStep, OutStep

(***************************************************************************)
(* host_chardev_tick and host_chardev_ready leave a usable descriptor      *)
(* alone, so a peer keeps what it has in flight.                           *)
(***************************************************************************)
LEMMA ReadyUndisturbed ==
    ASSUME NEW h, IsReady(h)
    PROVE  /\ \A result \in ChTickResults(h) : ChTick(h, result, 1) = h
           /\ \A result \in ChReadyResults(h) : ChReady(h, result) = h
  BY DEF IsReady, ChTickResults, CanAccept, CanRedial, ChTick, ChReadyResults, ChReady

LEMMA NewChannelStep ==
    ASSUME IInv, mode' = mode, NEW h, ChGood(h), IsReady(s.ch) => h = s.ch,
           LET c == [s EXCEPT !.ch = h] IN
               /\ IF c.ch.new_peer THEN Loses(TakePeer(c)) ELSE Keeps(c)
               /\ Socket(c)
    PROVE  Step
<1> DEFINE c == [s EXCEPT !.ch = h]
<1>1. Wired(s)
  BY DEF IInv, Good
<1>2. /\ Wired(c) /\ Good(c) /\ c.ch = h
      /\ c.rx = s.rx /\ c.pre = s.pre /\ c.tx = s.tx
  BY <1>1, ChannelGood DEF IInv
<1>3. /\ IF c.ch.new_peer THEN Loses(TakePeer(c)) ELSE Keeps(c)
      /\ Socket(c)
  OBVIOUS
<1> HIDE DEF c
<1>4. net' = net
  BY <1>2, <1>3 DEF IInv, Socket
<1>5. CASE h.new_peer
  <2>1. Loses(TakePeer(c)) /\ Good(TakePeer(c)) /\ Empty(TakePeer(c))
    BY <1>2, <1>3, <1>5, TakePeerGood
  <2>2. TakePeer(c).ch = ChTakeNewPeer(h)
    BY <1>2, <1>5, TakePeerGood
  <2>3. IsReady(s.ch) => IsReady(ChTakeNewPeer(h))
    BY DEF IsReady, ChTakeNewPeer, ChGood, Channel
  <2> QED
    BY <1>4, <2>1, <2>2, <2>3, LosesStep DEF IInv
<1>6. CASE ~h.new_peer
  <2>1. s' = c /\ UNCHANGED <<got, put>>
    BY <1>2, <1>3, <1>6 DEF Keeps
  <2> QED
    BY <1>2, <1>4, <2>1, KeepsStep
<1> QED
  BY <1>5, <1>6

(***************************************************************************)
(* bridge_tick_one as far as bridge_drain_tx.                              *)
(***************************************************************************)
LEMMA TickPollStep == ASSUME IInv, TickPoll PROVE Step
<1>1. PICK result \in ChTickResults(s.ch) :
        LET c == [s EXCEPT !.ch = ChTick(s.ch, result, 1)] IN
        /\ IF c.ch.new_peer THEN Loses(TakePeer(c)) ELSE Keeps(c)
        /\ Socket(c)
  BY DEF TickPoll
<1> DEFINE h == ChTick(s.ch, result, 1)
<1>2. ChGood(h)
  BY TickGood DEF IInv, Good, Wired
<1>3. IsReady(s.ch) => h = s.ch
  BY ReadyUndisturbed
<1> HIDE DEF h
<1>4. LET c == [s EXCEPT !.ch = h] IN
        /\ IF c.ch.new_peer THEN Loses(TakePeer(c)) ELSE Keeps(c)
        /\ Socket(c)
  BY <1>1 DEF h
<1>5. mode' = mode
  BY DEF TickPoll
<1> QED
  BY <1>2, <1>3, <1>4, <1>5, NewChannelStep

(***************************************************************************)
(* bridge_finish_connect, whichever drain calls it.                        *)
(***************************************************************************)
LEMMA FinishConnectStep ==
    ASSUME IInv, mode' = mode, NEW x, NEW y, FinishConnect(x, y) PROVE Step
<1>1. PICK result \in ChReadyResults(s.ch) :
        LET c == [s EXCEPT !.ch = ChReady(s.ch, result)] IN
        /\ IF c.ch.new_peer THEN Loses(TakePeer(c)) ELSE Keeps(c)
        /\ Socket(c)
  BY DEF FinishConnect
<1> DEFINE h == ChReady(s.ch, result)
<1>2. ChGood(h)
  BY ReadyGood DEF IInv, Good, Wired
<1>3. IsReady(s.ch) => h = s.ch
  BY ReadyUndisturbed
<1> HIDE DEF h
<1>4. LET c == [s EXCEPT !.ch = h] IN
        /\ IF c.ch.new_peer THEN Loses(TakePeer(c)) ELSE Keeps(c)
        /\ Socket(c)
  BY <1>1 DEF h
<1> QED
  BY <1>2, <1>3, <1>4, NewChannelStep

(***************************************************************************)
(* bridge_drain_tx.                                                        *)
(***************************************************************************)
LEMMA DrainTxStep ==
    ASSUME IInv, TickTx \/ TickWrites \/ TickWriteEnds \/ TickWriteFails
    PROVE  Step
<1> DEFINE u == s.tx
<1>0. Good(s) /\ u \in Bytes /\ <<>> \in Bytes /\ Wired(s)
  BY QueuesType DEF IInv, Good
<1>1. CASE TickTx
  <2>1. CASE s.ch.fd = NoFd
    <3>1. /\ s' = [s EXCEPT !.tx = <<>>] /\ put' = <<>>
          /\ UNCHANGED <<got, net, mode>>
      BY <1>1, <2>1 DEF TickTx
    <3>2. Len(<<>>) <= TxCap
      BY BridgeAssumption
    <3>3. Good(s') /\ s'.rx = s.rx /\ s'.pre = s.pre /\ s'.tx = <<>> /\ s'.ch = s.ch
      BY <1>0, <3>1, <3>2, TxGood
    <3>4. IInv'
      BY <3>1, <3>3, QueuesType, GoodNext DEF IInv
    <3>5. Lost(u \o <<>>, <<>>) /\ u \o <<>> = u
      BY <1>0, DropFront, ConcatEmptySeq DEF Bytes
    <3> QED
      BY <3>1, <3>3, <3>4, <3>5 DEF Step, InStep, OutStep, Out!Next, Out!Lose, Lost
  <2>2. CASE s.ch.fd # NoFd
    BY <1>1, <2>2, FinishConnectStep DEF TickTx
  <2> QED
    BY <2>1, <2>2
<1>2. CASE TickWrites
  <2>1. /\ u # <<>> /\ put' = <<Head(u)>> /\ s' = [s EXCEPT !.tx = Tail(u)]
        /\ UNCHANGED <<got, net, mode>>
    BY <1>2 DEF TickWrites
  <2>2. Tail(u) \in Bytes /\ Len(Tail(u)) = Len(u) - 1
    BY <1>0, <2>1, HeadFirst
  <2>3. Len(u) \in Nat /\ TxCap \in Nat /\ Len(u) <= TxCap
    BY <1>0, LenProperties, BridgeAssumption DEF Good, Bytes
  <2>4. ~DataPath(s) => Tail(u) = <<>>
    BY <1>0, <2>1 DEF Good
  <2> DEFINE v == Tail(u)
  <2>5. v \in Bytes /\ Len(v) <= TxCap /\ (~DataPath(s) => v = <<>>)
    BY <2>2, <2>3, <2>4
  <2>6. s' = [s EXCEPT !.tx = v]
    BY <2>1
  <2> HIDE DEF v
  <2>7. Good(s') /\ s'.rx = s.rx /\ s'.pre = s.pre /\ s'.tx = v /\ s'.ch = s.ch
    BY <1>0, <2>5, <2>6, TxGood
  <2>8. IInv'
    BY <2>1, <2>7, QueuesType, GoodNext DEF IInv
  <2>9. Out!Take
    <3>1. /\ <<Head(u)>> = SubSeq(u \o <<>>, 1, 1)
          /\ v \o <<>> = SubSeq(u \o <<>>, 2, Len(u \o <<>>))
          /\ 1 \in 1..Len(u \o <<>>)
      BY <1>0, <2>1, TakeFront DEF v
    <3>2. u \o <<>> = u /\ v \o <<>> = v
      BY <1>0, <2>5, ConcatEmptySeq DEF Bytes
    <3>3. <<Head(u)>> = SubSeq(u, 1, 1) /\ v = SubSeq(u, 1 + 1, Len(u)) /\ 1 \in 1..Len(u)
      BY <3>1, <3>2
    <3> QED
      BY <2>1, <2>7, <3>3 DEF Out!Take
  <2> QED
    BY <2>1, <2>7, <2>8, <2>9 DEF Step, InStep, OutStep, Out!Next
<1>3. CASE TickWriteEnds
  BY <1>0, <1>3, KeepsStep DEF TickWriteEnds
<1>4. CASE TickWriteFails
  <2>1. Loses(PeerGone(s)) /\ net' = <<>> /\ mode' = mode
    BY <1>4 DEF TickWriteFails
  <2>2. Good(PeerGone(s)) /\ Empty(PeerGone(s))
    BY <1>0, PeerGoneGood
  <2> QED
    BY <2>1, <2>2, LosesStep
<1> QED
  BY <1>1, <1>2, <1>3, <1>4

(***************************************************************************)
(* A release by the tick, the guest or the dock.                           *)
(***************************************************************************)
LEMMA ReleaseStep ==
    ASSUME IInv, NEW b, Good(b), s' \in Release(b), mode' = mode,
           UNCHANGED <<net, got, put>>,
           b.rx = s.rx, b.pre = s.pre, b.tx = s.tx, b.ch = s.ch
    PROVE  Step
<1>1. /\ Good(s') /\ s'.rx \o s'.pre = b.rx \o b.pre /\ s'.tx = b.tx
      /\ s'.ch = b.ch
  BY ReleaseGood
<1> QED
  BY <1>1, KeepsStep

(***************************************************************************)
(* A byte that is read from the socket.  Before the guest is settled its   *)
(* FIFO is empty, so that the byte given up is at the front.               *)
(***************************************************************************)
LEMMA ReadsStep == ASSUME IInv, TickReads PROVE Step
<1> DEFINE x == Head(net)
           d == Tail(net)
           c == Receive(s, x)
<1>1. /\ net # <<>> /\ Len(s.pre) < RxCap /\ s' = c /\ net' = d
      /\ got' = IF Settled(s) THEN got ELSE <<>>
      /\ put' = put /\ mode' = mode
  BY DEF TickReads
<1>2. /\ s.rx \in Bytes /\ s.pre \in Bytes /\ net \in Bytes /\ <<>> \in Bytes
      /\ s.rx \o s.pre \in Bytes
  BY QueuesType
<1>3. x \in Byte /\ d \in Bytes /\ net = <<x>> \o d /\ <<x>> \in Bytes
  BY <1>1, <1>2, HeadFirst, HeadTailProperties DEF Bytes
<1> HIDE DEF x, d
<1>4. /\ Good(c) /\ c.rx = s.rx /\ c.tx = s.tx /\ c.ch = s.ch
      /\ Settled(s) => c.pre = Append(s.pre, x)
      /\ ~Settled(s) => s.rx = <<>>
      /\ \/ s.pre = <<>> /\ c.pre = <<>>
         \/ c.pre = Append(s.pre, x)
         \/ s.pre # <<>> /\ c.pre = Append(Tail(s.pre), x)
  BY <1>1, <1>3, ReceiveGood DEF IInv
<1> HIDE DEF c
<1>5. IInv'
  BY <1>1, <1>3, <1>4, GoodNext DEF IInv
<1>6. OutStep
  BY <1>1, <1>4 DEF OutStep
<1> DEFINE e == <<x>>
           u == s.rx \o s.pre \o net
           v == c.rx \o c.pre \o d
<1>7. (s.rx \o s.pre \o net)' = v
  BY <1>1
<1>8. \A p \in Bytes : Append(p, x) = p \o e /\ Append(p, x) \o d = p \o net
  <2> SUFFICES ASSUME NEW p \in Bytes
               PROVE  Append(p, x) = p \o e /\ Append(p, x) \o d = p \o net
    OBVIOUS
  <2>1. Append(p, x) = p \o e
    BY <1>3, AppendIsConcat DEF Bytes
  <2>2. net = e \o d /\ e \in Bytes /\ d \in Bytes
    BY <1>3
  <2> HIDE DEF e
  <2>3. (p \o e) \o d = p \o (e \o d)
    BY <2>2, Associative
  <2> QED
    BY <2>1, <2>2, <2>3
<1>9. ASSUME c.pre = Append(s.pre, x) PROVE InStep
  <2> DEFINE p == s.pre
             a == Append(p, x)
             r == s.rx
  <2>1. a \in Bytes
    BY <1>2, <1>3, AppendProperties DEF Bytes
  <2>2. a \o d = p \o net
    BY <1>2, <1>8
  <2>3. c.pre = a /\ c.rx = r /\ r \in Bytes /\ p \in Bytes
    BY <1>2, <1>4, <1>9
  <2> HIDE DEF a, p, r
  <2>4. net \in Bytes /\ d \in Bytes
    BY <1>2, <1>3
  <2>5. v = u
    <3>1. (r \o a) \o d = r \o (a \o d)
      BY <2>1, <2>3, <2>4, Associative, SMTT(60)
    <3>2. (r \o p) \o net = r \o (p \o net)
      BY <2>3, <2>4, Associates
    <3> QED
      BY <2>2, <2>3, <3>1, <3>2 DEF p, r
  <2>6. CASE Settled(s)
    BY <1>1, <1>7, <2>5, <2>6 DEF InStep
  <2>7. CASE ~Settled(s)
    <3>1. u \in Bytes
      BY QueuesType
    <3> HIDE DEF u, v
    <3>2. Lost(<<>> \o u, u) /\ <<>> \o u = u
      BY <1>2, <3>1, DropFront, ConcatEmptySeq DEF Bytes
    <3>3. got' = <<>> /\ Lost(u, v)
      BY <1>1, <2>5, <2>7, <3>2
    <3> QED
      BY <1>7, <3>3 DEF InStep, In!Next, In!Lose, Lost, u
  <2> QED
    BY <2>6, <2>7
<1>10. ASSUME ~Settled(s), s.pre = <<>>, c.pre = <<>> PROVE InStep
  <2>1. <<>> \o <<>> = <<>> /\ <<>> \o net = net /\ <<>> \o d = d
    BY <1>2, <1>3, ConcatEmptySeq DEF Bytes
  <2>2. u = net /\ v = d
    BY <1>4, <1>10, <2>1
  <2> HIDE DEF u, v
  <2>3. Lost(<<x>> \o d, d)
    BY <1>3, DropFront
  <2>4. got' = <<>> /\ Lost(u, v)
    BY <1>1, <1>3, <1>10, <2>2, <2>3
  <2> QED
    BY <1>7, <2>4 DEF InStep, In!Next, In!Lose, Lost, u
<1>11. ASSUME ~Settled(s), s.pre # <<>>, c.pre = Append(Tail(s.pre), x)
       PROVE  InStep
  <2> DEFINE h == <<Head(s.pre)>>
             t == Tail(s.pre)
             w == t \o net
  <2>1. s.pre = h \o t /\ h \in Bytes /\ t \in Bytes
    BY <1>2, <1>11, HeadFirst
  <2>2. Append(t, x) \o d = t \o net
    BY <1>8, <2>1
  <2> DEFINE a == Append(t, x)
  <2>3. a \in Bytes
    BY <1>3, <2>1, AppendProperties DEF Bytes
  <2>4. c.pre = a /\ a \o d = w
    BY <1>11, <2>2
  <2> HIDE DEF h, a
  <2>5. <<>> \o s.pre = s.pre /\ <<>> \o a = a
    BY <1>2, <2>3, ConcatEmptySeq DEF Bytes
  <2>6. v = w /\ u = s.pre \o net
    BY <1>4, <1>11, <2>4, <2>5
  <2> HIDE DEF u, v, t
  <2>7. w \in Bytes
    BY <1>2, <2>1, ConcatProperties DEF Bytes
  <2>8. (h \o t) \o net = h \o w
    <3>1. h \in Bytes /\ t \in Bytes /\ net \in Bytes
      BY <1>2, <2>1
    <3> QED
      BY Zenon, <3>1, Associates
  <2> HIDE DEF w
  <2>9. Lost(h \o w, w)
    BY <2>1, <2>7, DropFront
  <2>10. got' = <<>> /\ Lost(u, v)
    BY <1>1, <1>11, <2>1, <2>6, <2>8, <2>9
  <2> QED
    BY <1>7, <2>10 DEF InStep, In!Next, In!Lose, Lost, u
<1>12. Settled(s) => c.pre = Append(s.pre, x)
  BY <1>4
<1>13. InStep
  BY <1>4, <1>9, <1>10, <1>11, <1>12
<1> QED
  BY <1>5, <1>6, <1>13 DEF Step

(***************************************************************************)
(* bridge_drain_rx.                                                        *)
(***************************************************************************)
LEMMA DrainRxStep ==
    ASSUME IInv, TickRx \/ TickRelease \/ TickReads \/ TickReadEnds \/ TickReadFails
    PROVE  Step
<1>0. Good(s) /\ Wired(s)
  BY DEF IInv, Good
<1>1. CASE TickRx
  <2>1. CASE s.ch.fd = NoFd
    BY <1>0, <1>1, <2>1, KeepsStep DEF TickRx, Keeps
  <2>2. CASE s.ch.fd # NoFd
    BY <1>1, <2>2, FinishConnectStep DEF TickRx
  <2> QED
    BY <2>1, <2>2
<1>2. CASE TickRelease
  BY <1>0, <1>2, ReleaseStep DEF TickRelease
<1>3. CASE TickReads
  BY <1>3, ReadsStep
<1>4. CASE TickReadEnds
  BY <1>0, <1>4, KeepsStep DEF TickReadEnds
<1>5. CASE TickReadFails
  <2> DEFINE p == PeerGone(s)
             o == [p EXCEPT !.ch = ChReopenPty(@, 1)]
  <2>1. Good(p) /\ Empty(p) /\ Good(o) /\ Empty(o)
    BY <1>0, PeerGoneGood
  <2>2. (Loses(p) \/ Loses(o)) /\ net' = <<>> /\ mode' = mode
    BY <1>5 DEF TickReadFails
  <2> HIDE DEF p, o
  <2> QED
    BY <2>1, <2>2, LosesStep
<1> QED
  BY <1>1, <1>2, <1>3, <1>4, <1>5

(***************************************************************************)
(* serial_bridge_uart_rx_pop takes the byte at the front of what is under  *)
(* way, after a release that leaves it the same.                           *)
(***************************************************************************)
LEMMA GuestReadsStep == ASSUME IInv, GuestReads PROVE Step
<1>1. PICK c \in Release(s) :
        IF DataPath(c) /\ c.ready /\ c.rx # <<>>
        THEN /\ got' = <<Head(c.rx)>>
             /\ s' = [c EXCEPT !.rx = Tail(@), !.woken = @ /\ Len(c.rx) > 1]
        ELSE s' = c /\ UNCHANGED got
  BY DEF GuestReads
<1>2. UNCHANGED <<pc, net, eof, put, mode>>
  BY DEF GuestReads
<1>3. Good(c) /\ c.rx \o c.pre = s.rx \o s.pre /\ c.tx = s.tx /\ c.ch = s.ch
  BY ReleaseGood DEF IInv
<1>4. CASE ~(DataPath(c) /\ c.ready /\ c.rx # <<>>)
  BY <1>1, <1>2, <1>3, <1>4, KeepsStep
<1>5. CASE DataPath(c) /\ c.ready /\ c.rx # <<>>
  <2> DEFINE x == c.rx
             y == Tail(x)
             w == c.woken /\ Len(x) > 1
             h == <<Head(x)>>
  <2>1. c \in BridgeType /\ x \in Bytes /\ c.pre \in Bytes /\ net \in Bytes
    BY <1>3 DEF Good, Wired, BridgeType, IInv
  <2>2. h \in Bytes /\ y \in Bytes /\ Len(y) = Len(x) - 1
    BY <1>5, <2>1, HeadFirst
  <2>3. Len(x) \in Nat /\ GuestFifo \in Nat /\ Len(x) <= GuestFifo
    BY <1>3, <2>1, LenProperties, BridgeAssumption DEF Good, Bytes
  <2>4. y # <<>> => Len(y) \in Nat \ {0}
    BY <2>2, EmptySeq DEF Bytes
  <2>5. w \in BOOLEAN /\ (y # <<>> /\ c.woken => w)
    <3>1. c.woken \in BOOLEAN
      BY <2>1 DEF BridgeType
    <3> HIDE DEF y
    <3>2. y # <<>> => Len(x) > 1
      BY <2>2, <2>3, <2>4
    <3> QED
      BY <3>1, <3>2
  <2>6. Len(y) <= GuestFifo
    BY <2>2, <2>3
  <2>7. s' = [c EXCEPT !.rx = y, !.woken = w] /\ got' = h
    BY <1>1, <1>5
  <2>8. x # <<>>
    BY <1>5
  <2> HIDE DEF y, w, h
  <2>9. Good(s') /\ s'.rx = y /\ s'.pre = c.pre /\ s'.tx = c.tx /\ s'.ch = c.ch
    <3> DEFINE n == [c EXCEPT !.rx = y, !.woken = w]
    <3>1. n \in BridgeType
      BY <2>1, <2>2, <2>5 DEF BridgeType
    <3>2. /\ n.ch = c.ch /\ n.cable = c.cable /\ n.link = c.link
          /\ n.ready = c.ready /\ n.configured = c.configured
          /\ n.drop_idle = c.drop_idle /\ n.pre = c.pre
          /\ n.tx = c.tx /\ n.pace = c.pace /\ n.rx = y /\ n.woken = w
      BY <2>1 DEF BridgeType
    <3> HIDE DEF n
    <3>3. Good(n)
      BY <1>3, <2>5, <2>6, <2>8, <3>1, <3>2, RxGood
    <3> QED
      BY <2>7, <3>2, <3>3 DEF n
  <2>10. IInv'
    BY <1>2, <1>3, <2>1, <2>9, GoodNext DEF IInv
  <2> DEFINE p == c.pre
             d == p \o net
             u == s.rx \o s.pre \o net
  <2>11. d \in Bytes
    BY <2>1, ConcatProperties DEF Bytes
  <2> HIDE DEF x, p
  <2>12. (x \o p) \o net = x \o d /\ (y \o p) \o net = y \o d
    <3>1. x \in Bytes /\ y \in Bytes /\ p \in Bytes /\ net \in Bytes
      BY <2>1, <2>2 DEF p
    <3>2. (x \o p) \o net = x \o (p \o net)
      BY Zenon, <3>1, Associates
    <3>3. (y \o p) \o net = y \o (p \o net)
      BY Zenon, <3>1, Associates
    <3> QED
      BY <3>2, <3>3
  <2>13. u = x \o d /\ (s.rx \o s.pre \o net)' = y \o d
    BY <1>2, <1>3, <2>9, <2>12 DEF x, p
  <2> HIDE DEF d, u
  <2>14. /\ h = SubSeq(x \o d, 1, 1)
         /\ y \o d = SubSeq(x \o d, 1 + 1, Len(x \o d))
         /\ 1 \in 1..Len(x \o d)
    BY <2>1, <2>8, <2>11, TakeFront DEF h, y
  <2>15. In!Take
    BY <2>7, <2>13, <2>14 DEF In!Take, u
  <2> QED
    BY <1>2, <1>3, <2>9, <2>10, <2>15 DEF Step, InStep, OutStep, In!Next
<1> QED
  BY <1>4, <1>5

(***************************************************************************)
(* bridge_guest_rx_fifo_reset loses what is in the guest's FIFO.           *)
(***************************************************************************)
LEMMA GuestResetsFifoStep == ASSUME IInv, GuestResetsFifo PROVE Step
<1>1. /\ s' = [s EXCEPT !.rx = <<>>, !.woken = FALSE] /\ got' = <<>>
      /\ UNCHANGED <<net, put, mode>>
  BY DEF GuestResetsFifo
<1>2. Len(<<>>) <= GuestFifo
  BY BridgeAssumption
<1>3. /\ s.rx \in Bytes /\ s.pre \in Bytes /\ net \in Bytes /\ <<>> \in Bytes
  BY QueuesType
<1>4. /\ Good(s') /\ s'.rx = <<>> /\ s'.pre = s.pre /\ s'.tx = s.tx
      /\ s'.ch = s.ch
  <2> DEFINE n == [s EXCEPT !.rx = <<>>, !.woken = FALSE]
  <2>0. s \in BridgeType
    BY DEF IInv, Good, Wired
  <2>1. n \in BridgeType
    BY <1>3, <2>0 DEF BridgeType
  <2>2. /\ n.ch = s.ch /\ n.cable = s.cable /\ n.link = s.link
        /\ n.ready = s.ready /\ n.configured = s.configured
        /\ n.drop_idle = s.drop_idle /\ n.pre = s.pre
        /\ n.tx = s.tx /\ n.pace = s.pace /\ n.rx = <<>>
    BY <2>0 DEF BridgeType
  <2>3. s' = n
    BY <1>1
  <2> HIDE DEF n
  <2>4. Good(n)
    BY <1>2, <2>1, <2>2, RxGood DEF IInv
  <2> QED
    BY <2>2, <2>3, <2>4
<1>5. IInv'
  BY <1>1, <1>3, <1>4, GoodNext DEF IInv
<1> DEFINE x == s.rx
           p == s.pre
           d == p \o net
           u == x \o p \o net
<1>6. d \in Bytes
  BY <1>3, ConcatProperties DEF Bytes
<1>7. (s.rx \o s.pre \o net)' = d
  <2>1. <<>> \o p = p
    BY <1>3, ConcatEmptySeq DEF Bytes
  <2> QED
    BY <1>1, <1>4, <2>1
<1> HIDE DEF x, p
<1>8. u = x \o d
  BY <1>3, Associative DEF x, p
<1> HIDE DEF d, u
<1>9. Lost(u, d)
  BY <1>3, <1>6, <1>8, DropFront DEF x
<1>10. In!Lose
  BY <1>1, <1>7, <1>9 DEF In!Lose, Lost, u, x, p
<1> QED
  BY <1>1, <1>4, <1>5, <1>10 DEF Step, InStep, OutStep, In!Next

(***************************************************************************)
(* The guest's transmitter.                                                *)
(***************************************************************************)
LEMMA GuestWritesStep == ASSUME IInv, GuestWrites PROVE Step
<1>1. PICK x \in Byte : Keeps(QueueGuestTx(s, x))
  BY DEF GuestWrites
<1>2. UNCHANGED <<net, mode>>
  BY DEF GuestWrites
<1> DEFINE c == QueueGuestTx(s, x)
<1>3. /\ Good(c) /\ c.rx = s.rx /\ c.pre = s.pre /\ c.ch = s.ch
      /\ c.tx = s.tx \/ c.tx = Append(s.tx, x)
  BY QueueGuestTxGood DEF IInv
<1>4. s' = c /\ UNCHANGED <<got, put>>
  BY <1>1 DEF Keeps
<1> HIDE DEF c
<1>5. IInv'
  BY <1>2, <1>3, <1>4, QueuesType, GoodNext DEF IInv
<1>6. InStep
  BY <1>2, <1>3, <1>4 DEF InStep
<1>7. CASE c.tx = s.tx
  BY <1>4, <1>5, <1>6, <1>7 DEF Step, OutStep
<1>8. CASE c.tx = Append(s.tx, x)
  <2>1. s.tx \in Bytes
    BY QueuesType
  <2>2. Out!Put
    BY <1>4, <1>8, <2>1, PutEnd DEF Out!Put, Bytes
  <2> QED
    BY <1>5, <1>6, <2>2 DEF Step, OutStep, Out!Next
<1> QED
  BY <1>3, <1>7, <1>8

(***************************************************************************)
(* The guest's UART set-up and the plug of the dock.                       *)
(***************************************************************************)
LEMMA FlagsStep ==
    ASSUME IInv, GuestSetsUart \/ CablePlugged
    PROVE  Step
<1>0. Good(s) /\ s \in BridgeType
  BY DEF IInv, Good, Wired
<1> DEFINE off  == [s EXCEPT !.ready = FALSE]
           on   == [s EXCEPT !.ready = TRUE, !.configured = TRUE]
           plug == [s EXCEPT !.cable = TRUE, !.link = TRUE, !.drop_idle = TRUE]
           Same(c) == /\ c.ch = s.ch /\ c.rx = s.rx /\ c.pre = s.pre
                      /\ c.tx = s.tx /\ c.pace = s.pace /\ c.woken = s.woken
<1>1. Good(off) /\ Same(off)
  <2>1. /\ off \in BridgeType /\ Same(off) /\ ~off.ready
        /\ off.cable = s.cable /\ off.link = s.link
        /\ off.configured = s.configured /\ off.drop_idle = s.drop_idle
    BY <1>0 DEF BridgeType
  <2> HIDE DEF off
  <2> QED
    BY <1>0, <2>1, FlagsGood DEF Good, DataPath
<1>2. Good(on) /\ Same(on)
  <2>1. /\ on \in BridgeType /\ Same(on) /\ on.ready /\ on.configured
        /\ on.cable = s.cable /\ on.link = s.link /\ on.drop_idle = s.drop_idle
    BY <1>0 DEF BridgeType
  <2> HIDE DEF on
  <2> QED
    BY <1>0, <2>1, FlagsGood DEF Good, DataPath
<1>3. ASSUME ~DataPath(s) PROVE Good(plug) /\ Same(plug)
  <2>1. /\ plug \in BridgeType /\ Same(plug) /\ plug.ready = s.ready
        /\ plug.configured = s.configured
    BY <1>0 DEF BridgeType
  <2> HIDE DEF plug
  <2> QED
    BY <1>0, <1>3, <2>1, FlagsGood DEF Good, Wired
<1>4. CASE GuestSetsUart
  <2>1. (s' = off \/ s' \in Release(on)) /\ UNCHANGED <<net, got, put, mode>>
    BY <1>4 DEF GuestSetsUart
  <2> HIDE DEF off, on
  <2> QED
    BY <1>1, <1>2, <2>1, KeepsStep, ReleaseStep
<1>5. CASE CablePlugged
  <2>1. ~DataPath(s) /\ s' \in Release(plug) /\ UNCHANGED <<net, got, put, mode>>
    BY <1>5 DEF CablePlugged
  <2> HIDE DEF plug
  <2> QED
    BY <1>3, <2>1, ReleaseStep
<1> QED
  BY <1>4, <1>5

(***************************************************************************)
(* Every action of the guest and the dock.                                 *)
(***************************************************************************)
LEMMA GuestStep == ASSUME IInv, Guest PROVE Step
<1>0. Good(s) /\ mode.wince \in BOOLEAN
  BY BridgeAssumption DEF IInv, ModeType
<1>1. CASE GuestPolls
  BY <1>0, <1>1, ReleaseStep DEF GuestPolls
<1>2. CASE GuestResets
  <2>1. /\ Loses(ResetGuestSerial(s)) /\ UNCHANGED <<net, mode>>
        /\ Good(ResetGuestSerial(s)) /\ Empty(ResetGuestSerial(s))
        /\ ResetGuestSerial(s).ch = s.ch
    BY <1>0, <1>2, ResetGood DEF GuestResets
  <2> QED
    BY <2>1, LosesStep DEF IInv
<1>3. CASE CablePulled
  <2>1. /\ Loses(CableOut(s)) /\ UNCHANGED <<net, mode>>
        /\ Good(CableOut(s)) /\ Empty(CableOut(s)) /\ CableOut(s).ch = s.ch
    BY <1>0, <1>3, ResetGood DEF CablePulled
  <2> QED
    BY <2>1, LosesStep DEF IInv
<1> QED
  BY <1>1, <1>2, <1>3, GuestReadsStep, GuestResetsFifoStep, GuestWritesStep, FlagsStep
  DEF Guest

(***************************************************************************)
(* The peer and the redial timer.                                          *)
(***************************************************************************)
LEMMA PeerStep == ASSUME IInv, PeerSends \/ PeerCloses \/ RedialDue PROVE Step
<1>0. Good(s) /\ Wired(s) /\ ChGood(s.ch) /\ s.ch \in Channel
  BY DEF IInv, Good, Wired, ChGood
<1>1. CASE PeerSends
  <2>1. PICK x \in Byte : net' = Append(net, x)
    BY <1>1 DEF PeerSends
  <2>2. IsReady(s.ch) /\ UNCHANGED <<s, got, put, mode>>
    BY <1>1 DEF PeerSends
  <2> DEFINE q == s.rx \o s.pre
             u == q \o net
             n == Append(net, x)
             e == <<x>>
  <2>3. /\ q \in Bytes /\ net \in Bytes /\ u \in Bytes
    BY QueuesType
  <2>4. n = net \o e /\ e \in Bytes /\ n \in Bytes
    BY <2>3, PutEnd, AppendIsConcat DEF Bytes
  <2>5. Append(u, x) = u \o e
    BY <2>3, AppendIsConcat DEF Bytes
  <2>6. (s.rx \o s.pre \o net)' = q \o n
    BY <2>1, <2>2
  <2> HIDE DEF q, n, e
  <2>7. (q \o net) \o e = q \o (net \o e)
    BY <2>3, <2>4, Associates
  <2>8. (s.rx \o s.pre \o net)' = Append(u, x)
    BY <2>4, <2>5, <2>6, <2>7
  <2> HIDE DEF u
  <2>9. /\ Append(u, x) \in Bytes /\ Len(Append(u, x)) > Len(u)
        /\ SubSeq(Append(u, x), 1, Len(u)) = u
    BY <2>3, PutEnd
  <2>10. In!Put
    BY <2>2, <2>8, <2>9 DEF In!Put, u, q, Bytes
  <2>11. IInv'
    BY <1>0, <2>1, <2>2, <2>4, GoodNext DEF n
  <2> QED
    BY <2>2, <2>10, <2>11 DEF Step, InStep, OutStep, In!Next
<1>2. CASE PeerCloses
  BY <1>0, <1>2, KeepsStep DEF PeerCloses
<1>3. CASE RedialDue
  <2> DEFINE h == [s.ch EXCEPT !.due = TRUE]
             c == [s EXCEPT !.ch = h]
  <2>1. s' = c /\ UNCHANGED <<net, got, put, mode>>
    BY <1>3 DEF RedialDue
  <2>2. /\ h \in Channel /\ h.fd = s.ch.fd /\ h.connecting = s.ch.connecting
        /\ h.new_peer = s.ch.new_peer
    BY <1>0 DEF Channel
  <2> HIDE DEF h
  <2>3. ChGood(h) /\ (IsReady(s.ch) => IsReady(h))
    BY <1>0, <2>2 DEF ChGood, IsReady
  <2>4. Good(c) /\ c.ch = h /\ c.rx = s.rx /\ c.pre = s.pre /\ c.tx = s.tx
    BY <1>0, <2>3, ChannelGood
  <2> HIDE DEF c
  <2> QED
    BY <2>1, <2>3, <2>4, KeepsStep
<1> QED
  BY <1>1, <1>2, <1>3

(***************************************************************************)
(* pcconnect_bridge_configure leaves an empty bridge.                      *)
(***************************************************************************)
LEMMA InitGood == ASSUME Init PROVE IInv /\ In!Init /\ Out!Init
<1> DEFINE k == mode.kind
           h == [ChInit EXCEPT !.kind = k, !.listening = k \in ListenKinds,
                               !.fd = IF k = "pty" THEN 1 ELSE NoFd,
                               !.new_peer = k = "pty"]
           w == ~mode.wince
           b == [ch |-> h, cable |-> w, link |-> w, ready |-> w, configured |-> w,
                 drop_idle |-> FALSE, rx |-> <<>>, pre |-> <<>>, tx |-> <<>>,
                 pace |-> FALSE, woken |-> FALSE]
<1>1. /\ mode \in Modes /\ s = b
      /\ net = <<>> /\ got = <<>> /\ put = <<>>
  BY DEF Init, Bridge
<1>2. k \in AllKinds /\ w \in BOOLEAN
  BY <1>1, BridgeAssumption, KindsAssumption DEF ModeType
<1>3. h \in Channel /\ ~h.connecting /\ (h.new_peer => h.fd = 1)
  <2> DEFINE l == k \in ListenKinds
             f == IF k = "pty" THEN 1 ELSE NoFd
             n == k = "pty"
  <2>1. h = [ChInit EXCEPT !.kind = k, !.listening = l, !.fd = f, !.new_peer = n]
    OBVIOUS
  <2>2. l \in BOOLEAN /\ f \in ChFds /\ n \in BOOLEAN /\ (n => f = 1)
    BY DEF ChFds, NoFd
  <2> HIDE DEF h, l, f, n
  <2> QED
    BY <1>2, <2>1, <2>2 DEF ChInit, Channel, ChKind
<1>4. ChGood(h)
  BY <1>3 DEF ChGood
<1> HIDE DEF h, w
<1>5. <<>> \in Bytes /\ Len(<<>>) = 0 /\ <<>> \o <<>> = <<>>
  BY ConcatEmptySeq, EmptySeq DEF Bytes
<1>6. b \in BridgeType
  BY <1>2, <1>3, <1>5 DEF BridgeType
<1>7. Wired(b)
  BY <1>4, <1>6 DEF Wired
<1>8. Good(b)
  BY <1>5, <1>7, BridgeAssumption DEF Good
<1>9. s.rx = <<>> /\ s.pre = <<>> /\ s.tx = <<>>
  BY <1>1
<1>10. s.rx \o s.pre \o net = <<>>
  BY <1>1, <1>5, <1>9
<1> QED
  BY <1>1, <1>5, <1>8, <1>9, <1>10 DEF IInv, In!Init, Out!Init

(***************************************************************************)
(* Every step keeps the invariant and is a step of both streams, or none.  *)
(***************************************************************************)
LEMMA StepNext == ASSUME IInv, [Next]_vars PROVE Step
<1>1. CASE Tick
  BY <1>1, TickPollStep, DrainTxStep, DrainRxStep DEF Tick
<1>2. CASE Guest
  BY <1>2, GuestStep
<1>3. CASE PeerSends \/ PeerCloses \/ RedialDue
  BY <1>3, PeerStep
<1>4. CASE UNCHANGED vars
  BY <1>4, KeepsStep DEF vars, IInv
<1> QED
  BY <1>1, <1>2, <1>3, <1>4 DEF Next

(***************************************************************************)
(* Nothing is replayed across the dock, pacing ends with its backlog and   *)
(* no wake is lost.                                                        *)
(***************************************************************************)
THEOREM BridgeCorrect == Spec => [](NothingAcrossDock /\ PaceHasBacklog /\ WakeNotLost)
<1>1. IInv /\ [Next]_vars => IInv'
  BY StepNext DEF Step
<1>2. Init => IInv
  BY InitGood
<1>3. IInv => NothingAcrossDock /\ PaceHasBacklog /\ WakeNotLost
  BY DEF IInv, Good, Wired, NothingAcrossDock, PaceHasBacklog, WakeNotLost
<1> QED
  BY <1>1, <1>2, <1>3, PTL DEF Spec

(***************************************************************************)
(* From the socket to the guest the bridge implements a stream.            *)
(***************************************************************************)
THEOREM GuestReceivesStream == Spec => InIsStream
<1>1. Init => IInv /\ In!Init
  BY InitGood
<1>2. IInv /\ [Next]_vars => IInv' /\ [In!Next]_<<s.rx \o s.pre \o net, got>>
  BY StepNext DEF Step, InStep
<1> QED
  BY <1>1, <1>2, PTL DEF Spec, InIsStream, In!Spec

(***************************************************************************)
(* From the guest to the peer the bridge implements a stream.              *)
(***************************************************************************)
THEOREM PeerReceivesStream == Spec => OutIsStream
<1>1. Init => IInv /\ Out!Init
  BY InitGood
<1>2. IInv /\ [Next]_vars => IInv' /\ [Out!Next]_<<s.tx, put>>
  BY StepNext DEF Step, OutStep
<1> QED
  BY <1>1, <1>2, PTL DEF Spec, OutIsStream, Out!Spec

--------------------------------------------------------------------------------
(***************************************************************************)
(* The launcher's virtual machines: what is on the disk, in the list and   *)
(* in the editor names images of its own bundle only, the bundles renamed  *)
(* when their configuration could not be saved excepted.                   *)
(***************************************************************************)

Paths == (VmNames \X Images) \cup {NoImage}
CfgType == [Images -> Paths]
VmType == [name : VmNames, cfg : CfgType]
FileState == {"missing", "whole", "broken"}
BundleType == [config : {"whole", "torn", "missing"}, cfg : CfgType,
               file : [Images -> FileState]]

\* The bundles of d name their own images, those of o excepted; so does vm.
GoodDisk(d, o) == /\ DOMAIN d \subseteq VmNames
                  /\ d \in [DOMAIN d -> BundleType]
                  /\ \A n \in (DOMAIN d) \ o : NamesOwn(n, d[n].cfg)
GoodVm(vm, o)  == /\ vm \in VmType
                  /\ vm.name \in o \/ NamesOwn(vm.name, vm.cfg)

BundlesInv ==
    /\ GoodDisk(disk, orphaned)
    /\ DOMAIN list \subseteq VmNames
    /\ \A n \in DOMAIN list : list[n] \in CfgType
    /\ \A n \in (DOMAIN list) \ orphaned : NamesOwn(n, list[n])
    /\ selected \in (DOMAIN list) \cup {"none"}
    /\ edit = Closed \/ GoodVm(edit, orphaned)

\* A new configuration names no image.
LEMMA DefaultsOwn == Defaults \in CfgType /\ \A n : NamesOwn(n, Defaults)
BY DEF Defaults, CfgType, Paths, NamesOwn

\* Replacing one bundle of a disk.
LEMMA Rewritten ==
    ASSUME NEW o, NEW d, GoodDisk(d, o), NEW n \in DOMAIN d, NEW b \in BundleType,
           n \in o \/ NamesOwn(n, b.cfg)
    PROVE  GoodDisk([d EXCEPT ![n] = b], o) /\ DOMAIN [d EXCEPT ![n] = b] = DOMAIN d
<1> DEFINE e == [d EXCEPT ![n] = b]
<1>1. DOMAIN e = DOMAIN d /\ e \in [DOMAIN d -> BundleType]
  BY DEF GoodDisk
<1>2. \A m \in DOMAIN d : e[m] = IF m = n THEN b ELSE d[m]
  BY DEF GoodDisk
<1> HIDE DEF e
<1>3. \A m \in (DOMAIN e) \ o : NamesOwn(m, e[m].cfg)
  BY <1>1, <1>2 DEF GoodDisk
<1> QED
  BY <1>1, <1>3 DEF GoodDisk, e

\* A save writes what it is given, even when it fails at the end, or leaves the
\* file torn and the defaults.
LEMMA SavesGood ==
    ASSUME NEW o, NEW d, GoodDisk(d, o), NEW vm, GoodVm(vm, o), NEW r \in Saves(d, vm)
    PROVE  GoodDisk(r.d, o) /\ DOMAIN r.d = DOMAIN d /\ r.ok \in BOOLEAN
<1>1. CASE r = [ok |-> FALSE, d |-> d]
  BY <1>1
<1>2. ASSUME NEW c \in {"whole", "torn"}, NEW cfg \in CfgType, vm.name \in DOMAIN d,
             vm.name \in o \/ NamesOwn(vm.name, cfg)
      PROVE  LET e == Config(d, vm.name, c, cfg) IN GoodDisk(e, o) /\ DOMAIN e = DOMAIN d
  <2> DEFINE old == d[vm.name]
             b == [old EXCEPT !.config = c, !.cfg = cfg]
  <2>1. old \in BundleType
    BY <1>2 DEF GoodDisk
  <2>2. Config(d, vm.name, c, cfg) = [d EXCEPT ![vm.name] = b]
    BY DEF Config
  <2> HIDE DEF old
  <2>3. b \in BundleType /\ b.cfg = cfg
    BY <1>2, <2>1 DEF BundleType
  <2> HIDE DEF b
  <2> QED
    BY <1>2, <2>2, <2>3, Rewritten
<1>3. CASE r # [ok |-> FALSE, d |-> d]
  <2>1. vm.name \in DOMAIN d
    BY <1>3 DEF Saves
  <2>2. vm.cfg \in CfgType /\ (vm.name \in o \/ NamesOwn(vm.name, vm.cfg))
    BY DEF GoodVm, VmType
  <2>3. CASE \E ok \in BOOLEAN : r = [ok |-> ok, d |-> Config(d, vm.name, "whole", vm.cfg)]
    BY <1>2, <2>1, <2>2, <2>3
  <2>4. CASE r = [ok |-> FALSE, d |-> Config(d, vm.name, "torn", Defaults)]
    BY <1>2, <2>1, <2>4, DefaultsOwn
  <2> QED
    BY <1>3, <2>1, <2>3, <2>4 DEF Saves
<1> QED
  BY <1>1, <1>3

\* A copied image: whole or broken, and only that image.
LEMMA CopyGood ==
    ASSUME NEW o, NEW d, GoodDisk(d, o), NEW src, NEW name, NEW image \in Images,
           Holds(d, src) \in FileState, NEW r \in CopyFile(d, src, <<name, image>>)
    PROVE  GoodDisk(r.d, o) /\ DOMAIN r.d = DOMAIN d /\ r.ok \in BOOLEAN
<1> DEFINE to == <<name, image>>
<1>1. CASE r = [ok |-> FALSE, d |-> d]
  BY <1>1
<1>2. ASSUME NEW w \in FileState, name \in DOMAIN d
      PROVE  LET e == [d EXCEPT ![name].file[image] = w]
             IN  GoodDisk(e, o) /\ DOMAIN e = DOMAIN d
  <2> DEFINE f == [d[name].file EXCEPT ![image] = w]
             b == [config |-> d[name].config, cfg |-> d[name].cfg, file |-> f]
  <2>1. d[name] \in BundleType
    BY <1>2 DEF GoodDisk
  <2>2. f \in [Images -> FileState]
    BY <1>2, <2>1 DEF BundleType
  <2>3. [d EXCEPT ![name].file[image] = w] = [d EXCEPT ![name] = [@ EXCEPT !.file = f]]
    OBVIOUS
  <2> HIDE DEF f
  <2>4. b \in BundleType /\ b.cfg = d[name].cfg /\ [d[name] EXCEPT !.file = f] = b
    BY <2>1, <2>2 DEF BundleType
  <2>5. [d EXCEPT ![name].file[image] = w] = [d EXCEPT ![name] = b]
    BY <2>3, <2>4
  <2>6. name \in o \/ NamesOwn(name, b.cfg)
    BY <1>2, <2>4 DEF GoodDisk
  <2> HIDE DEF b
  <2> QED
    BY <1>2, <2>4, <2>5, <2>6, Rewritten
<1>3. CASE r # [ok |-> FALSE, d |-> d]
  <2>1. to[1] \in DOMAIN d /\ to[1] = name /\ to[2] = image
    BY <1>3 DEF CopyFile
  <2>2. PICK w \in {"broken", Holds(d, src)}, k \in BOOLEAN :
          r = [ok |-> k, d |-> [d EXCEPT ![name].file[image] = w]]
    <3>1. \/ r = [ok |-> TRUE, d |-> [d EXCEPT ![name].file[image] =
                                 IF src = to THEN "broken" ELSE Holds(d, src)]]
          \/ r = [ok |-> FALSE, d |-> [d EXCEPT ![name].file[image] = "broken"]]
      BY <1>3, <2>1 DEF CopyFile
    <3> QED
      BY <3>1
  <2>3. w \in FileState
    BY <2>2 DEF FileState
  <2> QED
    BY <1>2, <2>1, <2>2, <2>3
<1> QED
  BY <1>1, <1>3

\* An import names the copy in the bundle, or fails and keeps the name.
LEMMA ImportGood ==
    ASSUME NEW o, NEW d, GoodDisk(d, o), NEW vm, GoodVm(vm, o), NEW src, NEW image \in Images,
           Holds(d, src) \in FileState, NEW r \in Import(d, vm, image, src)
    PROVE  /\ GoodDisk(r.d, o) /\ DOMAIN r.d = DOMAIN d /\ r.ok \in BOOLEAN
           /\ GoodVm(r.vm, o) /\ r.vm.name = vm.name
           /\ r = [ok |-> r.ok, d |-> r.d, vm |-> r.vm]
<1>1. ASSUME NEW p \in {NoImage, <<vm.name, image>>}
      PROVE  GoodVm([vm EXCEPT !.cfg[image] = p], o) /\ [vm EXCEPT !.cfg[image] = p].name = vm.name
  <2> DEFINE g == [vm.cfg EXCEPT ![image] = p]
             v == [name |-> vm.name, cfg |-> g]
  <2>1. vm \in VmType /\ vm.cfg \in CfgType /\ vm.name \in VmNames
    BY DEF GoodVm, VmType
  <2>2. p \in Paths
    BY <2>1 DEF Paths
  <2>3. g \in CfgType /\ \A i \in Images : g[i] = IF i = image THEN p ELSE vm.cfg[i]
    BY <2>1, <2>2 DEF CfgType
  <2>4. [vm EXCEPT !.cfg[image] = p] = v
    BY <2>1 DEF VmType
  <2> HIDE DEF g
  <2>5. v \in VmType /\ v.name = vm.name /\ v.cfg = g
    BY <2>1, <2>3 DEF VmType
  <2>6. NamesOwn(vm.name, vm.cfg) => NamesOwn(vm.name, g)
    BY <1>1, <2>3 DEF NamesOwn
  <2> HIDE DEF v
  <2> QED
    BY <2>4, <2>5, <2>6 DEF GoodVm
<1>2. PICK c \in CopyFile(d, src, <<vm.name, image>>) :
        r \in IF ~c.ok THEN {[ok |-> FALSE, d |-> c.d, vm |-> [vm EXCEPT !.cfg[image] = NoImage]]}
              ELSE LET to == [vm EXCEPT !.cfg[image] = <<vm.name, image>>]
                   IN {[ok |-> q.ok, d |-> q.d, vm |-> to] : q \in Saves(c.d, to)}
  BY DEF Import
<1>3. GoodDisk(c.d, o) /\ DOMAIN c.d = DOMAIN d
  BY <1>2, CopyGood
<1>4. CASE ~c.ok
  <2> DEFINE v == [vm EXCEPT !.cfg[image] = NoImage]
  <2>1. GoodVm(v, o) /\ v.name = vm.name
    BY <1>1
  <2>2. r = [ok |-> FALSE, d |-> c.d, vm |-> v]
    BY <1>2, <1>4
  <2> HIDE DEF v
  <2> QED
    BY <1>3, <2>1, <2>2
<1>5. CASE c.ok
  <2> DEFINE to == [vm EXCEPT !.cfg[image] = <<vm.name, image>>]
  <2>1. GoodVm(to, o) /\ to.name = vm.name
    BY <1>1
  <2>2. PICK q \in Saves(c.d, to) : r = [ok |-> q.ok, d |-> q.d, vm |-> to]
    BY <1>2, <1>5
  <2> HIDE DEF to
  <2>3. GoodDisk(q.d, o) /\ DOMAIN q.d = DOMAIN c.d /\ q.ok \in BOOLEAN
    BY <1>3, <2>1, <2>2, SavesGood
  <2> QED
    BY <1>3, <2>1, <2>2, <2>3
<1> QED
  BY <1>4, <1>5

\* What a source holds is whole, broken or missing.
LEMMA HeldIsFile ==
    ASSUME NEW o, NEW d, GoodDisk(d, o), NEW src \in {Elsewhere} \cup (VmNames \X Images)
    PROVE  Holds(d, src) \in FileState
<1>1. CASE src = Elsewhere
  BY <1>1 DEF Holds, FileState
<1>2. CASE src # Elsewhere
  <2>1. src[1] \in VmNames /\ src[2] \in Images
    BY <1>2
  <2>2. src[1] \in DOMAIN d => d[src[1]] \in BundleType
    BY DEF GoodDisk
  <2> QED
    BY <1>2, <2>1, <2>2 DEF Holds, FileState, BundleType
<1> QED
  BY <1>1, <1>2

\* The paths into a bundle follow it to its new name.
LEMMA RebasedOwn ==
    ASSUME NEW vm \in VmType, NEW new \in VmNames
    PROVE  /\ Rebased(vm.cfg, vm.name, new) \in CfgType
           /\ NamesOwn(vm.name, vm.cfg) => NamesOwn(new, Rebased(vm.cfg, vm.name, new))
<1> DEFINE c == vm.cfg
           old == vm.name
           g == Rebased(c, old, new)
<1>1. c \in CfgType /\ old \in VmNames /\ old # "none"
  BY BundlesAssumption DEF VmType
<1> HIDE DEF c, old
<1>2. g = [i \in Images |-> IF c[i][1] = old THEN <<new, c[i][2]>> ELSE c[i]]
  BY DEF Rebased
<1> HIDE DEF g
<1>3. ASSUME NEW i \in Images
      PROVE  g[i] \in Paths /\ (c[i] = NoImage => g[i] = NoImage)
             /\ (c[i] = <<old, i>> => g[i] = <<new, i>>)
  <2>1. CASE c[i] = NoImage
    <3>1. c[i][1] = "none" /\ NoImage # <<old, i>>
      BY <1>1, <2>1 DEF NoImage
    <3> QED
      BY <1>1, <1>2, <2>1, <3>1 DEF Paths
  <2>2. CASE c[i] # NoImage
    <3>1. c[i] \in VmNames \X Images
      BY <1>1, <2>2 DEF CfgType, Paths
    <3>2. PICK m \in VmNames, j \in Images : c[i] = <<m, j>>
      BY <3>1
    <3>3. c[i][1] = m /\ c[i][2] = j
      BY <3>2
    <3>4. g[i] = IF m = old THEN <<new, j>> ELSE <<m, j>>
      BY <1>2, <3>2, <3>3
    <3> QED
      BY <2>2, <3>2, <3>4 DEF Paths
  <2> QED
    BY <2>1, <2>2
<1>4. g \in CfgType
  BY <1>2, <1>3 DEF CfgType
<1>5. NamesOwn(old, c) => NamesOwn(new, g)
  BY <1>3 DEF NamesOwn
<1> QED
  BY <1>4, <1>5 DEF g, c, old

\* A rename keeps what the other bundles name, and what this one names follows it.
LEMMA RenamesGood ==
    ASSUME NEW o, NEW d, GoodDisk(d, o), NEW vm, GoodVm(vm, o), NEW new \in VmNames,
           NEW r \in Renames(d, vm, new)
    PROVE  /\ r.ok \in BOOLEAN
           /\ (r.d = d /\ r.vm = vm) \/ (r.ok /\ new # vm.name)
           /\ r.ok /\ new # vm.name =>
                 /\ GoodDisk(r.d, o \cup {new}) /\ r.vm.name = new /\ r.vm \in VmType
                 /\ NamesOwn(vm.name, vm.cfg) => NamesOwn(new, r.vm.cfg)
<1>1. CASE r = [ok |-> TRUE, d |-> d, vm |-> vm] /\ new = vm.name
  <2>1. r.ok = TRUE /\ r.d = d /\ r.vm = vm
    BY <1>1
  <2> QED
    BY <1>1, <2>1
<1>2. CASE r = [ok |-> FALSE, d |-> d, vm |-> vm]
  <2>1. r.ok = FALSE /\ r.d = d /\ r.vm = vm
    BY <1>2
  <2> QED
    BY <2>1
<1>3. CASE /\ new # vm.name /\ new \notin DOMAIN d /\ vm.name \in DOMAIN d
           /\ r = [ok |-> TRUE, d |-> With(Without(d, {vm.name}), new, d[vm.name]),
                   vm |-> [name |-> new, cfg |-> Rebased(vm.cfg, vm.name, new)]]
  <2> DEFINE e == With(Without(d, {vm.name}), new, d[vm.name])
             v == [name |-> new, cfg |-> Rebased(vm.cfg, vm.name, new)]
  <2>1. vm \in VmType
    BY DEF GoodVm
  <2>2. v \in VmType /\ v.name = new
        /\ (NamesOwn(vm.name, vm.cfg) => NamesOwn(new, v.cfg))
    BY <2>1, RebasedOwn DEF VmType
  <2>3. DOMAIN e = ((DOMAIN d) \ {vm.name}) \cup {new}
    BY DEF With, Without
  <2>4. \A m \in DOMAIN e : e[m] = IF m = new THEN d[vm.name] ELSE d[m]
    BY <2>3 DEF With, Without
  <2>5. e = [m \in DOMAIN e |-> e[m]]
    BY DEF With
  <2> HIDE DEF e, v
  <2>6. e \in [DOMAIN e -> BundleType] /\ DOMAIN e \subseteq VmNames
    BY <1>3, <2>3, <2>4, <2>5 DEF GoodDisk
  <2>7. \A m \in (DOMAIN e) \ (o \cup {new}) : NamesOwn(m, e[m].cfg)
    BY <2>3, <2>4 DEF GoodDisk
  <2>8. r.ok = TRUE /\ r.d = e /\ r.vm = v
    BY <1>3 DEF e, v
  <2> QED
    BY <1>3, <2>2, <2>6, <2>7, <2>8 DEF GoodDisk
<1> QED
  BY <1>1, <1>2, <1>3 DEF Renames

\* What a deletion leaves of a bundle, whichever removal fails.
LEMMA DeletesGood ==
    ASSUME NEW o, NEW d, GoodDisk(d, o), NEW name, NEW e \in Deletes(d, name)
    PROVE  GoodDisk(e, o)
<1>1. CASE e = d
  BY <1>1
<1>2. CASE name \in DOMAIN d /\ e = Without(d, {name})
  <2>1. DOMAIN e = (DOMAIN d) \ {name} /\ (\A m \in DOMAIN e : e[m] = d[m])
        /\ e = [m \in DOMAIN e |-> e[m]]
    BY <1>2 DEF Without
  <2> QED
    BY <2>1 DEF GoodDisk
<1>3. ASSUME name \in DOMAIN d, NEW gone, e = With(d, name, Remains(d[name], gone))
      PROVE  GoodDisk(e, o)
  <2> DEFINE b == Remains(d[name], gone)
  <2>1. d[name] \in BundleType
    BY <1>3 DEF GoodDisk
  <2>2. b \in BundleType /\ b.cfg \in {Defaults, d[name].cfg}
    BY <2>1, DefaultsOwn DEF Remains, BundleType, FileState
  <2>3. name \in o \/ NamesOwn(name, b.cfg)
    BY <1>3, <2>2, DefaultsOwn DEF GoodDisk
  <2> HIDE DEF b
  <2>4. With(d, name, b) = [d EXCEPT ![name] = b]
    BY <1>3 DEF With, GoodDisk
  <2>5. GoodDisk([d EXCEPT ![name] = b], o)
    BY <1>3, <2>2, <2>3, Rewritten
  <2> QED
    BY <1>3, <2>4, <2>5 DEF b
<1> QED
  BY <1>1, <1>2, <1>3 DEF Deletes

--------------------------------------------------------------------------------
(* The steps of the launcher.                                              *)

\* The list of a refresh has what the disk has.
LEMMA RefreshGood ==
    ASSUME NEW late, GoodDisk(disk', late), Refresh(late)
    PROVE  /\ GoodDisk(disk', orphaned')
           /\ DOMAIN list' \subseteq VmNames
           /\ \A n \in DOMAIN list' : list'[n] \in CfgType
           /\ \A n \in (DOMAIN list') \ orphaned' : NamesOwn(n, list'[n])
           /\ selected' \in (DOMAIN list') \cup {"none"}
<1>1. list' = Listed(disk') /\ orphaned' = late \cap DOMAIN disk'
      /\ selected' \in (DOMAIN list') \cup {"none"}
  BY DEF Refresh
<1>2. DOMAIN list' \subseteq DOMAIN disk' /\ \A n \in DOMAIN list' : list'[n] = disk'[n].cfg
  BY <1>1 DEF Listed
<1>3. GoodDisk(disk', orphaned')
  BY <1>1 DEF GoodDisk
<1>4. \A n \in DOMAIN disk' : disk'[n].cfg \in CfgType
  BY DEF GoodDisk, BundleType
<1>5. \A n \in (DOMAIN list') \ orphaned' : NamesOwn(n, list'[n])
  BY <1>2, <1>3 DEF GoodDisk
<1> QED
  BY <1>1, <1>2, <1>3, <1>4, <1>5 DEF GoodDisk


SomeSources == {NoImage, Elsewhere} \cup (VmNames \X Images)
Result(r, n, o) == /\ r.ok \in BOOLEAN /\ GoodDisk(r.d, o)
                   /\ GoodVm(r.vm, o) /\ r.vm.name = n

\* The images that may be chosen are among those of the disk.
LEMMA SourcesNamed ==
    ASSUME NEW o, GoodDisk(disk, o) PROVE Sources \cup {NoImage} \subseteq SomeSources
BY DEF Sources, SomeSources, GoodDisk

\* One more image of the wizard imported.
LEMMA ImportedGood ==
    ASSUME NEW rs, NEW n, NEW o, \A r \in rs : Result(r, n, o),
           NEW image \in Images, NEW src \in SomeSources, NEW x \in Imported(rs, image, src)
    PROVE  Result(x, n, o)
<1>1. CASE src = NoImage
  BY <1>1 DEF Imported
<1>2. CASE src # NoImage
  <2>1. PICK r \in rs : \E q \in Import(r.d, r.vm, image, src) : x = [q EXCEPT !.ok = @ /\ r.ok]
    BY <1>2 DEF Imported
  <2>2. PICK q \in Import(r.d, r.vm, image, src) : x = [q EXCEPT !.ok = @ /\ r.ok]
    BY <2>1
  <2>3. GoodDisk(r.d, o) /\ GoodVm(r.vm, o) /\ r.vm.name = n /\ r.ok \in BOOLEAN
    BY DEF Result
  <2>4. src \in {Elsewhere} \cup (VmNames \X Images)
    BY <1>2 DEF SomeSources
  <2>5. Holds(r.d, src) \in FileState
    BY <2>3, <2>4, HeldIsFile
  <2>6. /\ GoodDisk(q.d, o) /\ q.ok \in BOOLEAN /\ GoodVm(q.vm, o) /\ q.vm.name = n
        /\ q = [ok |-> q.ok, d |-> q.d, vm |-> q.vm]
    BY <2>2, <2>3, <2>5, ImportGood
  <2>7. x.ok = (q.ok /\ r.ok) /\ x.d = q.d /\ x.vm = q.vm
    BY <2>2, <2>6
  <2> QED
    BY <2>3, <2>6, <2>7 DEF Result
<1> QED
  BY <1>1, <1>2

\* All images of the wizard imported, in source order.
LEMMA AllImportedGood ==
    ASSUME NEW new, NEW n, NEW o, Result(new, n, o), NEW srcs \in [Images -> SomeSources],
           NEW x \in AllImported(new, srcs)
    PROVE  Result(x, n, o)
<1> DEFINE next(rs, i) == IF i \in Images THEN Imported(rs, i, srcs[i]) ELSE rs
           Fine(rs) == \A r \in rs : Result(r, n, o)
<1>1. ASSUME NEW rs, NEW i, Fine(rs) PROVE Fine(next(rs, i))
  <2>1. CASE i \in Images
    <3>1. srcs[i] \in SomeSources /\ next(rs, i) = Imported(rs, i, srcs[i])
      BY <2>1
    <3>2. ASSUME NEW r \in Imported(rs, i, srcs[i]) PROVE Result(r, n, o)
      BY <1>1, <2>1, <3>1, <3>2, ImportedGood
    <3> QED
      BY <3>1, <3>2
  <2>2. CASE i \notin Images
    BY <1>1, <2>2
  <2> QED
    BY <2>1, <2>2
<1>2. Fine({new})
  OBVIOUS
<1>3. AllImported(new, srcs) = next(next(next({new}, "nand"), "cf0"), "cf1")
  BY DEF AllImported
<1> HIDE DEF next, Fine
<1>4. Fine(next(next(next({new}, "nand"), "cf0"), "cf1"))
  BY <1>1, <1>2
<1> QED
  BY <1>3, <1>4 DEF Fine

\* The wizard: create, import, save.
LEMMA CreateStep == BundlesInv /\ CreateVm => BundlesInv'
<1> SUFFICES ASSUME BundlesInv, CreateVm PROVE BundlesInv'
  OBVIOUS
<1> DEFINE o == orphaned
<1>1. edit = Closed /\ edit' = edit /\ edit' = Closed
  BY DEF CreateVm, InManager
<1>2. PICK name \in VmNames, srcs \in [Images -> Sources \cup {NoImage}] :
        \E made \in Creates(disk, name) :
          IF ~made.ok THEN disk' = made.d /\ Goes(FALSE) /\ UNCHANGED <<list, selected, orphaned>>
          ELSE LET new == [ok |-> TRUE, d |-> made.d, vm |-> [Closed EXCEPT !.name = name]]
               IN /\ \E r \in AllImported(new, srcs) : \E last \in Saves(r.d, r.vm) :
                       disk' = last.d /\ Goes(r.ok /\ last.ok)
                  /\ Refresh(orphaned)
  BY DEF CreateVm
<1> DEFINE vm == [name |-> name, cfg |-> Defaults]
<1>3. GoodDisk(disk, o) /\ vm = [Closed EXCEPT !.name = name]
  BY DEF BundlesInv, Closed
<1>4. GoodVm(vm, o) /\ vm.name = name
  BY DefaultsOwn DEF GoodVm, VmType
<1> HIDE DEF vm
<1>5. PICK made \in Creates(disk, name) :
          IF ~made.ok THEN disk' = made.d /\ UNCHANGED <<list, selected, orphaned>>
          ELSE LET new == [ok |-> TRUE, d |-> made.d, vm |-> vm]
               IN /\ \E r \in AllImported(new, srcs) : \E last \in Saves(r.d, r.vm) : disk' = last.d
                  /\ Refresh(orphaned)
  BY <1>2, <1>3
<1>6. GoodDisk(made.d, o) /\ made.ok \in BOOLEAN
  <2>1. CASE made = [ok |-> FALSE, d |-> disk]
    BY <1>3, <2>1
  <2>2. CASE name \notin DOMAIN disk /\ made # [ok |-> FALSE, d |-> disk]
    <3> DEFINE b == Bundle("missing", Defaults)
               e == With(disk, name, b)
    <3>1. b \in BundleType /\ b.cfg = Defaults
      BY DefaultsOwn DEF Bundle, BundleType, FileState
    <3> HIDE DEF b
    <3>2. /\ DOMAIN e = (DOMAIN disk) \cup {name} /\ e = [m \in DOMAIN e |-> e[m]]
          /\ \A m \in DOMAIN e : e[m] = IF m = name THEN b ELSE disk[m]
      BY DEF With
    <3> HIDE DEF e
    <3>3. DOMAIN e \subseteq VmNames /\ e \in [DOMAIN e -> BundleType]
      BY <1>3, <3>1, <3>2 DEF GoodDisk
    <3>4. \A m \in (DOMAIN e) \ o : NamesOwn(m, e[m].cfg)
      BY <1>3, <3>1, <3>2, DefaultsOwn DEF GoodDisk
    <3>5. GoodDisk(e, o)
      BY <3>3, <3>4 DEF GoodDisk
    <3>6. made \in Saves(e, vm)
      BY <1>3, <2>2 DEF Creates, e, b
    <3> QED
      BY <1>4, <3>5, <3>6, SavesGood
  <2> QED
    BY <2>1, <2>2 DEF Creates
<1>7. CASE ~made.ok
  BY <1>1, <1>5, <1>6, <1>7 DEF BundlesInv
<1>8. CASE made.ok
  <2> DEFINE new == [ok |-> TRUE, d |-> made.d, vm |-> vm]
  <2>1. PICK r \in AllImported(new, srcs) : \E last \in Saves(r.d, r.vm) : disk' = last.d
    BY <1>5, <1>8
  <2>2. Result(new, name, o)
    BY <1>4, <1>6 DEF Result
  <2> HIDE DEF new
  <2>3. srcs \in [Images -> SomeSources]
    BY <1>3, SourcesNamed
  <2>4. Result(r, name, o)
    BY <2>1, <2>2, <2>3, AllImportedGood
  <2>5. GoodDisk(disk', o)
    BY <2>1, <2>4, SavesGood DEF Result
  <2>6. Refresh(o)
    BY <1>5, <1>8
  <2> QED
    BY <1>1, <2>5, <2>6, RefreshGood DEF BundlesInv
<1> QED
  BY <1>7, <1>8

\* The settings: another image for a slot.
LEMMA ReplaceStep ==
    ASSUME BundlesInv, NEW i \in Images, NEW src \in Sources, Replace(i, src) PROVE BundlesInv'
<1>1. GoodDisk(disk, orphaned) /\ GoodVm(edit, orphaned)
  BY DEF BundlesInv, Replace, InManager
<1>2. src \in {Elsewhere} \cup (VmNames \X Images)
  BY <1>1 DEF Sources, GoodDisk
<1>3. PICK r \in Import(disk, edit, i, src) : disk' = r.d /\ edit' = r.vm
  BY DEF Replace
<1>4. Holds(disk, src) \in FileState
  BY <1>1, <1>2, HeldIsFile
<1>5. GoodDisk(disk', orphaned) /\ GoodVm(edit', orphaned)
  BY <1>1, <1>3, <1>4, ImportGood
<1>6. UNCHANGED <<list, selected, orphaned>>
  BY DEF Replace
<1> QED
  BY <1>5, <1>6 DEF BundlesInv

\* The settings: rename and save.
LEMMA SaveStep == BundlesInv /\ SaveSettings => BundlesInv'
<1> SUFFICES ASSUME BundlesInv, SaveSettings PROVE BundlesInv'
  OBVIOUS
<1> DEFINE NotSaved(r, ok, new) ==
             IF (r.ok /\ new # edit.name) /\ (~ok \/ edit.name \in orphaned) THEN {new} ELSE {}
<1>1. GoodDisk(disk, orphaned) /\ GoodVm(edit, orphaned)
  BY DEF BundlesInv, SaveSettings, InManager
<1>2. PICK new \in VmNames : \E r \in Renames(disk, edit, new) :
          \E last \in IF r.ok THEN Saves(r.d, r.vm) ELSE {[ok |-> FALSE, d |-> r.d]} :
             /\ disk' = last.d
             /\ IF last.ok THEN edit' = Closed /\ Refresh(orphaned \cup NotSaved(r, last.ok, new))
                ELSE /\ edit' = r.vm /\ orphaned' = orphaned \cup NotSaved(r, last.ok, new)
                     /\ UNCHANGED <<list, selected>>
  BY DEF SaveSettings
<1>2a. PICK r \in Renames(disk, edit, new) :
          \E last \in IF r.ok THEN Saves(r.d, r.vm) ELSE {[ok |-> FALSE, d |-> r.d]} :
             /\ disk' = last.d
             /\ IF last.ok THEN edit' = Closed /\ Refresh(orphaned \cup NotSaved(r, last.ok, new))
                ELSE /\ edit' = r.vm /\ orphaned' = orphaned \cup NotSaved(r, last.ok, new)
                     /\ UNCHANGED <<list, selected>>
  BY <1>2
<1>3. PICK last \in IF r.ok THEN Saves(r.d, r.vm) ELSE {[ok |-> FALSE, d |-> r.d]} :
             /\ disk' = last.d
             /\ IF last.ok THEN edit' = Closed /\ Refresh(orphaned \cup NotSaved(r, last.ok, new))
                ELSE /\ edit' = r.vm /\ orphaned' = orphaned \cup NotSaved(r, last.ok, new)
                     /\ UNCHANGED <<list, selected>>
  BY <1>2a
<1> DEFINE o == orphaned \cup NotSaved(r, last.ok, new)
<1>4. /\ r.ok \in BOOLEAN
      /\ (r.d = disk /\ r.vm = edit) \/ (r.ok /\ new # edit.name)
      /\ r.ok /\ new # edit.name =>
            /\ GoodDisk(r.d, orphaned \cup {new}) /\ r.vm.name = new /\ r.vm \in VmType
            /\ NamesOwn(edit.name, edit.cfg) => NamesOwn(new, r.vm.cfg)
  BY <1>1, <1>3, RenamesGood
<1>5. \A u : GoodDisk(disk, orphaned) => GoodDisk(disk, orphaned \cup u)
  BY DEF GoodDisk
<1>6. last.ok \in BOOLEAN /\ GoodDisk(last.d, o) /\ (~last.ok => GoodVm(r.vm, o))
  <2>1. CASE ~(r.ok /\ new # edit.name)
    <3>1. r.d = disk /\ r.vm = edit /\ o = orphaned
      BY <1>4, <2>1
    <3> HIDE DEF o
    <3>2. CASE r.ok
      BY <1>1, <1>3, <3>1, <3>2, SavesGood
    <3>3. CASE ~r.ok
      <4>1. last = [ok |-> FALSE, d |-> disk]
        BY <1>3, <3>1, <3>3
      <4> QED
        BY <1>1, <3>1, <4>1
    <3> QED
      BY <1>4, <3>2, <3>3
  <2>2. CASE r.ok /\ new # edit.name
    <3> DEFINE n == orphaned \cup {new}
    <3>1. GoodDisk(r.d, n) /\ GoodVm(r.vm, n) /\ r.vm.name = new /\ last \in Saves(r.d, r.vm)
      BY <1>3, <1>4, <2>2 DEF GoodVm
    <3>2. GoodDisk(last.d, n) /\ last.ok \in BOOLEAN
      <4> HIDE DEF n
      <4> QED BY <3>1, SavesGood
    <3>3. CASE ~last.ok \/ edit.name \in orphaned
      <4>1. o = n
        BY <2>2, <3>3
      <4> HIDE DEF o, n
      <4> QED
        BY <3>1, <3>2, <4>1
    <3>4. CASE last.ok /\ edit.name \notin orphaned
      <4>1. o = orphaned
        BY <2>2, <3>4
      <4>2. NamesOwn(new, r.vm.cfg)
        BY <1>1, <1>4, <2>2, <3>4 DEF GoodVm
      <4>3. last = [ok |-> TRUE, d |-> Config(r.d, r.vm.name, "whole", r.vm.cfg)]
            /\ r.vm.name \in DOMAIN r.d
        BY <3>1, <3>4 DEF Saves
      <4>4. new \in DOMAIN last.d => last.d[new].cfg = r.vm.cfg
        <5> DEFINE b == r.d[new]
        <5>1. b \in BundleType
          BY <3>1, <4>3 DEF GoodDisk
        <5>2. last.d[new] = [b EXCEPT !.config = "whole", !.cfg = r.vm.cfg]
          BY <3>1, <4>3 DEF Config
        <5> HIDE DEF b
        <5> QED
          BY <5>1, <5>2 DEF BundleType
      <4>5. \A m \in (DOMAIN last.d) \ orphaned : NamesOwn(m, last.d[m].cfg)
        BY <3>2, <4>2, <4>4 DEF GoodDisk
      <4>6. GoodDisk(last.d, orphaned)
        BY <3>2, <4>5 DEF GoodDisk
      <4> HIDE DEF o, n
      <4> QED
        BY <3>2, <3>4, <4>1, <4>6
    <3> QED
      BY <3>2, <3>3, <3>4
  <2> QED
    BY <2>1, <2>2
<1>7. CASE last.ok
  <2>1. edit' = Closed /\ Refresh(o) /\ GoodDisk(disk', o)
    BY <1>3, <1>6, <1>7
  <2> HIDE DEF o
  <2> QED
    BY <2>1, RefreshGood DEF BundlesInv
<1>8. CASE ~last.ok
  <2>1. /\ edit' = r.vm /\ orphaned' = o /\ orphaned \subseteq o /\ UNCHANGED <<list, selected>>
        /\ GoodDisk(disk', orphaned') /\ GoodVm(edit', orphaned')
    BY <1>3, <1>6, <1>8
  <2> HIDE DEF o
  <2> QED
    BY <2>1 DEF BundlesInv
<1> QED
  BY <1>6, <1>7, <1>8

\* No bundle, no list, no editor.
LEMMA BundlesInvInit == BundlesInit => BundlesInv
<1> SUFFICES ASSUME BundlesInit PROVE BundlesInv
  OBVIOUS
<1>1. disk = Without([n \in VmNames |-> Bundle("missing", Defaults)], VmNames)
  BY DEF BundlesInit
<1>2. DOMAIN disk = {} /\ disk = [n \in DOMAIN disk |-> disk[n]]
  BY <1>1 DEF Without
<1>3. DOMAIN list = {}
  BY <1>2 DEF BundlesInit, Listed
<1>4. GoodDisk(disk, orphaned)
  BY <1>2 DEF GoodDisk
<1> QED
  BY <1>3, <1>4 DEF BundlesInit, BundlesInv

\* Every step of the launcher.
LEMMA BundlesInvNext == BundlesInv /\ [BundlesNext]_bundleVars => BundlesInv'
<1> SUFFICES ASSUME BundlesInv, [BundlesNext]_bundleVars PROVE BundlesInv'
  OBVIOUS
<1>0. GoodDisk(disk, orphaned)
  BY DEF BundlesInv
<1>1. CASE Select
  BY <1>1 DEF Select, BundlesInv
<1>2. CASE Edit
  <2>1. selected \in DOMAIN list /\ edit' = [name |-> selected, cfg |-> list[selected]]
        /\ UNCHANGED <<disk, list, selected, orphaned>>
    BY <1>2 DEF Edit, BundlesInv
  <2>2. edit' \in VmType
    BY <2>1 DEF VmType, BundlesInv
  <2>3. edit'.name \in orphaned \/ NamesOwn(edit'.name, edit'.cfg)
    BY <2>1 DEF BundlesInv
  <2> QED
    BY <2>1, <2>2, <2>3 DEF BundlesInv, GoodVm
<1>3. CASE Cancel
  BY <1>3 DEF Cancel, BundlesInv
<1>4. CASE DeleteVm
  <2>1. GoodDisk(disk', orphaned)
    BY <1>0, <1>4, DeletesGood DEF DeleteVm
  <2>2. Refresh(orphaned) /\ edit' = edit /\ edit = Closed
    BY <1>4 DEF DeleteVm, InManager
  <2> QED
    BY <2>1, <2>2, RefreshGood DEF BundlesInv
<1>5. CASE RunVm
  <2>1. GoodDisk(disk', orphaned) /\ Refresh(orphaned) /\ edit' = edit /\ edit = Closed
    BY <1>0, <1>5 DEF RunVm, InManager
  <2> QED
    BY <2>1, RefreshGood DEF BundlesInv
<1>6. CASE Relaunch
  <2>1. GoodDisk(disk', orphaned) /\ Refresh(orphaned) /\ edit' = Closed
    BY <1>0, <1>6 DEF Relaunch
  <2> QED
    BY <2>1, RefreshGood DEF BundlesInv
<1>7. CASE UNCHANGED bundleVars
  BY <1>7 DEF bundleVars, BundlesInv
<1> QED
  BY <1>1, <1>2, <1>3, <1>4, <1>5, <1>6, <1>7, CreateStep, SaveStep, ReplaceStep DEF BundlesNext

(***************************************************************************)
(* Whatever is created, imported, renamed, cancelled and deleted, and      *)
(* whichever save fails, a virtual machine names no image but its own      *)
(* bundle's, for any names and any number of failures.                     *)
(***************************************************************************)
THEOREM MachinesOwnImages == BundlesSpec => []NamesOwnImages
<1>1. BundlesInv => NamesOwnImages
  BY DEF BundlesInv, GoodDisk, NamesOwnImages
<1> QED
  BY BundlesInvInit, BundlesInvNext, <1>1, PTL DEF BundlesSpec
================================================================================
