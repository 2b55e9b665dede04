------------------------------- MODULE DockProofs ------------------------------
(***************************************************************************)
(* Theorems about the serial dock, for every set of keys, ring size, bound *)
(* and mode.  Of the latch: the interrupt line is its condition, a pending *)
(* modem event has its cause, and the insertion of the cable comes in its  *)
(* two stages.  Of the keyboard: Fn is never held for more than the chords *)
(* that are, the guest reads keys in the order of typing, and a new byte   *)
(* is an edge.                                                             *)
(*                                                                         *)
(* The keyboard reaches the latch only through RaiseModem, so the first    *)
(* part assumes nothing of its state k.                                    *)
(***************************************************************************)
EXTENDS DockMachine, SequenceTheorems, FiniteSetTheorems, WellFoundedInduction, TLAPS

(***************************************************************************)
(* The inductive invariant.  wake holds any number of bytes.               *)
(***************************************************************************)
Kinds == {"cable", "keyboard"}
LatchType(W) ==
    [kind : Kinds, docked : BOOLEAN, pending : SUBSET Subs, mask : SUBSET Subs,
     events : SUBSET Causes, modemsent : BOOLEAN, wake : W, pccard : BOOLEAN,
     armed : BOOLEAN, due : BOOLEAN, live : BOOLEAN, irq : BOOLEAN,
     edge : BOOLEAN, cable : BOOLEAN]
Typed(e) == e \in LatchType({e.wake})
Caused(e) == "modem" \in e.pending => e.events = Causes
\* A socket event is the first event of a cable that has just been inserted.
Staged(e) ==
    /\ "socket" \in e.pending => e.kind = "cable" /\ e.docked /\ ~e.modemsent
    /\ e.kind = "cable" /\ ~e.docked => ~e.modemsent
Sound(e) == Typed(e) /\ Caused(e) /\ Staged(e)
Current(e) == e.irq = IrqWanted(e)
Good(e) == Sound(e) /\ Current(e)

--------------------------------------------------------------------------------
(* The operators of the latch.                                             *)

\* Recomputing the line makes it current and changes nothing else but the edge.
LEMMA IrqUpdateGood ==
    ASSUME NEW e, Sound(e)
    PROVE  /\ Good(IrqUpdate(e))
           /\ IrqUpdate(e).pending = e.pending
           /\ IrqUpdate(e).docked = e.docked
           /\ IrqUpdate(e).kind = e.kind
           /\ IrqUpdate(e).mask = e.mask
<1> DEFINE u == IrqUpdate(e)
<1>1. e \in LatchType({e.wake})
  BY DEF Sound, Typed
<1>2. IrqWanted(e) \in BOOLEAN
  BY DEF IrqWanted, Unmasked
<1>3. u = [e EXCEPT !.irq = IrqWanted(e), !.edge = e.edge \/ (IrqWanted(e) /\ ~e.irq)]
  BY DEF IrqUpdate
<1>4. u \in LatchType({e.wake})
  BY <1>1, <1>2, <1>3 DEF LatchType
<1>5. /\ u.irq = IrqWanted(e) /\ u.pending = e.pending /\ u.mask = e.mask
      /\ u.live = e.live /\ u.events = e.events /\ u.kind = e.kind
      /\ u.docked = e.docked /\ u.modemsent = e.modemsent /\ u.wake = e.wake
  BY <1>1, <1>2, <1>3 DEF LatchType
<1> HIDE DEF u
<1>6. IrqWanted(u) = IrqWanted(e)
  BY <1>5 DEF IrqWanted, Unmasked
<1>7. Good(u)
  BY <1>4, <1>5, <1>6 DEF Good, Sound, Typed, Caused, Staged, Current
<1> QED
  BY <1>5, <1>7 DEF u

\* A second edge keeps the line and, on a line that is up, is there.
LEMMA ReedgeGood ==
    ASSUME NEW e, Good(e)
    PROVE  /\ Good(Reedge(e))
           /\ Reedge(e).pending = e.pending
           /\ Reedge(e).irq => Reedge(e).edge
<1> DEFINE u == Reedge(e)
<1>1. e \in LatchType({e.wake}) /\ e.irq = IrqWanted(e)
  BY DEF Good, Sound, Typed, Current
<1>2. IrqWanted(e) \in BOOLEAN
  BY DEF IrqWanted, Unmasked
<1>3. u = [e EXCEPT !.edge = e.edge \/ (e.irq /\ IrqWanted(e))]
  BY DEF Reedge
<1>4. u \in LatchType({e.wake})
  BY <1>1, <1>2, <1>3 DEF LatchType
<1>5. /\ u.irq = e.irq /\ u.pending = e.pending /\ u.mask = e.mask
      /\ u.live = e.live /\ u.events = e.events /\ u.kind = e.kind
      /\ u.docked = e.docked /\ u.modemsent = e.modemsent /\ u.wake = e.wake
      /\ u.edge = (e.edge \/ (e.irq /\ IrqWanted(e)))
  BY <1>1, <1>2, <1>3 DEF LatchType
<1> HIDE DEF u
<1>6. IrqWanted(u) = IrqWanted(e)
  BY <1>5 DEF IrqWanted, Unmasked
<1>7. Good(u)
  BY <1>1, <1>4, <1>5, <1>6 DEF Good, Sound, Typed, Caused, Staged, Current
<1> QED
  BY <1>1, <1>5, <1>7 DEF u

\* Raising the modem event puts its cause there.
LEMMA RaiseModemGood ==
    ASSUME NEW e, Sound(e)
    PROVE  /\ Good(RaiseModem(e))
           /\ RaiseModem(e).pending = e.pending \cup {"modem"}
           /\ RaiseModem(e).irq => RaiseModem(e).edge
<1> DEFINE m == [e EXCEPT !.pending = @ \cup {"modem"}, !.events = Causes]
<1>1. e \in LatchType({e.wake}) /\ Staged(e)
  BY DEF Sound, Typed
<1>2. m \in LatchType({e.wake})
  BY <1>1 DEF LatchType, Subs
<1>3. /\ m.pending = e.pending \cup {"modem"} /\ m.events = Causes
      /\ m.kind = e.kind /\ m.docked = e.docked /\ m.modemsent = e.modemsent
      /\ m.wake = e.wake
  BY <1>1 DEF LatchType
<1>4. RaiseModem(e) = Reedge(IrqUpdate(m))
  BY DEF RaiseModem
<1> HIDE DEF m
<1>5. Sound(m)
  BY <1>1, <1>2, <1>3 DEF Sound, Typed, Caused, Staged
<1> QED
  BY <1>3, <1>4, <1>5, IrqUpdateGood, ReedgeGood

LEMMA UartIrqReadyGood ==
    ASSUME NEW e, Good(e)
    PROVE  Good(UartIrqReady(e)) /\ e.pending \subseteq UartIrqReady(e).pending
BY RaiseModemGood DEF UartIrqReady, Good

\* The insertion of the cable: only an undocked cable with nothing pending docks.
LEMMA DockEdgeSound ==
    ASSUME NEW e, Sound(e)
    PROVE  /\ Sound(DockEdge(e))
           /\ Good(e) => Good(DockEdge(e))
           /\ e.docked => DockEdge(e) = e
<1> DEFINE due == e.kind = "cable" /\ e.armed /\ e.due /\ e.pending = {} /\ ~e.docked
           m == [e EXCEPT !.docked = TRUE, !.pccard = TRUE, !.cable = TRUE,
                          !.pending = {"socket"}]
<1>1. e \in LatchType({e.wake}) /\ Staged(e)
  BY DEF Sound, Typed
<1>2. DockEdge(e) = IF due THEN IrqUpdate(m) ELSE e
  BY DEF DockEdge
<1>3. ASSUME due PROVE Sound(m)
  <2>1. m \in LatchType({e.wake})
    BY <1>1 DEF LatchType, Subs
  <2>2. /\ m.pending = {"socket"} /\ m.docked /\ m.kind = "cable" /\ m.wake = e.wake
        /\ m.modemsent = e.modemsent
    BY <1>1, <1>3 DEF LatchType
  <2>3. ~e.modemsent
    BY <1>1, <1>3 DEF Staged
  <2> HIDE DEF m, due
  <2> QED
    BY <2>1, <2>2, <2>3 DEF Sound, Typed, Caused, Staged
<1>4. due => ~e.docked
  OBVIOUS
<1> HIDE DEF m, due
<1> QED
  BY <1>2, <1>3, <1>4, IrqUpdateGood DEF Good

\* The check of the dock: a due insertion or, for the keyboard, an awaited event.
LEMMA DockCheckSound ==
    ASSUME NEW e, NEW c, Sound(e)
    PROVE  /\ Sound(DockCheck(e, c))
           /\ Good(e) => Good(DockCheck(e, c))
           /\ e.kind = "cable" /\ e.docked => DockCheck(e, c) = e
<1> DEFINE m == [e EXCEPT !.docked = TRUE]
<1>1. e \in LatchType({e.wake})
  BY DEF Sound, Typed
<1>2. DockCheck(e, c) = IF WaitDue(e, c) THEN RaiseModem(m) ELSE DockEdge(e)
  BY DEF DockCheck
<1>3. WaitDue(e, c) => e.kind = "keyboard"
  BY DEF WaitDue
<1>4. ASSUME e.kind = "keyboard" PROVE Sound(m)
  <2>1. m \in LatchType({e.wake})
    BY <1>1 DEF LatchType
  <2>2. /\ m.pending = e.pending /\ m.events = e.events /\ m.kind = e.kind
        /\ m.modemsent = e.modemsent /\ m.wake = e.wake /\ m.docked
    BY <1>1 DEF LatchType
  <2> HIDE DEF m
  <2> QED
    BY <1>4, <2>1, <2>2 DEF Sound, Typed, Caused, Staged
<1> HIDE DEF m
<1> QED
  BY <1>2, <1>3, <1>4, RaiseModemGood, DockEdgeSound DEF Good

\* The level checks, whatever the number of bytes.
LEMMA RxLevelGood ==
    ASSUME NEW e, NEW m, Good(e)
    PROVE  Good(RxLevel(e, m)) /\ e.pending \subseteq RxLevel(e, m).pending
<1>1. e \in LatchType({e.wake})
  BY DEF Good, Sound, Typed
<1>2. ASSUME NEW v
      PROVE  LET u == [e EXCEPT !.wake = v] IN Good(u) /\ u.pending = e.pending
  <2> DEFINE u == [e EXCEPT !.wake = v]
  <2>1. u \in LatchType({v}) /\ u.wake = v
    BY <1>1 DEF LatchType
  <2>2. /\ u.pending = e.pending /\ u.events = e.events /\ u.kind = e.kind
        /\ u.modemsent = e.modemsent /\ u.docked = e.docked /\ u.irq = e.irq
        /\ u.mask = e.mask /\ u.live = e.live
    BY <1>1 DEF LatchType
  <2> HIDE DEF u
  <2>3. IrqWanted(u) = IrqWanted(e)
    BY <2>2 DEF IrqWanted, Unmasked
  <2>4. Good(u) /\ u.pending = e.pending
    BY <2>1, <2>2, <2>3 DEF Good, Sound, Typed, Caused, Staged, Current
  <2> QED
    BY <2>4 DEF u
<1> DEFINE zero == [e EXCEPT !.wake = 0]
           seen == [e EXCEPT !.wake = m]
<1>3. /\ Good(zero) /\ zero.pending = e.pending
      /\ Good(seen) /\ seen.pending = e.pending
  BY <1>2
<1>4. Good(RaiseModem(seen)) /\ e.pending \subseteq RaiseModem(seen).pending
  BY <1>3, RaiseModemGood DEF Good
<1>5. \/ RxLevel(e, m) = e
      \/ RxLevel(e, m) = zero
      \/ RxLevel(e, m) = RaiseModem(seen)
  BY <1>1 DEF RxLevel, LatchType, Kinds
<1> QED
  BY <1>3, <1>4, <1>5

LEMMA PollLevelGood ==
    ASSUME NEW e, NEW m, Good(e)
    PROVE  Good(PollLevel(e, m)) /\ e.pending \subseteq PollLevel(e, m).pending
<1> DEFINE u == RxLevel(e, m)
<1>1. Good(u) /\ e.pending \subseteq u.pending
  BY RxLevelGood
<1>2. PollLevel(e, m) = IF e.kind = "cable" THEN u ELSE Reedge(IrqUpdate(u))
  BY DEF PollLevel
<1> HIDE DEF u
<1> QED
  BY <1>1, <1>2, IrqUpdateGood, ReedgeGood DEF Good

(***************************************************************************)
(* The write of AA008004: acknowledging the socket stages the modem event. *)
(***************************************************************************)
LEMMA StatusWrittenSound ==
    ASSUME NEW e, Sound(e), NEW ack \in SUBSET Subs, NEW mask \in SUBSET Subs
    PROVE  LET w == StatusWritten(e, ack, mask) IN
           /\ Sound(w) /\ w.kind = e.kind /\ w.docked = e.docked
           /\ "socket" \in e.pending \cap ack => "modem" \in w.pending
           /\ "socket" \in e.pending \ ack => "socket" \in w.pending
<1> DEFINE a == [e EXCEPT !.pending = @ \ ack, !.mask = mask]
           staged == /\ "socket" \in e.pending \cap ack
                     /\ e.kind = "cable" /\ e.docked /\ ~e.modemsent
           b == [a EXCEPT !.pending = @ \cup {"modem"}, !.events = Causes,
                          !.modemsent = TRUE]
           w == StatusWritten(e, ack, mask)
<1>1. e \in LatchType({e.wake}) /\ Caused(e) /\ Staged(e)
  BY DEF Sound, Typed
<1>2. w = IF staged THEN b ELSE a
  BY DEF StatusWritten
<1>3. a \in LatchType({e.wake})
  BY <1>1 DEF LatchType
<1>4. /\ a.pending = e.pending \ ack /\ a.kind = e.kind /\ a.docked = e.docked
      /\ a.modemsent = e.modemsent /\ a.events = e.events /\ a.wake = e.wake
  BY <1>1 DEF LatchType
<1> HIDE DEF a
<1>5. Sound(a)
  BY <1>1, <1>3, <1>4 DEF Sound, Typed, Caused, Staged
<1>6. b \in LatchType({e.wake})
  BY <1>3 DEF LatchType, Subs
<1>7. /\ b.pending = (e.pending \ ack) \cup {"modem"} /\ b.kind = e.kind
      /\ b.docked = e.docked /\ b.modemsent /\ b.events = Causes /\ b.wake = e.wake
  BY <1>3, <1>4 DEF LatchType
<1> HIDE DEF b
<1>8. staged => Sound(b)
  BY <1>6, <1>7 DEF Sound, Typed, Caused, Staged
<1>9. "socket" \in e.pending \cap ack => staged
  BY <1>1 DEF Staged
<1> HIDE DEF w
<1>10. /\ Sound(w) /\ w.kind = e.kind /\ w.docked = e.docked
       /\ "socket" \in e.pending \cap ack => "modem" \in w.pending
       /\ "socket" \in e.pending \ ack => "socket" \in w.pending
  BY <1>2, <1>4, <1>5, <1>7, <1>8, <1>9
<1> QED
  BY <1>10 DEF w

\* The whole write: the line is current, and a staged modem event is an edge.
LEMMA StatusWriteGood ==
    ASSUME NEW e, NEW c, Good(e), NEW ack \in SUBSET Subs, NEW mask \in SUBSET Subs
    PROVE  LET s == StatusWrite(e, c, ack, mask) IN
           /\ Good(s)
           /\ "socket" \in e.pending /\ "socket" \notin s.pending =>
                 "modem" \in s.pending /\ (s.irq => s.edge)
<1> DEFINE w == StatusWritten(e, ack, mask)
           x == IF mask # {} THEN DockCheck(w, c) ELSE w
           u == IrqUpdate(x)
           s == StatusWrite(e, c, ack, mask)
<1>1. Sound(e) /\ Staged(e)
  BY DEF Good, Sound
<1>2. /\ Sound(w) /\ w.kind = e.kind /\ w.docked = e.docked
      /\ "socket" \in e.pending \cap ack => "modem" \in w.pending
      /\ "socket" \in e.pending \ ack => "socket" \in w.pending
  BY <1>1, StatusWrittenSound
<1>3. s = IF "socket" \in e.pending \cap ack /\ Unmasked(w) THEN Reedge(u) ELSE u
  BY DEF StatusWrite
<1> HIDE DEF w, s
<1>4. Sound(x) /\ ("socket" \in e.pending => x = w)
  BY <1>1, <1>2, DockCheckSound DEF Staged
<1> HIDE DEF x
<1>5. Good(u) /\ u.pending = x.pending /\ u.mask = x.mask
  BY <1>4, IrqUpdateGood
<1> HIDE DEF u
<1>6. Good(Reedge(u)) /\ Reedge(u).pending = u.pending
      /\ (Reedge(u).irq => Reedge(u).edge)
  BY <1>5, ReedgeGood
<1>7. Good(s) /\ s.pending = x.pending
  BY <1>3, <1>5, <1>6
<1>8. ASSUME "socket" \in e.pending, "socket" \notin s.pending
      PROVE  "modem" \in s.pending /\ (s.irq => s.edge)
  <2>1. "socket" \in e.pending \cap ack /\ x = w
    BY <1>2, <1>4, <1>7, <1>8
  <2>2. ~Unmasked(w) => ~u.irq
    BY <1>5, <2>1 DEF Good, Current, IrqWanted, Unmasked
  <2> QED
    BY <1>2, <1>3, <1>6, <1>7, <2>1, <2>2
<1>9. /\ Good(s)
      /\ "socket" \in e.pending /\ "socket" \notin s.pending =>
            "modem" \in s.pending /\ (s.irq => s.edge)
  BY <1>7, <1>8
<1> QED
  BY <1>9 DEF s

\* The acknowledgement of the modem event, and a change of the masks.
LEMMA EventAckGood ==
    ASSUME NEW e, Good(e), NEW bits \in SUBSET Causes
    PROVE  Good(EventAck(e, bits)) /\ ("socket" \in e.pending => "socket" \in EventAck(e, bits).pending)
<1> DEFINE m == [e EXCEPT !.events = @ \ bits, !.pending = @ \ {"modem"}]
<1>1. e \in LatchType({e.wake}) /\ Staged(e)
  BY DEF Good, Sound, Typed
<1>2. m \in LatchType({e.wake})
  BY <1>1 DEF LatchType
<1>3. /\ m.pending = e.pending \ {"modem"} /\ m.kind = e.kind /\ m.docked = e.docked
      /\ m.modemsent = e.modemsent /\ m.wake = e.wake
  BY <1>1 DEF LatchType
<1>4. EventAck(e, bits) = IF bits = {} THEN e ELSE IrqUpdate(m)
  BY DEF EventAck
<1> HIDE DEF m
<1>5. Sound(m)
  BY <1>1, <1>2, <1>3 DEF Sound, Typed, Caused, Staged
<1> QED
  BY <1>3, <1>4, <1>5, IrqUpdateGood

LEMMA MaskGood ==
    ASSUME NEW e, Good(e), NEW mask \in SUBSET Subs
    PROVE  LET u == IrqUpdate([e EXCEPT !.mask = mask]) IN
           Good(u) /\ u.pending = e.pending
<1> DEFINE m == [e EXCEPT !.mask = mask]
<1>1. e \in LatchType({e.wake}) /\ Staged(e) /\ Caused(e)
  BY DEF Good, Sound, Typed
<1>2. m \in LatchType({e.wake})
  BY <1>1 DEF LatchType
<1>3. /\ m.pending = e.pending /\ m.kind = e.kind /\ m.docked = e.docked
      /\ m.modemsent = e.modemsent /\ m.wake = e.wake /\ m.events = e.events
  BY <1>1 DEF LatchType
<1> HIDE DEF m
<1>4. Sound(m)
  BY <1>1, <1>2, <1>3 DEF Sound, Typed, Caused, Staged
<1>5. Good(IrqUpdate(m)) /\ IrqUpdate(m).pending = e.pending
  BY <1>3, <1>4, IrqUpdateGood
<1> QED
  BY <1>5 DEF m

LEMMA SetLiveGood ==
    ASSUME NEW e, Good(e), NEW live \in BOOLEAN
    PROVE  Good(SetLive(e, live)) /\ SetLive(e, live).pending = e.pending
<1> DEFINE m == [e EXCEPT !.live = live]
<1>1. e \in LatchType({e.wake}) /\ Staged(e) /\ Caused(e)
  BY DEF Good, Sound, Typed
<1>2. m \in LatchType({e.wake})
  BY <1>1 DEF LatchType
<1>3. /\ m.pending = e.pending /\ m.kind = e.kind /\ m.docked = e.docked
      /\ m.modemsent = e.modemsent /\ m.wake = e.wake /\ m.events = e.events
  BY <1>1 DEF LatchType
<1>4. SetLive(e, live) = IrqUpdate(m)
  BY DEF SetLive
<1> HIDE DEF m
<1>5. Sound(m)
  BY <1>1, <1>2, <1>3 DEF Sound, Typed, Caused, Staged
<1> QED
  BY <1>3, <1>4, <1>5, IrqUpdateGood

\* What only these three fields tell apart does not reach the line.
LEMMA AsideGood ==
    ASSUME NEW e, Good(e), NEW p \in BOOLEAN, NEW x \in BOOLEAN, NEW t \in BOOLEAN
    PROVE  LET u == [e EXCEPT !.pccard = p, !.edge = x, !.due = t] IN
           Good(u) /\ u.pending = e.pending
<1> DEFINE u == [e EXCEPT !.pccard = p, !.edge = x, !.due = t]
<1>1. e \in LatchType({e.wake})
  BY DEF Good, Sound, Typed
<1>2. u \in LatchType({e.wake})
  BY <1>1 DEF LatchType
<1>3. /\ u.pending = e.pending /\ u.kind = e.kind /\ u.docked = e.docked
      /\ u.modemsent = e.modemsent /\ u.wake = e.wake /\ u.events = e.events
      /\ u.irq = e.irq /\ u.mask = e.mask /\ u.live = e.live
  BY <1>1 DEF LatchType
<1> HIDE DEF u
<1>4. IrqWanted(u) = IrqWanted(e)
  BY <1>3 DEF IrqWanted, Unmasked
<1>5. Good(u) /\ u.pending = e.pending
  BY <1>2, <1>3, <1>4 DEF Good, Sound, Typed, Caused, Staged, Current
<1> QED
  BY <1>5 DEF u

\* A step that changes only those fields.
LEMMA AsideStep ==
    ASSUME Good(d), NEW p \in BOOLEAN, NEW x \in BOOLEAN, NEW t \in BOOLEAN,
           d' = [d EXCEPT !.pccard = p, !.edge = x, !.due = t]
    PROVE  Good(d') /\ (d').pending = d.pending
<1> DEFINE u == [d EXCEPT !.pccard = p, !.edge = x, !.due = t]
<1>1. Good(u) /\ u.pending = d.pending
  BY AsideGood
<1>2. d' = u
  OBVIOUS
<1> HIDE DEF u
<1> QED
  BY <1>1, <1>2

LEMMA CpuResetGood ==
    ASSUME NEW e, Good(e)
    PROVE  Good(CpuReset(e)) /\ (e.kind = "cable" => ~CpuReset(e).docked)
<1> DEFINE u == CpuReset(e)
<1>1. e \in LatchType({e.wake})
  BY DEF Good, Sound, Typed
<1>2. u = [e EXCEPT !.docked = e.kind = "keyboard", !.pending = {}, !.events = {},
              !.modemsent = FALSE, !.wake = 0, !.pccard = e.kind = "keyboard",
              !.armed = e.kind = "cable", !.due = FALSE, !.irq = FALSE]
  BY DEF CpuReset
<1>3. u \in LatchType({0})
  BY <1>1, <1>2, ZenonT(120) DEF LatchType
<1>4. /\ u.pending = {} /\ u.docked = (e.kind = "keyboard") /\ ~u.modemsent
      /\ u.wake = 0 /\ u.irq = FALSE
  BY <1>1, <1>2 DEF LatchType
<1> HIDE DEF u
<1>5. IrqWanted(u) = FALSE
  BY <1>4 DEF IrqWanted, Unmasked
<1>6. Good(u) /\ (e.kind = "cable" => ~u.docked)
  BY <1>3, <1>4, <1>5 DEF Good, Sound, Typed, Caused, Staged, Current
<1> QED
  BY <1>6 DEF u

LEMMA DockInitGood ==
    ASSUME NEW kd \in Kinds PROVE Good(DockInit(kd))
<1> DEFINE u == DockInit(kd)
<1>1. u \in LatchType({u.wake}) /\ u.pending = {} /\ ~u.modemsent /\ u.irq = FALSE
  BY DEF DockInit, LatchType, Kinds
<1> HIDE DEF u
<1>2. IrqWanted(u) = FALSE
  BY <1>1 DEF IrqWanted, Unmasked
<1>3. Good(u)
  BY <1>1, <1>2 DEF Good, Sound, Typed, Caused, Staged, Current
<1> QED
  BY <1>3 DEF u

--------------------------------------------------------------------------------
(* The steps.                                                              *)

\* A socket event stays until its acknowledgement, which stages the modem event.
Staging == SocketTaken => "modem" \in d'.pending /\ (d'.irq => d'.edge)
SocketKept == "socket" \in d.pending => "socket" \in d'.pending

LEMMA KeyboardStep ==
    ASSUME Good(d), NEW c, Kbd(c) PROVE Good(d') /\ SocketKept
BY RaiseModemGood DEF Kbd, Good, SocketKept

LEMMA GuestStep ==
    ASSUME Good(d), Guest PROVE Good(d') /\ Staging
<1> USE DEF Staging, SocketTaken
<1>0. /\ d \in LatchType({d.wake})
      /\ "socket" \in d.pending => d.kind = "cable" /\ d.docked
  BY DEF Good, Sound, Typed, Staged
<1>1. CASE GuestLooks
  BY <1>0, <1>1, DockEdgeSound DEF GuestLooks, Latch, DockLooked, Good
<1>2. CASE GuestPccard
  <2>1. PICK p \in BOOLEAN : d' = [d EXCEPT !.pccard = p]
    BY <1>0, <1>2 DEF GuestPccard, Latch, PccardSeen, LatchType
  <2>2. d' = [d EXCEPT !.pccard = p, !.edge = d.edge, !.due = d.due]
    BY <1>0, <2>1 DEF LatchType
  <2>3. d.edge \in BOOLEAN /\ d.due \in BOOLEAN
    BY <1>0 DEF LatchType
  <2> QED
    BY <2>2, <2>3, AsideStep
<1>3. CASE GuestEdge
  <2>1. d' = [d EXCEPT !.pccard = d.pccard, !.edge = FALSE, !.due = d.due]
    BY <1>0, <1>3 DEF GuestEdge, Latch, LatchType
  <2>2. d.pccard \in BOOLEAN /\ d.due \in BOOLEAN
    BY <1>0 DEF LatchType
  <2> QED
    BY <2>1, <2>2, AsideStep
<1>4. CASE GuestLive
  BY <1>4, SetLiveGood DEF GuestLive, Latch
<1>5. CASE GuestMask
  BY <1>5, MaskGood DEF GuestMask, Latch
<1>6. CASE GuestAcks
  <2>1. PICK bits \in SUBSET Causes : d' = EventAck(d, bits)
    BY <1>6 DEF GuestAcks, Latch
  <2> QED
    BY <2>1, EventAckGood
<1>7. CASE GuestStatus
  <2>1. PICK ack \in SUBSET Subs, mask \in {d.mask, Subs, {}} : d' = StatusWrite(d, k, ack, mask)
    BY <1>7 DEF GuestStatus
  <2>2. mask \in SUBSET Subs
    BY <1>0, <2>1 DEF LatchType
  <2> QED
    BY <2>1, <2>2, StatusWriteGood
<1>8. CASE GuestResetsCpu
  BY <1>0, <1>8, CpuResetGood DEF GuestResetsCpu
<1>9. CASE GuestReadsCable
  BY <1>9 DEF GuestReadsCable
<1>10. CASE UartSignals
  BY <1>10, UartIrqReadyGood DEF UartSignals, Latch
<1>11. CASE GuestPops \/ GuestClears \/ GuestLines \/ GuestWaits \/ GuestConfig \/ GuestDelta
  <2>1. \E c : Kbd(c)
    BY <1>11 DEF GuestPops, GuestClears, GuestLines, GuestWaits, GuestConfig, GuestDelta
  <2> QED
    BY <2>1, KeyboardStep DEF SocketKept
<1> QED
  BY <1>1, <1>2, <1>3, <1>4, <1>5, <1>6, <1>7, <1>8, <1>9, <1>10, <1>11 DEF Guest

LEMMA LoopStep ==
    ASSUME Good(d), \/ KeyDown \/ KeyUp \/ FocusLost \/ Poll \/ Tick \/ TimePasses
    PROVE  Good(d') /\ SocketKept
<1>0. /\ d \in LatchType({d.wake})
      /\ "socket" \in d.pending => d.kind = "cable" /\ d.docked
  BY DEF Good, Sound, Typed, Staged
<1>1. CASE KeyDown \/ KeyUp \/ FocusLost
  <2>1. d' = d \/ \E c : Kbd(c)
    BY <1>1 DEF KeyDown, KeyUp, FocusLost
  <2> QED
    BY <2>1, KeyboardStep DEF SocketKept
<1>2. CASE Poll
  <2> DEFINE e == DockCheck(d, k)
  <2>1. Good(e) /\ ("socket" \in d.pending => e = d)
    BY <1>0, DockCheckSound DEF Good
  <2>2. \/ d' = PollLevel(e, Bytes)
        \/ \E m : d' = PollLevel(Counted(e, m), m)
    BY <1>2 DEF Poll
  <2> HIDE DEF e
  <2>3. ASSUME NEW m PROVE Good(Counted(e, m)) /\ e.pending \subseteq Counted(e, m).pending
    BY <2>1, UartIrqReadyGood DEF Counted
  <2>4. CASE d' = PollLevel(e, Bytes)
    BY <2>1, <2>4, PollLevelGood DEF SocketKept
  <2>5. ASSUME NEW m, d' = PollLevel(Counted(e, m), m) PROVE Good(d') /\ SocketKept
    <3> DEFINE q == Counted(e, m)
    <3>1. Good(q) /\ e.pending \subseteq q.pending
      BY <2>3
    <3>2. d' = PollLevel(q, m)
      BY <2>5
    <3> HIDE DEF q
    <3> QED
      BY <2>1, <3>1, <3>2, PollLevelGood DEF SocketKept
  <2> QED
    BY <2>2, <2>4, <2>5
<1>3. CASE Tick
  <2>1. d' = d \/ d' = UartIrqReady(d)
    BY <1>3 DEF Tick, Counted
  <2> QED
    BY <2>1, UartIrqReadyGood DEF SocketKept
<1>4. CASE TimePasses
  <2>1. d' = [d EXCEPT !.pccard = d.pccard, !.edge = d.edge, !.due = TRUE]
    BY <1>0, <1>4 DEF TimePasses, LatchType
  <2>2. d.pccard \in BOOLEAN /\ d.edge \in BOOLEAN
    BY <1>0 DEF LatchType
  <2> QED
    BY <2>1, <2>2, AsideStep DEF SocketKept
<1> QED
  BY <1>1, <1>2, <1>3, <1>4

IInv == Good(d)

LEMMA IInvNext == IInv /\ [Next]_vars => IInv' /\ [Staging]_vars
<1> SUFFICES ASSUME Good(d), [Next]_vars PROVE Good(d') /\ [Staging]_vars
  BY DEF IInv
<1>1. CASE Guest
  BY <1>1, GuestStep
<1>2. CASE KeyDown \/ KeyUp \/ FocusLost \/ Poll \/ Tick \/ TimePasses
  BY <1>2, LoopStep DEF Staging, SocketTaken, SocketKept
<1>3. CASE SliceEnds \/ UNCHANGED vars
  BY <1>3 DEF SliceEnds, vars, Staging, SocketTaken
<1> QED
  BY <1>1, <1>2, <1>3 DEF Next

LEMMA IInvInit == Init => IInv
BY DockInitGood, DockAssumption DEF Init, ModeType, Kinds, IInv

(***************************************************************************)
(* In every reachable state the line the CPU sees is the condition of the  *)
(* latch (be300_pcconnect_irq_update), and a pending modem event reads its *)
(* cause in AA001054.                                                      *)
(***************************************************************************)
THEOREM DockCorrect == Spec => [](DockLineCurrent /\ ModemHasCause)
<1>1. IInv => DockLineCurrent /\ ModemHasCause
  BY DEF IInv, Good, Sound, Current, Caused, DockLineCurrent, ModemHasCause
<1> QED
  BY <1>1, IInvInit, IInvNext, PTL DEF Spec

(***************************************************************************)
(* Acknowledging the socket event of an inserted cable leaves the modem    *)
(* event pending, with an edge on an enabled line                          *)
(* (be300_pcconnect_note_comm_write).                                      *)
(***************************************************************************)
THEOREM InsertionStaged == Spec => StagedInsertion
<1>1. Staging <=> (SocketTaken => "modem" \in d'.pending /\ (d'.irq => d'.edge))
  BY DEF Staging
<1>2. [Staging]_vars <=>
        [SocketTaken => "modem" \in d'.pending /\ (d'.irq => d'.edge)]_vars
  BY <1>1
<1> QED
  BY <1>2, IInvInit, IInvNext, PTL DEF Spec, StagedInsertion

--------------------------------------------------------------------------------
(***************************************************************************)
(* The keyboard.                                                           *)
(***************************************************************************)
Value == [code : Codes, fn : BOOLEAN]
KbdByte == [code : Codes \cup {FnCode, Ack0, Ack1}, up : BOOLEAN, n : Nat]
KbdRec == [connected : BOOLEAN, wait : BOOLEAN, delta : BOOLEAN, delivered : Nat,
           dtr : BOOLEAN, rts : BOOLEAN, ackp : BOOLEAN, acks : {0, 1},
           rx : Seq(KbdByte), pend : Seq(KbdByte), fnrefs : Nat, sig : BOOLEAN]
AckByte(c) == KeyByte(c, FALSE, 0)

\* What is added to the ring is signalled, by the operation or one before it.
Signalled(c, e) == (c.sig => e.sig) /\ (Len(e.rx) > Len(c.rx) => e.sig)

\* The keys of q were typed from lo to hi, in the order of q.
Ascending(q, lo, hi) ==
    \A i \in 1..Len(q) : IsKey(q[i]) =>
       /\ lo <= q[i].n /\ q[i].n <= hi
       /\ \A j \in i..Len(q) : IsKey(q[j]) => q[i].n <= q[j].n
Before(q, r) ==
    \A i \in 1..Len(q), j \in 1..Len(r) : IsKey(q[i]) /\ IsKey(r[j]) => q[i].n <= r[j].n

(***************************************************************************)
(* With an orderly driver: keys are held back only while the keyboard is   *)
(* connected and the guest has dropped RTS or not read the whole answer to *)
(* its probe, and of a connected keyboard that answer is all the ring      *)
(* holds.                                                                  *)
(***************************************************************************)
Handshake(c) ==
    /\ c.connected \/ c.ackp => c.dtr
    /\ c.pend # <<>> => c.connected /\ (~c.rts \/ c.ackp)
    /\ c.connected /\ c.ackp =>
          \/ c.acks = 0 /\ c.rx = <<AckByte(Ack0), AckByte(Ack1)>>
          \/ c.acks = 1 /\ c.rx = <<AckByte(Ack1)>>
Orderliness(c, lo, hi) ==
    /\ Handshake(c)
    /\ Ascending(c.rx, lo, hi) /\ Ascending(c.pend, lo, hi) /\ Before(c.rx, c.pend)

LEMMA CapNat == KbdCap \in Nat /\ KbdCap >= 2 /\ Codes \cap {FnCode, Ack0, Ack1} = {}
  BY StowawayAssumption DEF StowawayAssumption

LEMMA AckTyped == /\ AckByte(Ack0) \in KbdByte /\ AckByte(Ack1) \in KbdByte
                  /\ ~IsKey(AckByte(Ack0)) /\ ~IsKey(AckByte(Ack1))
BY DEF AckByte, KeyByte, KbdByte, IsKey

\* The entry of a byte, a full ring giving up its oldest.
LEMMA EnqueueTyped ==
    ASSUME NEW q \in Seq(KbdByte), NEW b \in KbdByte
    PROVE  LET e == Enqueue(q, b) IN
           /\ e \in Seq(KbdByte) /\ e # <<>> /\ e[Len(e)] = b
           /\ \/ Len(e) = Len(q) + 1 /\ \A i \in 1..Len(q) : e[i] = q[i]
              \/ Len(e) = Len(q) /\ Len(q) = KbdCap /\ \A i \in 1..Len(q) - 1 : e[i] = q[i + 1]
<1>0. Len(q) \in Nat
  BY LenProperties
<1>1. CASE Len(q) = KbdCap
  <2>1. q # <<>>
    BY <1>1, CapNat
  <2> DEFINE t == Tail(q)
  <2>2. t \in Seq(KbdByte) /\ Len(t) = Len(q) - 1 /\ \A i \in 1..Len(t) : t[i] = q[i + 1]
    BY <2>1, HeadTailProperties
  <2>3. Enqueue(q, b) = Append(t, b)
    BY <1>1 DEF Enqueue
  <2> HIDE DEF t
  <2>4. /\ Append(t, b) \in Seq(KbdByte) /\ Len(Append(t, b)) = Len(t) + 1
        /\ \A i \in 1..Len(t) : Append(t, b)[i] = t[i]
        /\ Append(t, b)[Len(t) + 1] = b
    BY <2>2, AppendProperties
  <2>5. Append(t, b) # <<>>
    BY <1>0, <2>2, <2>4
  <2> DEFINE e == Append(t, b)
  <2> HIDE DEF e
  <2>6. /\ e \in Seq(KbdByte) /\ e # <<>> /\ Len(e) = Len(q) /\ e[Len(e)] = b
        /\ \A i \in 1..Len(q) - 1 : e[i] = q[i + 1]
    BY <1>0, <2>2, <2>4, <2>5 DEF e
  <2> QED
    BY <1>1, <2>3, <2>6 DEF e
<1>2. CASE Len(q) # KbdCap
  <2> DEFINE e == Append(q, b)
  <2>1. Enqueue(q, b) = e
    BY <1>2 DEF Enqueue
  <2>2. /\ e \in Seq(KbdByte) /\ Len(e) = Len(q) + 1
        /\ \A i \in 1..Len(q) : e[i] = q[i]
        /\ e[Len(q) + 1] = b
    BY AppendProperties
  <2>3. e # <<>>
    BY <1>0, <2>2
  <2> HIDE DEF e
  <2> QED
    BY <2>1, <2>2, <2>3
<1> QED
  BY <1>1, <1>2

\* A key typed last keeps the order.
LEMMA EnqueueOrdered ==
    ASSUME NEW q \in Seq(KbdByte), NEW b \in KbdByte, NEW lo \in Nat, NEW hi \in Nat,
           Ascending(q, lo, hi), IsKey(b) => hi <= b.n /\ lo <= b.n,
           NEW h \in Nat, hi <= h, b.n <= h
    PROVE  /\ Ascending(Enqueue(q, b), lo, h)
           /\ \A r \in Seq(KbdByte) :
                 Before(r, q) /\ Ascending(r, lo, hi) => Before(r, Enqueue(q, b))
<1> DEFINE e == Enqueue(q, b)
<1>1. /\ e \in Seq(KbdByte) /\ e # <<>> /\ e[Len(e)] = b
      /\ \/ Len(e) = Len(q) + 1 /\ \A i \in 1..Len(q) : e[i] = q[i]
         \/ Len(e) = Len(q) /\ Len(q) = KbdCap /\ \A i \in 1..Len(q) - 1 : e[i] = q[i + 1]
  BY EnqueueTyped
<1>2. /\ Len(q) \in Nat /\ Len(e) \in Nat
      /\ \A i \in 1..Len(q) : q[i] \in KbdByte /\ q[i].n \in Nat
      /\ b.n \in Nat
  <2>1. Len(q) \in Nat /\ Len(e) \in Nat
    BY <1>1, LenProperties
  <2>2. \A i \in 1..Len(q) : q[i] \in KbdByte
    BY ElementOfSeq
  <2>3. \A x \in KbdByte : x.n \in Nat
    BY DEF KbdByte
  <2> QED
    BY <2>1, <2>2, <2>3
<1> HIDE DEF e
\* Where a byte of the new ring stood in the old one.
<1>3. PICK s \in {0, 1} : /\ Len(e) = Len(q) + 1 - s
                          /\ \A i \in 1..Len(e) - 1 : i + s \in 1..Len(q) /\ e[i] = q[i + s]
  <2>1. CASE Len(e) = Len(q) + 1 /\ \A i \in 1..Len(q) : e[i] = q[i]
    <3>1. Len(e) = Len(q) + 1 - 0
      BY <1>2, <2>1
    <3>2. \A i \in 1..Len(e) - 1 : i + 0 \in 1..Len(q) /\ e[i] = q[i + 0]
      BY <1>2, <2>1
    <3> QED
      BY <3>1, <3>2
  <2>2. CASE Len(e) = Len(q) /\ \A i \in 1..Len(q) - 1 : e[i] = q[i + 1]
    <3>1. Len(e) = Len(q) + 1 - 1
      BY <1>2, <2>2
    <3>2. \A i \in 1..Len(e) - 1 : i + 1 \in 1..Len(q) /\ e[i] = q[i + 1]
      BY <1>2, <2>2
    <3> QED
      BY <3>1, <3>2
  <2> QED
    BY <1>1, <2>1, <2>2
<1>4. ASSUME NEW i \in 1..Len(e), IsKey(e[i])
      PROVE  /\ lo <= e[i].n /\ e[i].n <= h
             /\ \A j \in i..Len(e) : IsKey(e[j]) => e[i].n <= e[j].n
  <2>1. CASE i = Len(e)
    <3>1. e[i] = b /\ \A j \in i..Len(e) : j = i
      BY <1>1, <1>2, <2>1
    <3> QED
      BY <1>2, <1>4, <3>1
  <2>2. CASE i # Len(e)
    <3>1. i \in 1..Len(e) - 1 /\ i + s \in 1..Len(q) /\ e[i] = q[i + s]
      BY <1>2, <1>3, <2>2
    <3>2. lo <= e[i].n /\ e[i].n <= hi /\ e[i].n \in Nat
      BY <1>2, <1>4, <3>1 DEF Ascending
    <3>3. ASSUME NEW j \in i..Len(e), IsKey(e[j])
          PROVE  e[i].n <= e[j].n
      <4>1. CASE j = Len(e)
        BY <1>1, <1>2, <3>2, <3>3, <4>1
      <4>2. CASE j # Len(e)
        <5>1. j \in 1..Len(e) - 1
          BY <1>2, <4>2
        <5>2. j + s \in 1..Len(q) /\ e[j] = q[j + s]
          BY <1>3, <5>1
        <5>3. j + s \in (i + s)..Len(q)
          BY <1>2, <5>2
        <5> QED
          BY <1>4, <3>1, <3>3, <5>2, <5>3 DEF Ascending
      <4> QED
        BY <4>1, <4>2
    <3> QED
      BY <1>2, <3>2, <3>3
  <2> QED
    BY <2>1, <2>2
<1>5. ASSUME NEW r \in Seq(KbdByte), Before(r, q), Ascending(r, lo, hi)
      PROVE  Before(r, e)
  <2> SUFFICES ASSUME NEW i \in 1..Len(r), NEW j \in 1..Len(e), IsKey(r[i]), IsKey(e[j])
               PROVE  r[i].n <= e[j].n
    BY DEF Before
  <2>1. r[i].n \in Nat /\ r[i].n <= hi
    <3>1. r[i] \in KbdByte
      BY ElementOfSeq
    <3> QED
      BY <1>5, <3>1 DEF Ascending, KbdByte
  <2>2. CASE j = Len(e)
    BY <1>1, <1>2, <2>1, <2>2
  <2>3. CASE j # Len(e)
    <3>1. j \in 1..Len(e) - 1 /\ j + s \in 1..Len(q) /\ e[j] = q[j + s]
      BY <1>2, <1>3, <2>3
    <3> QED
      BY <1>5, <3>1 DEF Before
  <2> QED
    BY <2>2, <2>3
<1> QED
  BY <1>4, <1>5 DEF e, Ascending

LEMMA NothingOrdered ==
    ASSUME NEW lo, NEW hi, NEW q
    PROVE  Ascending(<<>>, lo, hi) /\ Before(q, <<>>) /\ Before(<<>>, q)
<1>1. Len(<<>>) = 0 /\ 1..0 = {}
  OBVIOUS
<1> QED
  BY <1>1 DEF Ascending, Before

\* What is left of a ring whose oldest byte was read.
LEMMA TailOrdered ==
    ASSUME NEW q \in Seq(KbdByte), q # <<>>, NEW lo \in Nat, NEW hi \in Nat,
           Ascending(q, lo, hi)
    PROVE  LET h == Head(q) IN
           /\ h = q[1] /\ h \in KbdByte
           /\ Ascending(Tail(q), lo, hi)
           /\ IsKey(h) => lo <= h.n /\ h.n <= hi /\ Ascending(Tail(q), h.n, hi)
           /\ \A r : Before(q, r) => Before(Tail(q), r)
<1> DEFINE t == Tail(q)
<1>1. /\ Head(q) = q[1] /\ Head(q) \in KbdByte /\ t \in Seq(KbdByte)
      /\ Len(t) = Len(q) - 1 /\ \A i \in 1..Len(t) : t[i] = q[i + 1]
  BY HeadTailProperties
<1>2. Len(q) \in Nat /\ Len(t) \in Nat /\ Len(q) # 0
  BY <1>1, LenProperties, EmptySeq
<1> HIDE DEF t
<1>3. ASSUME NEW i \in 1..Len(t), IsKey(t[i])
      PROVE  /\ i + 1 \in 1..Len(q) /\ t[i] = q[i + 1]
             /\ lo <= t[i].n /\ t[i].n <= hi
             /\ \A j \in i..Len(t) : IsKey(t[j]) => t[i].n <= t[j].n
  <2>1. i + 1 \in 1..Len(q) /\ t[i] = q[i + 1]
    BY <1>1, <1>2
  <2>2. lo <= t[i].n /\ t[i].n <= hi
    BY <1>3, <2>1 DEF Ascending
  <2>3. ASSUME NEW j \in i..Len(t), IsKey(t[j])
        PROVE  t[i].n <= t[j].n
    <3>1. j + 1 \in (i + 1)..Len(q) /\ t[j] = q[j + 1]
      BY <1>1, <1>2
    <3> QED
      BY <1>3, <2>1, <2>3, <3>1 DEF Ascending
  <2> QED
    BY <2>1, <2>2, <2>3
<1>4. Ascending(t, lo, hi)
  BY <1>3 DEF Ascending
<1>5. ASSUME IsKey(q[1])
      PROVE  lo <= q[1].n /\ q[1].n <= hi /\ Ascending(t, q[1].n, hi)
  <2>1. 1 \in 1..Len(q)
    BY <1>2
  <2>2. lo <= q[1].n /\ q[1].n <= hi
    BY <1>5, <2>1 DEF Ascending
  <2>3. ASSUME NEW i \in 1..Len(t), IsKey(t[i])
        PROVE  q[1].n <= t[i].n
    <3>1. i + 1 \in 1..Len(q) /\ t[i] = q[i + 1]
      BY <1>3, <2>3
    <3> QED
      BY <1>5, <2>1, <2>3, <3>1 DEF Ascending
  <2> QED
    BY <1>3, <2>2, <2>3 DEF Ascending
<1>6. ASSUME NEW r, Before(q, r) PROVE Before(t, r)
  <2> SUFFICES ASSUME NEW i \in 1..Len(t), NEW j \in 1..Len(r), IsKey(t[i]), IsKey(r[j])
               PROVE  t[i].n <= r[j].n
    BY DEF Before
  <2>1. i + 1 \in 1..Len(q) /\ t[i] = q[i + 1]
    BY <1>3
  <2> QED
    BY <1>6, <2>1 DEF Before
<1> QED
  BY <1>1, <1>4, <1>5, <1>6 DEF t

LEMMA ByteNumber ==
    ASSUME NEW q \in Seq(KbdByte), NEW i \in 1..Len(q)
    PROVE  q[i] \in KbdByte /\ q[i].n \in Nat
<1>1. q[i] \in KbdByte
  BY ElementOfSeq
<1> QED
  BY <1>1 DEF KbdByte

\* The keys may be said to be typed up to a later one.
LEMMA Widened ==
    ASSUME NEW c \in KbdRec, NEW lo \in Nat, NEW hi \in Nat, NEW m \in Nat,
           Orderliness(c, lo, hi), hi <= m
    PROVE  Orderliness(c, lo, m)
<1>1. ASSUME NEW q \in Seq(KbdByte), Ascending(q, lo, hi) PROVE Ascending(q, lo, m)
  <2>1. \A i \in 1..Len(q) : q[i].n \in Nat
    BY ByteNumber
  <2> QED
    BY <1>1, <2>1 DEF Ascending
<1>2. c.rx \in Seq(KbdByte) /\ c.pend \in Seq(KbdByte)
  BY DEF KbdRec
<1> QED
  BY <1>1, <1>2 DEF Orderliness

\* The ring and the keys held back behind it are one queue in order.
LEMMA ConcatOrdered ==
    ASSUME NEW q \in Seq(KbdByte), NEW r \in Seq(KbdByte), NEW lo \in Nat, NEW hi \in Nat,
           Ascending(q, lo, hi), Ascending(r, lo, hi), Before(q, r)
    PROVE  q \o r \in Seq(KbdByte) /\ Ascending(q \o r, lo, hi)
<1> DEFINE c == q \o r
<1>1. /\ c \in Seq(KbdByte) /\ Len(c) = Len(q) + Len(r)
      /\ \A i \in 1..Len(q) + Len(r) : c[i] = IF i <= Len(q) THEN q[i] ELSE r[i - Len(q)]
  BY ConcatProperties
<1>2. Len(q) \in Nat /\ Len(r) \in Nat
  BY LenProperties
<1> HIDE DEF c
<1>3. ASSUME NEW i \in 1..Len(c)
      PROVE  \/ i \in 1..Len(q) /\ c[i] = q[i]
             \/ i > Len(q) /\ i - Len(q) \in 1..Len(r) /\ c[i] = r[i - Len(q)]
  BY <1>1, <1>2
<1>4. ASSUME NEW i \in 1..Len(c), IsKey(c[i])
      PROVE  lo <= c[i].n /\ c[i].n <= hi
  BY <1>3, <1>4 DEF Ascending
<1>5. ASSUME NEW i \in 1..Len(c), NEW j \in i..Len(c), IsKey(c[i]), IsKey(c[j])
      PROVE  c[i].n <= c[j].n
  <2>0. j \in 1..Len(c) /\ i <= j
    BY <1>1, <1>2
  <2>1. CASE i > Len(q)
    <3>1. i - Len(q) \in 1..Len(r) /\ c[i] = r[i - Len(q)]
      BY <1>2, <1>3, <2>1
    <3>2. j > Len(q)
      BY <1>2, <2>0, <2>1
    <3>3. j - Len(q) \in 1..Len(r) /\ c[j] = r[j - Len(q)]
      BY <1>2, <1>3, <2>0, <3>2
    <3>4. j - Len(q) \in (i - Len(q))..Len(r)
      BY <1>2, <2>0, <3>1, <3>3
    <3> QED
      BY <1>5, <3>1, <3>3, <3>4 DEF Ascending
  <2>2. CASE ~(i > Len(q)) /\ j > Len(q)
    <3>1. i \in 1..Len(q) /\ c[i] = q[i] /\ j - Len(q) \in 1..Len(r) /\ c[j] = r[j - Len(q)]
      BY <1>2, <1>3, <2>0, <2>2
    <3> QED
      BY <1>5, <3>1 DEF Before
  <2>3. CASE ~(i > Len(q)) /\ ~(j > Len(q))
    <3>1. i \in 1..Len(q) /\ c[i] = q[i] /\ j \in 1..Len(q) /\ c[j] = q[j]
      BY <1>2, <1>3, <2>0, <2>3
    <3>2. j \in i..Len(q)
      BY <1>2, <2>0, <3>1
    <3> QED
      BY <1>5, <3>1, <3>2 DEF Ascending
  <2> QED
    BY <2>1, <2>2, <2>3
<1> QED
  BY <1>1, <1>4, <1>5 DEF Ascending, c

\* The end of a queue is in order.
LEMMA EndOrdered ==
    ASSUME NEW q \in Seq(KbdByte), NEW m \in 1..Len(q), NEW lo, NEW hi, Ascending(q, lo, hi)
    PROVE  LET e == SubSeq(q, m, Len(q)) IN
           e \in Seq(KbdByte) /\ Len(e) = Len(q) - m + 1 /\ Ascending(e, lo, hi)
<1> DEFINE e == SubSeq(q, m, Len(q))
<1>0. Len(q) \in Nat /\ m \in Int
  BY LenProperties
<1>1. \A i \in m..Len(q) : q[i] \in KbdByte
  <2> SUFFICES ASSUME NEW i \in m..Len(q) PROVE q[i] \in KbdByte
    OBVIOUS
  <2>1. i \in 1..Len(q)
    BY <1>0
  <2> QED
    BY <2>1, ElementOfSeq
<1>2. /\ e \in Seq(KbdByte)
      /\ Len(e) = IF m <= Len(q) THEN Len(q) - m + 1 ELSE 0
      /\ \A i \in 1..Len(q) - m + 1 : e[i] = q[m + i - 1]
  BY <1>0, <1>1, SubSeqProperties
<1>3. Len(e) = Len(q) - m + 1
  BY <1>0, <1>2
<1> HIDE DEF e
<1>4. ASSUME NEW i \in 1..Len(e), IsKey(e[i])
      PROVE  /\ lo <= e[i].n /\ e[i].n <= hi
             /\ \A j \in i..Len(e) : IsKey(e[j]) => e[i].n <= e[j].n
  <2>1. m + i - 1 \in 1..Len(q) /\ e[i] = q[m + i - 1]
    BY <1>0, <1>2, <1>3
  <2>2. lo <= e[i].n /\ e[i].n <= hi
    BY <1>4, <2>1 DEF Ascending
  <2>3. ASSUME NEW j \in i..Len(e), IsKey(e[j]) PROVE e[i].n <= e[j].n
    <3>1. m + j - 1 \in (m + i - 1)..Len(q) /\ e[j] = q[m + j - 1]
      BY <1>0, <1>2, <1>3
    <3> QED
      BY <1>4, <2>1, <2>3, <3>1 DEF Ascending
  <2> QED
    BY <2>2, <2>3
<1> QED
  BY <1>2, <1>3, <1>4 DEF Ascending, e

--------------------------------------------------------------------------------
(* The keyboard's operations.                                              *)

\* A byte into the ring.
LEMMA ReceiveGood ==
    ASSUME NEW c \in KbdRec, NEW b \in KbdByte
    PROVE  LET e == Receive(c, b) IN
           /\ e \in KbdRec /\ Signalled(c, e) /\ e.sig
           /\ e = [c EXCEPT !.rx = Enqueue(c.rx, b), !.sig = TRUE]
           /\ e.rx = Enqueue(c.rx, b) /\ e.pend = c.pend /\ e.fnrefs = c.fnrefs
           /\ e.connected = c.connected /\ e.dtr = c.dtr /\ e.rts = c.rts
           /\ e.ackp = c.ackp /\ e.acks = c.acks
<1> DEFINE q == Enqueue(c.rx, b)
           e == [c EXCEPT !.rx = q, !.sig = TRUE]
<1>1. q \in Seq(KbdByte)
  BY EnqueueTyped DEF KbdRec
<1>2. Receive(c, b) = e
  BY DEF Receive
<1> HIDE DEF q
<1>3. /\ e \in KbdRec /\ e.sig = TRUE
      /\ e.rx = q /\ e.pend = c.pend /\ e.fnrefs = c.fnrefs
      /\ e.connected = c.connected /\ e.dtr = c.dtr /\ e.rts = c.rts
      /\ e.ackp = c.ackp /\ e.acks = c.acks
  BY <1>1 DEF KbdRec
<1>4. Signalled(c, e)
  BY <1>3 DEF Signalled
<1> QED
  BY <1>2, <1>3, <1>4 DEF q

\* A key, wherever it goes: refused, received or held back.
LEMMA QueueKeyGood ==
    ASSUME NEW c \in KbdRec, NEW b \in KbdByte, IsKey(b)
    PROVE  LET e == QueueKey(c, b) IN
           /\ e \in KbdRec /\ Signalled(c, e) /\ e.fnrefs = c.fnrefs
           /\ \A lo, hi \in Nat : Orderliness(c, lo, hi) /\ lo <= b.n /\ hi <= b.n
                 => Orderliness(e, lo, b.n)
<1> DEFINE open == c.connected /\ c.dtr
           waits == open /\ (~c.rts \/ c.ackp)
           e == QueueKey(c, b)
<1>0. c.rx \in Seq(KbdByte) /\ c.pend \in Seq(KbdByte) /\ b.n \in Nat
  BY DEF KbdRec, KbdByte
<1>1. CASE KeyRefused(c)
  <2>1. e = c
    BY <1>1 DEF QueueKey, KeyRefused
  <2>2. ASSUME NEW lo \in Nat, NEW hi \in Nat, Orderliness(c, lo, hi), hi <= b.n
        PROVE  Orderliness(c, lo, b.n)
    BY <1>0, <2>2, Widened
  <2>3. Len(c.rx) \in Nat
    BY <1>0, LenProperties
  <2>4. Signalled(c, c)
    BY <2>3 DEF Signalled
  <2> HIDE DEF e
  <2>5. /\ e \in KbdRec /\ Signalled(c, e) /\ e.fnrefs = c.fnrefs
        /\ \A lo, hi \in Nat : Orderliness(c, lo, hi) /\ lo <= b.n /\ hi <= b.n
             => Orderliness(e, lo, b.n)
    BY <2>1, <2>2, <2>4
  <2> QED
    BY <2>5 DEF e
<1>2. CASE ~KeyRefused(c) /\ waits
  <2> DEFINE p == Enqueue(c.pend, b)
  <2>1. e = [c EXCEPT !.pend = p]
    BY <1>2 DEF QueueKey
  <2>2. p \in Seq(KbdByte)
    BY <1>0, EnqueueTyped
  <2>3. ASSUME NEW lo \in Nat, NEW hi \in Nat, Orderliness(c, lo, hi), lo <= b.n, hi <= b.n
        PROVE  /\ Ascending(c.rx, lo, b.n) /\ Ascending(p, lo, b.n) /\ Before(c.rx, p)
    <3>1. /\ Ascending(p, lo, b.n)
          /\ Before(c.rx, c.pend) /\ Ascending(c.rx, lo, hi) => Before(c.rx, p)
      BY <1>0, <2>3, EnqueueOrdered DEF Orderliness
    <3>2. \A i \in 1..Len(c.rx) : c.rx[i].n \in Nat
      BY <1>0, ByteNumber
    <3>3. Ascending(c.rx, lo, b.n)
      BY <1>0, <2>3, <3>2 DEF Ascending, Orderliness
    <3> QED
      BY <2>3, <3>1, <3>3 DEF Orderliness
  <2> HIDE DEF p, e
  <2>4. /\ e \in KbdRec /\ e.rx = c.rx /\ e.pend = p /\ e.fnrefs = c.fnrefs /\ e.sig = c.sig
        /\ e.connected = c.connected /\ e.dtr = c.dtr /\ e.rts = c.rts
        /\ e.ackp = c.ackp /\ e.acks = c.acks
    BY <2>1, <2>2 DEF KbdRec
  <2>5. Signalled(c, e)
    <3>1. Len(c.rx) \in Nat
      BY <1>0, LenProperties
    <3> QED
      BY <2>4, <3>1 DEF Signalled
  <2>6. Handshake(c) => Handshake(e)
    BY <1>2, <2>4 DEF Handshake
  <2>7. \A lo, hi \in Nat : Orderliness(c, lo, hi) /\ lo <= b.n /\ hi <= b.n
          => Orderliness(e, lo, b.n)
    BY <2>3, <2>4, <2>6 DEF Orderliness
  <2> QED
    BY <2>4, <2>5, <2>7 DEF e
<1>3. CASE ~KeyRefused(c) /\ ~waits
  <2> DEFINE r == Receive(c, b)
             w == [r EXCEPT !.delta = TRUE]
  <2>1. e = IF ~open /\ c.wait THEN w ELSE r
    BY <1>3 DEF QueueKey
  <2>2. /\ r \in KbdRec /\ Signalled(c, r) /\ r.sig
        /\ r.rx = Enqueue(c.rx, b) /\ r.pend = c.pend /\ r.fnrefs = c.fnrefs
        /\ r.connected = c.connected /\ r.dtr = c.dtr /\ r.rts = c.rts
        /\ r.ackp = c.ackp /\ r.acks = c.acks
    BY ReceiveGood
  <2> HIDE DEF r
  <2>3. /\ w \in KbdRec /\ w.sig /\ w.rx = r.rx /\ w.pend = r.pend /\ w.fnrefs = r.fnrefs
        /\ w.connected = r.connected /\ w.dtr = r.dtr /\ w.rts = r.rts
        /\ w.ackp = r.ackp /\ w.acks = r.acks
    BY <2>2 DEF KbdRec
  <2> HIDE DEF w, e
  <2>4. /\ e \in KbdRec /\ e.sig
        /\ e.rx = Enqueue(c.rx, b) /\ e.pend = c.pend /\ e.fnrefs = c.fnrefs
        /\ e.connected = c.connected /\ e.dtr = c.dtr /\ e.rts = c.rts
        /\ e.ackp = c.ackp /\ e.acks = c.acks
    BY <2>1, <2>2, <2>3
  <2>5. Signalled(c, e)
    BY <2>4 DEF Signalled
  <2>6. Handshake(c) => c.pend = <<>> /\ ~(c.connected /\ c.ackp)
    BY <1>3 DEF Handshake
  <2>7. Handshake(c) => Handshake(e)
    BY <2>4, <2>6 DEF Handshake
  <2>8. ASSUME NEW lo \in Nat, NEW hi \in Nat, Orderliness(c, lo, hi), lo <= b.n, hi <= b.n
        PROVE  Orderliness(e, lo, b.n)
    <3>1. Ascending(e.rx, lo, b.n)
      BY <1>0, <2>4, <2>8, EnqueueOrdered DEF Orderliness
    <3>2. Ascending(e.pend, lo, b.n) /\ Before(e.rx, e.pend)
      BY <2>4, <2>6, <2>8, NothingOrdered DEF Orderliness
    <3> QED
      BY <2>7, <2>8, <3>1, <3>2 DEF Orderliness
  <2> QED
    BY <2>4, <2>5, <2>8 DEF e
<1> QED
  BY <1>1, <1>2, <1>3

LEMMA SignalledTwice ==
    ASSUME NEW c \in KbdRec, NEW e \in KbdRec, NEW f \in KbdRec,
           Signalled(c, e), Signalled(e, f)
    PROVE  Signalled(c, f)
<1>1. Len(c.rx) \in Nat /\ Len(e.rx) \in Nat /\ Len(f.rx) \in Nat
  BY LenProperties DEF KbdRec
<1> QED
  BY <1>1 DEF Signalled

\* The count of the Fn chords is all that changes.
LEMMA FnrefsGood ==
    ASSUME NEW c \in KbdRec, NEW x \in Nat
    PROVE  LET e == [c EXCEPT !.fnrefs = x] IN
           /\ e \in KbdRec /\ Signalled(c, e) /\ e.fnrefs = x
           /\ \A lo, hi \in Nat : Orderliness(c, lo, hi) => Orderliness(e, lo, hi)
<1> DEFINE e == [c EXCEPT !.fnrefs = x]
<1>1. /\ e \in KbdRec /\ e.rx = c.rx /\ e.pend = c.pend /\ e.fnrefs = x /\ e.sig = c.sig
      /\ e.connected = c.connected /\ e.dtr = c.dtr /\ e.rts = c.rts
      /\ e.ackp = c.ackp /\ e.acks = c.acks
  BY DEF KbdRec
<1> HIDE DEF e
<1>2. Len(c.rx) \in Nat
  BY LenProperties DEF KbdRec
<1>3. Signalled(c, e) /\ (Handshake(c) => Handshake(e))
  BY <1>1, <1>2 DEF Signalled, Handshake
<1>4. \A lo, hi \in Nat : Orderliness(c, lo, hi) => Orderliness(e, lo, hi)
  BY <1>1, <1>3 DEF Orderliness
<1> QED
  BY <1>1, <1>3, <1>4 DEF e

\* The keys held back enter the ring behind what it holds.
LEMMA FlushGood ==
    ASSUME NEW c \in KbdRec
    PROVE  LET e == FlushPending(c) IN
           /\ e \in KbdRec /\ Signalled(c, e) /\ e.fnrefs = c.fnrefs
           /\ e.connected = c.connected /\ e.dtr = c.dtr /\ e.rts = c.rts
           /\ e.ackp = c.ackp /\ e.acks = c.acks /\ e.pend = <<>>
           /\ \A lo, hi \in Nat :
                 Ascending(c.rx, lo, hi) /\ Ascending(c.pend, lo, hi) /\ Before(c.rx, c.pend)
                    => Ascending(e.rx, lo, hi)
<1> DEFINE both == c.rx \o c.pend
           kept == IF Len(both) <= KbdCap THEN both
                   ELSE SubSeq(both, Len(both) - KbdCap + 1, Len(both))
           e == [c EXCEPT !.rx = kept, !.pend = <<>>, !.sig = c.sig \/ c.pend # <<>>]
<1>0. FlushPending(c) = e
  BY DEF FlushPending
<1>1. /\ c.rx \in Seq(KbdByte) /\ c.pend \in Seq(KbdByte)
      /\ Len(c.rx) \in Nat /\ Len(c.pend) \in Nat
  BY LenProperties DEF KbdRec
<1>2. /\ both \in Seq(KbdByte) /\ Len(both) \in Nat
      /\ c.pend = <<>> => Len(both) = Len(c.rx)
  <2>1. both \in Seq(KbdByte) /\ Len(both) = Len(c.rx) + Len(c.pend)
    BY <1>1, ConcatProperties
  <2>2. c.pend = <<>> => Len(c.pend) = 0
    BY EmptySeq
  <2> HIDE DEF both
  <2>3. Len(both) \in Nat
    BY <2>1, LenProperties
  <2>4. ASSUME c.pend = <<>> PROVE Len(both) = Len(c.rx)
    <3>1. Len(c.pend) = 0 /\ Len(c.rx) \in Nat
      BY <1>1, <2>2, <2>4
    <3>2. Len(both) = Len(c.rx) + Len(c.pend)
      BY <2>1
    <3> QED
      BY <3>1, <3>2
  <2> QED
    BY <2>1, <2>3, <2>4
<1>c. KbdCap \in Nat /\ KbdCap >= 2
  BY CapNat
<1>4. ASSUME NEW lo \in Nat, NEW hi \in Nat, Ascending(c.rx, lo, hi), Ascending(c.pend, lo, hi),
             Before(c.rx, c.pend)
      PROVE  Ascending(both, lo, hi)
  BY <1>1, <1>4, ConcatOrdered
<1> HIDE DEF both
<1>5. /\ kept \in Seq(KbdByte) /\ Len(kept) <= Len(both)
      /\ \A lo, hi \in Nat : Ascending(both, lo, hi) => Ascending(kept, lo, hi)
  <2>1. CASE Len(both) <= KbdCap
    <3>1. kept = both
      BY <2>1
    <3>2. Len(both) <= Len(both)
      BY <1>2
    <3> QED
      BY <1>2, <3>1, <3>2
  <2>2. CASE ~(Len(both) <= KbdCap)
    <3> DEFINE m == Len(both) - KbdCap + 1
    <3>1. m \in 1..Len(both) /\ Len(both) - m + 1 <= Len(both)
      BY <1>2, <1>c, <2>2
    <3>2. kept = SubSeq(both, m, Len(both))
      BY <2>2
    <3> HIDE DEF m, kept
    <3>3. SubSeq(both, m, Len(both)) \in Seq(KbdByte)
          /\ Len(SubSeq(both, m, Len(both))) = Len(both) - m + 1
      <4>1. Ascending(both, 1, 0) \/ ~Ascending(both, 1, 0)
        OBVIOUS
      <4>2. \A i \in m..Len(both) : both[i] \in KbdByte
        <5> SUFFICES ASSUME NEW i \in m..Len(both) PROVE both[i] \in KbdByte
          OBVIOUS
        <5>1. i \in 1..Len(both)
          BY <1>2, <3>1
        <5> QED
          BY <1>2, <5>1, ElementOfSeq
      <4>3. m \in Int /\ Len(both) \in Int /\ m <= Len(both)
        BY <1>1, <1>2, <3>1
      <4> QED
        BY <4>2, <4>3, SubSeqProperties
    <3>4. ASSUME NEW lo \in Nat, NEW hi \in Nat, Ascending(both, lo, hi)
          PROVE  Ascending(SubSeq(both, m, Len(both)), lo, hi)
      BY <1>2, <3>1, <3>4, EndOrdered
    <3> QED
      BY <3>1, <3>2, <3>3, <3>4
  <2> QED
    BY <2>1, <2>2
<1> HIDE DEF kept
<1>6. <<>> \in Seq(KbdByte)
  BY EmptySeq
<1>7. /\ e \in KbdRec /\ e.rx = kept /\ e.pend = <<>> /\ e.sig = (c.sig \/ c.pend # <<>>)
      /\ e.connected = c.connected /\ e.dtr = c.dtr /\ e.rts = c.rts
      /\ e.ackp = c.ackp /\ e.acks = c.acks /\ e.fnrefs = c.fnrefs
  BY <1>5, <1>6 DEF KbdRec
<1> HIDE DEF e
<1>8. Len(kept) \in Nat /\ Len(both) \in Nat
  BY <1>2, <1>5, LenProperties
<1>9. Signalled(c, e)
  <2>1. ASSUME c.pend = <<>> PROVE Len(kept) <= Len(c.rx)
    BY <1>1, <1>2, <1>5, <1>8, <2>1
  <2>2. (c.sig => e.sig) /\ (c.pend # <<>> => e.sig)
    BY <1>7
  <2>3. ~(Len(e.rx) > Len(c.rx)) \/ c.pend # <<>>
    BY <1>1, <1>7, <1>8, <2>1
  <2> QED
    BY <2>2, <2>3 DEF Signalled
<1> QED
  BY <1>0, <1>4, <1>5, <1>7, <1>9

\* What the driver, the poll and the end of an operation note aside.
SameKeys(c, e) ==
    /\ e.rx = c.rx /\ e.pend = c.pend /\ e.fnrefs = c.fnrefs
    /\ e.connected = c.connected /\ e.dtr = c.dtr /\ e.rts = c.rts
    /\ e.ackp = c.ackp /\ e.acks = c.acks

LEMMA NoteGood ==
    ASSUME NEW c \in KbdRec, NEW e \in KbdRec, SameKeys(c, e)
    PROVE  /\ (c.sig => e.sig) => Signalled(c, e)
           /\ \A lo, hi \in Nat : Orderliness(c, lo, hi) => Orderliness(e, lo, hi)
<1>1. Len(c.rx) \in Nat
  BY LenProperties DEF KbdRec
<1>2. ((c.sig => e.sig) => Signalled(c, e)) /\ (Handshake(c) => Handshake(e))
  BY <1>1 DEF SameKeys, Signalled, Handshake
<1> QED
  BY <1>2 DEF SameKeys, Orderliness

\* The guest reads a byte; the end of the probe's answer connects the keyboard.
LEMMA PopGood ==
    ASSUME NEW c \in KbdRec, c.rx # <<>>
    PROVE  LET e == KbdPop(c)
               h == Head(c.rx) IN
           /\ e \in KbdRec /\ Signalled(c, e) /\ e.fnrefs = c.fnrefs
           /\ h \in KbdByte
           /\ \A lo, hi \in Nat : Orderliness(c, lo, hi)
                => /\ Orderliness(e, IF IsKey(h) THEN h.n ELSE lo, hi)
                   /\ IsKey(h) => lo <= h.n /\ h.n <= hi
<1> DEFINE h == Head(c.rx)
           t == Tail(c.rx)
           p == [c EXCEPT !.rx = t]
           one == [p EXCEPT !.acks = 1]
           conn == [p EXCEPT !.connected = TRUE, !.ackp = FALSE, !.acks = 0]
           off == [p EXCEPT !.ackp = FALSE, !.acks = 0]
           e == KbdPop(c)
           first == c.ackp /\ h.code = Ack0 /\ c.acks = 0
           last == c.ackp /\ h.code = Ack1 /\ c.acks = 1
<1>0. c.rx \in Seq(KbdByte) /\ c.pend \in Seq(KbdByte)
  BY DEF KbdRec
<1>1. /\ h = c.rx[1] /\ h \in KbdByte /\ t \in Seq(KbdByte)
      /\ Len(t) = Len(c.rx) - 1 /\ Len(c.rx) \in Nat /\ Len(t) \in Nat
  BY <1>0, HeadTailProperties, LenProperties
<1>2. /\ ~c.ackp => e = p
      /\ first => e = one
      /\ last => e = FlushPending(conn)
      /\ c.ackp /\ ~first /\ ~last => e = off
  BY DEF KbdPop, Ack0, Ack1
<1>3. ASSUME NEW lo \in Nat, NEW hi \in Nat, Orderliness(c, lo, hi)
      PROVE  LET l == IF IsKey(h) THEN h.n ELSE lo IN
             /\ l \in Nat /\ (IsKey(h) => lo <= h.n /\ h.n <= hi)
             /\ Ascending(t, l, hi) /\ Ascending(c.pend, l, hi) /\ Before(t, c.pend)
  <2>1. /\ Ascending(t, lo, hi) /\ Before(t, c.pend)
        /\ IsKey(h) => lo <= h.n /\ h.n <= hi /\ Ascending(t, h.n, hi)
    BY <1>0, <1>3, TailOrdered DEF Orderliness
  <2>2. h.n \in Nat
    BY <1>1 DEF KbdByte
  <2>3. ASSUME IsKey(h) PROVE Ascending(c.pend, h.n, hi)
    <3>1. \A i \in 1..Len(c.pend) : IsKey(c.pend[i]) => h.n <= c.pend[i].n
      <4>1. 1 \in 1..Len(c.rx) /\ IsKey(c.rx[1])
        BY <1>1, <2>3
      <4> QED
        BY <1>1, <1>3, <4>1 DEF Orderliness, Before
    <3> QED
      BY <1>3, <3>1 DEF Orderliness, Ascending
  <2> QED
    BY <1>3, <2>1, <2>2, <2>3 DEF Orderliness
<1> HIDE DEF h, t, e
<1>4. /\ p \in KbdRec /\ p.rx = t /\ p.pend = c.pend /\ p.fnrefs = c.fnrefs /\ p.sig = c.sig
      /\ p.connected = c.connected /\ p.dtr = c.dtr /\ p.rts = c.rts
      /\ p.ackp = c.ackp /\ p.acks = c.acks
  BY <1>1 DEF KbdRec
<1>5. /\ one \in KbdRec /\ one.rx = t /\ one.pend = c.pend /\ one.fnrefs = c.fnrefs
      /\ one.sig = c.sig /\ one.connected = c.connected /\ one.dtr = c.dtr /\ one.rts = c.rts
      /\ one.ackp = c.ackp /\ one.acks = 1
  <2> HIDE DEF p
  <2> QED BY <1>4 DEF KbdRec
<1>6. /\ conn \in KbdRec /\ conn.rx = t /\ conn.pend = c.pend /\ conn.fnrefs = c.fnrefs
      /\ conn.sig = c.sig /\ conn.connected /\ conn.dtr = c.dtr /\ conn.rts = c.rts
      /\ conn.ackp = FALSE /\ conn.acks = 0
  <2> HIDE DEF p
  <2> QED BY <1>4 DEF KbdRec
<1>7. /\ off \in KbdRec /\ off.rx = t /\ off.pend = c.pend /\ off.fnrefs = c.fnrefs
      /\ off.sig = c.sig /\ off.connected = c.connected /\ off.dtr = c.dtr /\ off.rts = c.rts
      /\ off.ackp = FALSE /\ off.acks = 0
  <2> HIDE DEF p
  <2> QED BY <1>4 DEF KbdRec
<1> DEFINE f == FlushPending(conn)
<1>8. /\ f \in KbdRec /\ Signalled(conn, f) /\ f.fnrefs = c.fnrefs
      /\ f.connected /\ f.dtr = c.dtr /\ f.rts = c.rts
      /\ f.ackp = FALSE /\ f.pend = <<>>
      /\ \A lo, hi \in Nat :
            Ascending(t, lo, hi) /\ Ascending(c.pend, lo, hi) /\ Before(t, c.pend)
               => Ascending(f.rx, lo, hi)
  <2> HIDE DEF conn
  <2> QED BY <1>6, FlushGood
<1> HIDE DEF p, one, conn, off, f
<1>9. Signalled(c, p) /\ Signalled(c, one) /\ Signalled(c, conn) /\ Signalled(c, off)
  BY <1>1, <1>4, <1>5, <1>6, <1>7 DEF Signalled
<1>10. Signalled(c, f)
  BY <1>6, <1>8, <1>9, SignalledTwice
<1>11. CASE ~c.ackp
  <2>1. Handshake(c) => Handshake(p)
    BY <1>4, <1>11 DEF Handshake
  <2> QED
    BY <1>1, <1>2, <1>3, <1>4, <1>9, <1>11, <2>1 DEF Orderliness, h, e
<1>12. CASE first
  <2>1. c.rx = <<AckByte(Ack0), AckByte(Ack1)>> => t = <<AckByte(Ack1)>>
    BY DEF t
  <2>2. Handshake(c) => Handshake(one)
    BY <1>5, <1>12, <2>1 DEF Handshake
  <2> QED
    BY <1>1, <1>2, <1>3, <1>5, <1>9, <1>12, <2>2 DEF Orderliness, h, e
<1>13. CASE last
  <2>1. Handshake(c) => Handshake(f)
    BY <1>8, <1>13 DEF Handshake
  <2>2. ASSUME NEW lo \in Nat, NEW hi \in Nat, Orderliness(c, lo, hi)
        PROVE  Orderliness(f, IF IsKey(h) THEN h.n ELSE lo, hi)
    BY <1>3, <1>8, <2>1, <2>2, NothingOrdered DEF Orderliness
  <2>3. e = f
    BY <1>2, <1>13 DEF f
  <2>4. \A lo, hi \in Nat : Orderliness(c, lo, hi)
          => /\ Orderliness(e, IF IsKey(h) THEN h.n ELSE lo, hi)
             /\ IsKey(h) => lo <= h.n /\ h.n <= hi
    BY <1>3, <2>2, <2>3
  <2>5. e \in KbdRec /\ Signalled(c, e) /\ e.fnrefs = c.fnrefs /\ h \in KbdByte
    BY <1>1, <1>8, <1>10, <2>3
  <2> QED
    BY <2>4, <2>5 DEF h, e
<1>14. CASE c.ackp /\ ~first /\ ~last
  <2>1. c.rx = <<AckByte(Ack0), AckByte(Ack1)>> => h.code = Ack0
    BY DEF h, AckByte, KeyByte
  <2>2. c.rx = <<AckByte(Ack1)>> => h.code = Ack1
    BY DEF h, AckByte, KeyByte
  <2>3. Handshake(c) => ~c.connected /\ c.pend = <<>>
    BY <1>14, <2>1, <2>2 DEF Handshake
  <2>4. Handshake(c) => Handshake(off)
    BY <1>7, <2>3 DEF Handshake
  <2> QED
    BY <1>1, <1>2, <1>3, <1>7, <1>9, <1>14, <2>4 DEF Orderliness, h, e
<1> QED
  BY <1>11, <1>12, <1>13, <1>14

LEMMA ClearGood ==
    ASSUME NEW c \in KbdRec
    PROVE  LET e == KbdClear(c) IN
           /\ e \in KbdRec /\ Signalled(c, e) /\ e.fnrefs = c.fnrefs
           /\ ~c.ackp => \A lo, hi \in Nat : Orderliness(c, lo, hi) => Orderliness(e, lo, hi)
<1> DEFINE e == KbdClear(c)
<1>0. e = [c EXCEPT !.rx = <<>>, !.ackp = FALSE, !.acks = 0]
  BY DEF KbdClear
<1> HIDE DEF e
<1>1. <<>> \in Seq(KbdByte) /\ Len(<<>>) = 0 /\ Len(c.rx) \in Nat
  BY EmptySeq, LenProperties DEF KbdRec
<1>2. /\ e \in KbdRec /\ e.rx = <<>> /\ e.pend = c.pend /\ e.fnrefs = c.fnrefs
      /\ e.sig = c.sig /\ e.connected = c.connected /\ e.dtr = c.dtr /\ e.rts = c.rts
      /\ e.ackp = FALSE /\ e.acks = 0
  BY <1>0, <1>1 DEF KbdRec
<1>3. Signalled(c, e)
  BY <1>1, <1>2 DEF Signalled
<1>4. ~c.ackp /\ Handshake(c) => Handshake(e)
  BY <1>2 DEF Handshake
<1>5. ~c.ackp => \A lo, hi \in Nat : Orderliness(c, lo, hi) => Orderliness(e, lo, hi)
  BY <1>2, <1>4, NothingOrdered DEF Orderliness
<1> QED
  BY <1>2, <1>3, <1>5 DEF e

LEMMA ResetGood ==
    ASSUME NEW refs \in Nat
    PROVE  LET e == KbdReset(refs) IN
           /\ e \in KbdRec /\ ~e.sig /\ e.rx = <<>> /\ e.fnrefs = refs
           /\ \A lo, hi \in Nat : Orderliness(e, lo, hi)
<1> DEFINE e == KbdReset(refs)
<1>0. <<>> \in Seq(KbdByte)
  BY EmptySeq
<1>1. /\ e \in KbdRec /\ e.rx = <<>> /\ e.pend = <<>> /\ e.fnrefs = refs
      /\ ~e.connected /\ ~e.ackp /\ ~e.sig
  BY <1>0 DEF KbdReset, KbdRec
<1> HIDE DEF e
<1>2. \A lo, hi \in Nat : Orderliness(e, lo, hi)
  BY <1>1, NothingOrdered DEF Orderliness, Handshake
<1> QED
  BY <1>1, <1>2 DEF e

LEMMA PairAppended ==
    ASSUME NEW S, NEW u \in S, NEW v \in S PROVE Append(<<u>>, v) = <<u, v>>
<1> DEFINE y == <<u>>
<1>0. y \in Seq(S) /\ Len(y) = 1 /\ y[1] = u
  OBVIOUS
<1> HIDE DEF y
<1>1. /\ Append(y, v) \in Seq(S) /\ Len(Append(y, v)) = Len(y) + 1
      /\ \A i \in 1..Len(y) : Append(y, v)[i] = y[i]
      /\ Append(y, v)[Len(y) + 1] = v
  BY <1>0, AppendProperties, ZenonT(120)
<1> DEFINE z == Append(y, v)
           p == <<u, v>>
<1>2. p \in Seq(S) /\ Len(p) = 2 /\ p[1] = u /\ p[2] = v
  OBVIOUS
<1> HIDE DEF z, p
<1>3. z \in Seq(S) /\ Len(z) = 2 /\ z[1] = u /\ z[2] = v
  BY <1>0, <1>1 DEF z
<1>4. \A i \in 1..Len(z) : z[i] = p[i]
  <2>1. \A i \in 1..2 : i = 1 \/ i = 2
    OBVIOUS
  <2> QED
    BY <1>2, <1>3, <2>1
<1>5. z = p
  BY <1>2, <1>3, <1>4, SeqEqual
<1> QED
  BY <1>5 DEF y, z, p

\* The modem lines; an orderly driver raises RTS with DTR over an empty ring,
\* and drops DTR with RTS after the probe.
OrderlyLines(c, dtr, rts) ==
    /\ rts /\ ~c.rts => dtr /\ c.rx = <<>>
    /\ c.dtr /\ ~dtr => c.rts /\ ~rts /\ ~c.ackp
    /\ rts => dtr

LEMMA LinesGood ==
    ASSUME NEW c \in KbdRec, NEW dtr \in BOOLEAN, NEW rts \in BOOLEAN
    PROVE  LET e == KbdModemControl(c, dtr, rts) IN
           /\ e \in KbdRec /\ Signalled(c, e) /\ e.fnrefs = c.fnrefs
           /\ OrderlyLines(c, dtr, rts) =>
                 \A lo, hi \in Nat : Orderliness(c, lo, hi) => Orderliness(e, lo, hi)
<1> DEFINE x == [c EXCEPT !.dtr = dtr, !.rts = rts,
                       !.connected = c.connected /\ dtr, !.ackp = c.ackp /\ dtr,
                       !.acks = IF dtr THEN c.acks ELSE 0]
           rises == dtr /\ rts /\ ~c.rts
           e == KbdModemControl(c, dtr, rts)
<1>0. /\ c.rx \in Seq(KbdByte) /\ c.pend \in Seq(KbdByte) /\ Len(c.rx) \in Nat
      /\ c.connected \in BOOLEAN /\ c.ackp \in BOOLEAN /\ c.acks \in {0, 1}
  BY LenProperties DEF KbdRec
<1>1. e = IF rises THEN QueueProbeAck(x) ELSE x
  BY DEF KbdModemControl
<1>2. /\ x \in KbdRec /\ x.rx = c.rx /\ x.pend = c.pend /\ x.fnrefs = c.fnrefs /\ x.sig = c.sig
      /\ x.connected = (c.connected /\ dtr) /\ x.dtr = dtr /\ x.rts = rts
      /\ x.ackp = (c.ackp /\ dtr) /\ x.acks = IF dtr THEN c.acks ELSE 0
  <2> DEFINE con == c.connected /\ dtr
             ack == c.ackp /\ dtr
             acs == IF dtr THEN c.acks ELSE 0
  <2>1. con \in BOOLEAN /\ ack \in BOOLEAN /\ acs \in {0, 1}
    BY <1>0
  <2>2. x = [c EXCEPT !.dtr = dtr, !.rts = rts, !.connected = con, !.ackp = ack, !.acks = acs]
    OBVIOUS
  <2> HIDE DEF x
  <2>3. /\ x.connected = con /\ x.ackp = ack /\ x.acks = acs
        /\ x \in KbdRec /\ x.rx = c.rx /\ x.pend = c.pend /\ x.fnrefs = c.fnrefs /\ x.sig = c.sig
        /\ x.dtr = dtr /\ x.rts = rts
    <3> HIDE DEF con, ack, acs
    <3> QED BY <2>1, <2>2, ZenonT(120) DEF KbdRec
  <2> QED
    BY <2>3
<1> HIDE DEF x, e
<1>3. Signalled(c, x)
  BY <1>0, <1>2 DEF Signalled
<1>4. CASE ~rises
  <2>1. ASSUME OrderlyLines(c, dtr, rts), Handshake(c) PROVE Handshake(x)
    <3>1. CASE dtr
      <4>1. rts => c.rts
        BY <1>4, <3>1
      <4> QED
        BY <1>2, <2>1, <3>1, <4>1 DEF Handshake
    <3>2. CASE ~dtr
      <4>1. c.pend = <<>>
        BY <2>1, <3>2 DEF Handshake, OrderlyLines
      <4> QED
        BY <1>2, <3>2, <4>1 DEF Handshake
    <3> QED
      BY <3>1, <3>2
  <2>2. ASSUME OrderlyLines(c, dtr, rts), NEW lo \in Nat, NEW hi \in Nat, Orderliness(c, lo, hi)
        PROVE  Orderliness(x, lo, hi)
    BY <1>2, <2>1, <2>2 DEF Orderliness
  <2> QED
    BY <1>1, <1>2, <1>3, <1>4, <2>2 DEF e
<1>5. CASE rises /\ x.ackp
  <2>1. e = x
    BY <1>1, <1>5 DEF QueueProbeAck
  <2>2. ASSUME OrderlyLines(c, dtr, rts), Handshake(c) PROVE Handshake(x)
    <3>1. c.rx = <<>>
      BY <1>5, <2>2 DEF OrderlyLines
    <3>2. <<AckByte(Ack0), AckByte(Ack1)>> # <<>> /\ <<AckByte(Ack1)>> # <<>>
      OBVIOUS
    <3>3. c.ackp
      BY <1>2, <1>5
    <3>4. ~c.connected
      BY <2>2, <3>1, <3>2, <3>3 DEF Handshake
    <3> QED
      BY <1>2, <1>5, <2>2, <3>4 DEF Handshake
  <2>3. ASSUME OrderlyLines(c, dtr, rts), NEW lo \in Nat, NEW hi \in Nat, Orderliness(c, lo, hi)
        PROVE  Orderliness(x, lo, hi)
    BY <1>2, <2>2, <2>3 DEF Orderliness
  <2> QED
    BY <1>2, <1>3, <2>1, <2>3 DEF e
<1>6. CASE rises /\ ~x.ackp
  <2> DEFINE a == Receive(x, AckByte(Ack0))
             b == Receive(a, AckByte(Ack1))
             z == [b EXCEPT !.ackp = TRUE, !.acks = 0]
  <2>1. e = z
    BY <1>1, <1>6 DEF QueueProbeAck, AckByte
  <2>2. /\ a \in KbdRec /\ Signalled(x, a)
        /\ a.rx = Enqueue(x.rx, AckByte(Ack0)) /\ a.pend = x.pend /\ a.fnrefs = x.fnrefs
        /\ a.connected = x.connected /\ a.dtr = x.dtr /\ a.rts = x.rts
    BY <1>2, AckTyped, ReceiveGood
  <2> HIDE DEF a
  <2>3. /\ b \in KbdRec /\ Signalled(a, b) /\ b.sig
        /\ b.rx = Enqueue(a.rx, AckByte(Ack1)) /\ b.pend = a.pend /\ b.fnrefs = a.fnrefs
        /\ b.connected = a.connected /\ b.dtr = a.dtr /\ b.rts = a.rts
    BY <2>2, AckTyped, ReceiveGood
  <2> HIDE DEF b
  <2>4. /\ z \in KbdRec /\ z.sig /\ z.rx = b.rx /\ z.pend = b.pend /\ z.fnrefs = b.fnrefs
        /\ z.connected = b.connected /\ z.dtr = b.dtr /\ z.rts = b.rts
        /\ z.ackp = TRUE /\ z.acks = 0
    BY <2>3 DEF KbdRec
  <2> HIDE DEF z
  <2>5. c.rx = <<>> => z.rx = <<AckByte(Ack0), AckByte(Ack1)>>
    <3>1. Len(<<>>) # KbdCap /\ Len(<<AckByte(Ack0)>>) # KbdCap
      BY CapNat
    <3>2. Enqueue(<<>>, AckByte(Ack0)) = <<AckByte(Ack0)>>
      BY <3>1 DEF Enqueue
    <3>3. Enqueue(<<AckByte(Ack0)>>, AckByte(Ack1)) = <<AckByte(Ack0), AckByte(Ack1)>>
      <4>2. Enqueue(<<AckByte(Ack0)>>, AckByte(Ack1)) = Append(<<AckByte(Ack0)>>, AckByte(Ack1))
        BY <3>1 DEF Enqueue
      <4> QED
        BY <4>2, AckTyped, PairAppended
    <3> QED
      BY <1>2, <2>2, <2>3, <2>4, <3>2, <3>3
  <2>6. ASSUME OrderlyLines(c, dtr, rts), NEW lo \in Nat, NEW hi \in Nat, Orderliness(c, lo, hi)
        PROVE  Orderliness(z, lo, hi)
    <3>1. z.rx = <<AckByte(Ack0), AckByte(Ack1)>>
      BY <1>6, <2>5, <2>6 DEF OrderlyLines
    <3>2. \A i \in 1..Len(z.rx) : ~IsKey(z.rx[i])
      BY <3>1, AckTyped
    <3>3. Ascending(z.rx, lo, hi) /\ Before(z.rx, z.pend)
      BY <3>2 DEF Ascending, Before
    <3>4. Handshake(z)
      BY <1>2, <1>6, <2>2, <2>3, <2>4, <2>6, <3>1 DEF Orderliness, Handshake
    <3>5. Ascending(z.pend, lo, hi)
      BY <1>2, <2>2, <2>3, <2>4, <2>6 DEF Orderliness
    <3> QED
      BY <3>3, <3>4, <3>5 DEF Orderliness
  <2>7. Signalled(c, z)
    BY <2>4 DEF Signalled
  <2>8. z.fnrefs = c.fnrefs
    BY <1>2, <2>2, <2>3, <2>4
  <2> QED
    BY <2>1, <2>4, <2>6, <2>7, <2>8 DEF e
<1> QED
  BY <1>4, <1>5, <1>6

--------------------------------------------------------------------------------
(* The user's keys.                                                        *)

LEMMA KeyTyped ==
    ASSUME NEW code \in Codes \cup {FnCode}, NEW up \in BOOLEAN, NEW m \in Nat
    PROVE  KeyByte(code, up, m) \in KbdByte /\ IsKey(KeyByte(code, up, m))
           /\ KeyByte(code, up, m).n = m
<1>1. code \notin {Ack0, Ack1}
  BY CapNat DEF FnCode, Ack0, Ack1
<1>2. code \in Codes \cup {FnCode, Ack0, Ack1}
  OBVIOUS
<1> QED
  BY <1>1, <1>2 DEF KeyByte, KbdByte, IsKey

\* A press may take one more reference to Fn, and only for a chord.
LEMMA PressGood ==
    ASSUME NEW c \in KbdRec, NEW v \in Value, NEW m \in Nat
    PROVE  LET e == PressMapped(c, v, m) IN
           /\ e \in KbdRec /\ Signalled(c, e)
           /\ e.fnrefs <= c.fnrefs + (IF v.fn THEN 1 ELSE 0)
           /\ \A lo, hi \in Nat : Orderliness(c, lo, hi) /\ lo <= m /\ hi <= m
                 => Orderliness(e, lo, m)
<1> DEFINE one == [c EXCEPT !.fnrefs = c.fnrefs + 1]
           key == KeyByte(v.code, FALSE, m)
           fn  == KeyByte(FnCode, FALSE, m)
           a == QueueKey(c, key)
           b == QueueKey(one, key)
           w == QueueKey(one, fn)
           x == QueueKey(w, key)
           e == PressMapped(c, v, m)
<1>0. c.fnrefs \in Nat /\ c.fnrefs + 1 \in Nat /\ v.code \in Codes /\ v.fn \in BOOLEAN
  BY DEF KbdRec, Value
<1>1. /\ key \in KbdByte /\ IsKey(key) /\ key.n = m
      /\ fn \in KbdByte /\ IsKey(fn) /\ fn.n = m
  BY <1>0, KeyTyped
<1>2. \/ ~v.fn /\ e = a
      \/ e = c
      \/ v.fn /\ e = x
      \/ v.fn /\ e = b
  BY <1>0 DEF PressMapped
<1>3. /\ one \in KbdRec /\ Signalled(c, one) /\ one.fnrefs = c.fnrefs + 1
      /\ \A lo, hi \in Nat : Orderliness(c, lo, hi) => Orderliness(one, lo, hi)
  BY <1>0, FnrefsGood
<1> HIDE DEF one, key, fn, e
<1>4. /\ a \in KbdRec /\ Signalled(c, a) /\ a.fnrefs = c.fnrefs
      /\ \A lo, hi \in Nat : Orderliness(c, lo, hi) /\ lo <= m /\ hi <= m => Orderliness(a, lo, m)
  BY <1>1, QueueKeyGood
<1>5. /\ b \in KbdRec /\ Signalled(one, b) /\ b.fnrefs = c.fnrefs + 1
      /\ \A lo, hi \in Nat : Orderliness(one, lo, hi) /\ lo <= m /\ hi <= m => Orderliness(b, lo, m)
  BY <1>1, <1>3, QueueKeyGood
<1>6. /\ w \in KbdRec /\ Signalled(one, w) /\ w.fnrefs = c.fnrefs + 1
      /\ \A lo, hi \in Nat : Orderliness(one, lo, hi) /\ lo <= m /\ hi <= m => Orderliness(w, lo, m)
  BY <1>1, <1>3, QueueKeyGood
<1> HIDE DEF a, b, w
<1>7. /\ x \in KbdRec /\ Signalled(w, x) /\ x.fnrefs = c.fnrefs + 1
      /\ \A lo, hi \in Nat : Orderliness(w, lo, hi) /\ lo <= m /\ hi <= m => Orderliness(x, lo, m)
  BY <1>1, <1>6, QueueKeyGood
<1> HIDE DEF x
<1>8. Signalled(c, b) /\ Signalled(c, w)
  BY <1>3, <1>5, <1>6, SignalledTwice
<1>9. Signalled(c, x)
  BY <1>6, <1>7, <1>8, SignalledTwice
<1>10. Signalled(c, c)
  <2>1. Len(c.rx) \in Nat
    BY LenProperties DEF KbdRec
  <2> QED
    BY <2>1 DEF Signalled
<1>11. ASSUME NEW lo \in Nat, NEW hi \in Nat, Orderliness(c, lo, hi), lo <= m, hi <= m
       PROVE  /\ Orderliness(a, lo, m) /\ Orderliness(b, lo, m)
              /\ Orderliness(x, lo, m) /\ Orderliness(c, lo, m)
  <2>1. m <= m
    OBVIOUS
  <2>2. Orderliness(a, lo, m) /\ Orderliness(b, lo, m) /\ Orderliness(w, lo, m)
    BY <1>3, <1>4, <1>5, <1>6, <1>11
  <2>3. Orderliness(x, lo, m)
    BY <1>7, <1>11, <2>1, <2>2
  <2>6. Orderliness(c, lo, m)
    BY <1>11, Widened
  <2> QED
    BY <2>2, <2>3, <2>6
<1>12. CASE e = c
  BY <1>0, <1>10, <1>11, <1>12 DEF e
<1>13. CASE ~v.fn /\ e = a
  BY <1>0, <1>4, <1>11, <1>13 DEF e
<1>14. CASE v.fn /\ (e = b \/ e = x)
  BY <1>0, <1>5, <1>7, <1>8, <1>9, <1>11, <1>14 DEF e
<1> QED
  BY <1>2, <1>12, <1>13, <1>14

\* A release gives a reference back, if one is held.
LEMMA ReleaseGood ==
    ASSUME NEW c \in KbdRec, NEW v \in Value, NEW m \in Nat
    PROVE  LET e == ReleaseMapped(c, v, m) IN
           /\ e \in KbdRec /\ Signalled(c, e)
           /\ e.fnrefs = IF v.fn /\ c.fnrefs > 0 THEN c.fnrefs - 1 ELSE c.fnrefs
           /\ \A lo, hi \in Nat : Orderliness(c, lo, hi) /\ lo <= m /\ hi <= m
                 => Orderliness(e, lo, m)
<1> DEFINE key == KeyByte(v.code, TRUE, m)
           fn  == KeyByte(FnCode, TRUE, m)
           up == QueueKey(c, key)
           zero == [up EXCEPT !.fnrefs = 0]
           less == [up EXCEPT !.fnrefs = up.fnrefs - 1]
           x == QueueKey(zero, fn)
           e == ReleaseMapped(c, v, m)
<1>0. c.fnrefs \in Nat /\ v.code \in Codes /\ v.fn \in BOOLEAN
  BY DEF KbdRec, Value
<1>1. /\ key \in KbdByte /\ IsKey(key) /\ key.n = m
      /\ fn \in KbdByte /\ IsKey(fn) /\ fn.n = m
  BY <1>0, KeyTyped
<1>2. \/ (~v.fn \/ c.fnrefs = 0) /\ e = up
      \/ v.fn /\ c.fnrefs = 1 /\ e = x
      \/ v.fn /\ c.fnrefs # 0 /\ c.fnrefs # 1 /\ e = less
  <2>1. e = CASE ~v.fn \/ c.fnrefs = 0 -> up
              [] v.fn /\ c.fnrefs = 1 -> x
              [] OTHER -> less
    BY DEF ReleaseMapped
  <2> HIDE DEF e, up, x, less
  <2> QED
    BY <1>0, <2>1
<1> HIDE DEF key, fn, e
<1>3. /\ up \in KbdRec /\ Signalled(c, up) /\ up.fnrefs = c.fnrefs
      /\ \A lo, hi \in Nat : Orderliness(c, lo, hi) /\ lo <= m /\ hi <= m => Orderliness(up, lo, m)
  BY <1>1, QueueKeyGood
<1> HIDE DEF up
<1>4. /\ zero \in KbdRec /\ Signalled(up, zero) /\ zero.fnrefs = 0
      /\ \A lo, hi \in Nat : Orderliness(up, lo, hi) => Orderliness(zero, lo, hi)
  BY <1>3, FnrefsGood
<1>5. ASSUME c.fnrefs # 0
      PROVE  /\ less \in KbdRec /\ Signalled(up, less) /\ less.fnrefs = c.fnrefs - 1
             /\ \A lo, hi \in Nat : Orderliness(up, lo, hi) => Orderliness(less, lo, hi)
  <2>1. up.fnrefs - 1 \in Nat
    BY <1>0, <1>3, <1>5
  <2> QED
    BY <1>3, <2>1, FnrefsGood
<1> HIDE DEF zero, less
<1>6. /\ x \in KbdRec /\ Signalled(zero, x) /\ x.fnrefs = 0
      /\ \A lo, hi \in Nat : Orderliness(zero, lo, hi) /\ lo <= m /\ hi <= m => Orderliness(x, lo, m)
  BY <1>1, <1>4, QueueKeyGood
<1> HIDE DEF x
<1>7. m <= m
  OBVIOUS
<1>8. CASE (~v.fn \/ c.fnrefs = 0) /\ e = up
  BY <1>0, <1>3, <1>8 DEF e
<1>9. CASE v.fn /\ c.fnrefs = 1 /\ e = x
  <2>1. Signalled(c, x)
    BY <1>3, <1>4, <1>6, SignalledTwice
  <2>2. \A lo, hi \in Nat : Orderliness(c, lo, hi) /\ lo <= m /\ hi <= m => Orderliness(x, lo, m)
    BY <1>3, <1>4, <1>6, <1>7
  <2> QED
    BY <1>6, <1>9, <2>1, <2>2 DEF e
<1>10. CASE v.fn /\ c.fnrefs # 0 /\ c.fnrefs # 1 /\ e = less
  <2>1. Signalled(c, less)
    BY <1>3, <1>5, <1>10, SignalledTwice
  <2>2. \A lo, hi \in Nat : Orderliness(c, lo, hi) /\ lo <= m /\ hi <= m => Orderliness(less, lo, m)
    BY <1>3, <1>5, <1>10
  <2> QED
    BY <1>0, <1>5, <1>10, <2>1, <2>2 DEF e
<1> QED
  BY <1>2, <1>8, <1>9, <1>10

--------------------------------------------------------------------------------
(* Induction over the natural numbers, of sets, and what it gives of a     *)
(* recursive function.                                                     *)

LEMMA SetInduction ==
    ASSUME NEW S \in SUBSET Nat, 0 \in S, \A m \in S : m + 1 \in S
    PROVE  S = Nat
<1> DEFINE T == Nat \ S
           R == {ss \in Nat \X Nat : ss[1] < ss[2]}
<1> SUFFICES ASSUME T # {} PROVE FALSE
  OBVIOUS
<1>1. R = OpToRel(<, Nat)
  BY DEF OpToRel
<1>2. IsWellFoundedOn(R, Nat)
  BY <1>1, NatLessThanWellFounded
<1>3. T \subseteq Nat
  OBVIOUS
<1>4. \E x \in T : \A y \in T : ~(<<y, x>> \in R)
  <2> HIDE DEF T, R
  <2> QED BY <1>2, <1>3, WFMin
<1>5. PICK x \in T : \A y \in T : ~(<<y, x>> \in R)
  BY <1>4
<1>6. x \in Nat /\ x # 0 /\ x - 1 \in Nat
  OBVIOUS
<1>7. <<x - 1, x>> \in R
  BY <1>6
<1>8. x - 1 \in S
  BY <1>5, <1>6, <1>7
<1> QED
  BY <1>6, <1>8

\* Each value of f gives the next one.
Unfolds(f, m, a, F) ==
    \A i \in 0..m : f[i] = IF i = 0 THEN a ELSE F[<<i, f[i - 1]>>]

LEMMA Recursion ==
    ASSUME NEW N \in Nat, NEW S, NEW a \in S, NEW F \in [(1..N) \X S -> S]
    PROVE  \E f \in [0..N -> S] : Unfolds(f, N, a, F)
<1> DEFINE Upto(f, m) == Unfolds(f, m, a, F)
           T == {m \in Nat : m <= N => \E f \in [0..m -> S] : Upto(f, m)}
<1>1. 0 \in T
  <2> DEFINE f == [i \in 0..0 |-> a]
  <2>1. f \in [0..0 -> S] /\ Upto(f, 0)
    BY DEF Unfolds
  <2> QED
    BY <2>1
<1>2. ASSUME NEW m \in T PROVE m + 1 \in T
  <2>0. m \in Nat /\ m + 1 \in Nat
    OBVIOUS
  <2> SUFFICES ASSUME m + 1 <= N PROVE \E f \in [0..m + 1 -> S] : Upto(f, m + 1)
    BY <2>0
  <2>1. PICK f \in [0..m -> S] : Upto(f, m)
    BY <2>0
  <2> DEFINE g == [i \in 0..m + 1 |-> IF i = m + 1 THEN F[<<m + 1, f[m]>>] ELSE f[i]]
  <2>2. f[m] \in S /\ <<m + 1, f[m]>> \in (1..N) \X S
    BY <2>0, <2>1
  <2>3. F[<<m + 1, f[m]>>] \in S
    BY <2>2
  <2>4. g \in [0..m + 1 -> S]
    <3>1. \A i \in 0..m + 1 : i = m + 1 \/ i \in 0..m
      BY <2>0
    <3> QED
      BY <2>1, <2>3, <3>1
  <2>5. ASSUME NEW i \in 0..m + 1
        PROVE  g[i] = IF i = 0 THEN a ELSE F[<<i, g[i - 1]>>]
    <3>1. CASE i = m + 1
      <4>1. i # 0 /\ i - 1 = m /\ m \in 0..m + 1 /\ m # m + 1
        BY <2>0, <3>1
      <4>2. g[i - 1] = f[m]
        BY <4>1
      <4> QED
        BY <3>1, <4>1, <4>2
    <3>2. CASE i # m + 1
      <4>1. i \in 0..m /\ g[i] = f[i]
        BY <2>0, <3>2
      <4>2. f[i] = IF i = 0 THEN a ELSE F[<<i, f[i - 1]>>]
        BY <2>1, <4>1 DEF Unfolds
      <4>3. i # 0 => i - 1 \in 0..m + 1 /\ i - 1 # m + 1
        BY <2>0, <3>2
      <4>4. i # 0 => g[i - 1] = f[i - 1]
        BY <4>3
      <4> HIDE DEF g
      <4> QED
        BY <4>1, <4>2, <4>4
    <3> QED
      BY <3>1, <3>2
  <2> HIDE DEF g
  <2> QED
    BY <2>4, <2>5 DEF Unfolds
<1>3. T = Nat
  <2>1. T \in SUBSET Nat
    OBVIOUS
  <2> HIDE DEF T
  <2> QED
    BY <1>1, <1>2, <2>1, SetInduction
<1> QED
  BY <1>3

--------------------------------------------------------------------------------
(* The chords that are held.                                               *)

LEMMA OrderTyped == /\ Len(ValueOrder) \in Nat
                    /\ \A i \in 1..Len(ValueOrder) : ValueOrder[i] \in Value
                    /\ \A key \in Keys : KeyValue[key] \in Value
<1>1. ValueOrder \in Seq(Value) /\ KeyValue \in [Keys -> Value]
  BY DockAssumption DEF DockAssumption, Value
<1> QED
  BY <1>1, LenProperties, ElementOfSeq

LEMMA ChordsFinite ==
    ASSUME held \subseteq Keys
    PROVE  /\ IsFiniteSet(Chords) /\ Cardinality(Chords) \in Nat
           /\ Chords \subseteq {ValueOrder[i] : i \in 1..Len(ValueOrder)}
<1> DEFINE N == Len(ValueOrder)
           V == {ValueOrder[i] : i \in 1..N}
           f == [i \in 1..N |-> ValueOrder[i]]
<1>1. N \in Nat
  BY OrderTyped
<1>2. f \in Surjection(1..N, V)
  BY DEF Surjection
<1>3. IsFiniteSet(1..N)
  BY <1>1, FS_Interval
<1>4. IsFiniteSet(V)
  BY <1>2, <1>3, FS_Surjection
<1>5. Chords \in SUBSET V
  BY DockAssumption DEF DockAssumption, Chords
<1>6. IsFiniteSet(Chords)
  BY <1>4, <1>5, FS_Subset
<1>7. Cardinality(Chords) \in Nat
  BY <1>6, FS_CardinalityType
<1> QED
  BY <1>5, <1>6, <1>7

LEMMA ChordHeld ==
    ASSUME NEW v
    PROVE  v \in Chords <=> v.fn /\ \E x \in held : KeyValue[x] = v
BY DEF Chords

--------------------------------------------------------------------------------
(***************************************************************************)
(* The inductive invariant of the keyboard.                                *)
(***************************************************************************)
KType == k \in KbdRec /\ ~k.sig /\ held \subseteq Keys /\ typed \in Nat /\ got \in Nat
InOrder == Orderly => got <= typed /\ Orderliness(k, got, typed)
KInv == KType /\ FnNeverStuck /\ InOrder
NewEdge == Len(k'.rx) > Len(k.rx) => "modem" \in d'.pending /\ (d'.irq => d'.edge)

\* An operation of the keyboard ends.
LEMMA KbdEnds ==
    ASSUME k \in KbdRec, Good(d), NEW c \in KbdRec, Signalled(k, c), Kbd(c)
    PROVE  /\ k' \in KbdRec /\ ~k'.sig /\ k'.fnrefs = c.fnrefs /\ NewEdge
           /\ \A lo, hi \in Nat : Orderliness(c, lo, hi) => Orderliness(k', lo, hi)
<1>1. k' = [c EXCEPT !.sig = FALSE]
  BY DEF Kbd
<1>2. k' \in KbdRec /\ ~k'.sig /\ SameKeys(c, k')
  BY <1>1 DEF KbdRec, SameKeys
<1>3. /\ k'.rx = c.rx /\ k'.fnrefs = c.fnrefs
      /\ \A lo, hi \in Nat : Orderliness(c, lo, hi) => Orderliness(k', lo, hi)
  <2>1. \A e \in KbdRec : SameKeys(c, e) =>
           \A lo, hi \in Nat : Orderliness(c, lo, hi) => Orderliness(e, lo, hi)
    BY NoteGood
  <2> QED
    BY <1>2, <2>1 DEF SameKeys
<1>4. ASSUME Len(c.rx) > Len(k.rx)
      PROVE  "modem" \in d'.pending /\ (d'.irq => d'.edge)
  <2>1. d' = RaiseModem(d)
    BY <1>4 DEF Kbd, Signalled
  <2> QED
    BY <2>1, RaiseModemGood DEF Good
<1>5. NewEdge
  BY <1>3, <1>4 DEF NewEdge
<1> QED
  BY <1>2, <1>3, <1>5

\* An operation that neither counts chords nor takes a key.
LEMMA KbdAside ==
    ASSUME KInv, Good(d), NEW c \in KbdRec, Signalled(k, c), c.fnrefs = k.fnrefs, Kbd(c),
           Orderly => \A lo, hi \in Nat : Orderliness(k, lo, hi) => Orderliness(c, lo, hi),
           UNCHANGED <<held, typed, got, mode>>
    PROVE  KInv' /\ NewEdge
<1>1. /\ k' \in KbdRec /\ ~k'.sig /\ k'.fnrefs = k.fnrefs /\ NewEdge
      /\ \A lo, hi \in Nat : Orderliness(c, lo, hi) => Orderliness(k', lo, hi)
  BY KbdEnds DEF KInv, KType
<1>2. KType'
  BY <1>1 DEF KInv, KType
<1>3. FnNeverStuck'
  BY <1>1 DEF KInv, FnNeverStuck, Chords
<1>4. InOrder'
  <2> SUFFICES ASSUME Orderly' PROVE (got <= typed /\ Orderliness(k, got, typed))'
    BY DEF InOrder
  <2>1. Orderly /\ got \in Nat /\ typed \in Nat
    BY DEF Orderly, KInv, KType
  <2>2. got <= typed /\ Orderliness(k, got, typed)
    BY <2>1 DEF KInv, InOrder
  <2>3. Orderliness(k', got, typed)
    BY <1>1, <2>1, <2>2
  <2>4. Orderliness(k, got, typed)' <=> Orderliness(k', got', typed')
    BY DEF Orderliness, Handshake, Ascending, Before
  <2> QED
    BY <2>2, <2>3, <2>4
<1> QED
  BY <1>1, <1>2, <1>3, <1>4 DEF KInv

\* A key event ends, with its chords counted.
LEMMA KeyEnds ==
    ASSUME KInv, Good(d), NEW c \in KbdRec, Signalled(k, c), Kbd(c),
           held' \subseteq Keys, c.fnrefs <= Cardinality(Chords'), typed' = typed + 1,
           \A lo, hi \in Nat : Orderliness(k, lo, hi) /\ lo <= typed + 1 /\ hi <= typed + 1
              => Orderliness(c, lo, typed + 1),
           UNCHANGED <<got, mode>>
    PROVE  KInv' /\ NewEdge
<1>1. /\ k' \in KbdRec /\ ~k'.sig /\ k'.fnrefs = c.fnrefs /\ NewEdge
      /\ \A lo, hi \in Nat : Orderliness(c, lo, hi) => Orderliness(k', lo, hi)
  BY KbdEnds DEF KInv, KType
<1>2. KType'
  BY <1>1 DEF KInv, KType
<1>3. FnNeverStuck'
  BY <1>1 DEF FnNeverStuck
<1>4. InOrder'
  <2> SUFFICES ASSUME Orderly' PROVE (got <= typed /\ Orderliness(k, got, typed))'
    BY DEF InOrder
  <2>1. Orderly /\ got \in Nat /\ typed \in Nat /\ typed + 1 \in Nat
    BY DEF Orderly, KInv, KType
  <2>2. got <= typed /\ Orderliness(k, got, typed)
    BY <2>1 DEF KInv, InOrder
  <2>3. got <= typed + 1 /\ typed <= typed + 1
    BY <2>1, <2>2
  <2>4. Orderliness(c, got, typed + 1)
    BY <2>1, <2>2, <2>3
  <2>5. Orderliness(k', got, typed + 1)
    BY <1>1, <2>1, <2>4
  <2>6. Orderliness(k, got, typed)' <=> Orderliness(k', got', typed')
    BY DEF Orderliness, Handshake, Ascending, Before
  <2> QED
    BY <2>3, <2>5, <2>6
<1> QED
  BY <1>1, <1>2, <1>3, <1>4 DEF KInv

\* The keyboard is not concerned, or has only been polled.
LEMMA KbdStill ==
    ASSUME KInv, k' = k \/ k' = KbdTakeWait(k), UNCHANGED <<held, typed, got, mode>>
    PROVE  KInv' /\ NewEdge
<1>1. /\ k' \in KbdRec /\ ~k'.sig /\ k'.rx = k.rx /\ k'.fnrefs = k.fnrefs
      /\ \A lo, hi \in Nat : Orderliness(k, lo, hi) => Orderliness(k', lo, hi)
  <2>1. CASE k' = k
    BY <2>1 DEF KInv, KType
  <2>2. CASE k' = KbdTakeWait(k)
    <3>1. k.delivered + 1 \in Nat
      BY DEF KInv, KType, KbdRec
    <3>2. k' = [k EXCEPT !.delivered = k.delivered + 1]
      BY <2>2 DEF KbdTakeWait
    <3>3. k' \in KbdRec /\ ~k'.sig /\ SameKeys(k, k')
      BY <3>1, <3>2 DEF KInv, KType, KbdRec, SameKeys
    <3>4. \A e \in KbdRec : SameKeys(k, e) =>
             \A lo, hi \in Nat : Orderliness(k, lo, hi) => Orderliness(e, lo, hi)
      BY NoteGood DEF KInv, KType
    <3> QED
      BY <3>3, <3>4 DEF SameKeys
  <2> QED
    BY <2>1, <2>2
<1>2. NewEdge
  <2>1. Len(k.rx) \in Nat
    BY LenProperties DEF KInv, KType, KbdRec
  <2> QED
    BY <1>1, <2>1 DEF NewEdge
<1>3. KType' /\ FnNeverStuck'
  BY <1>1 DEF KInv, KType, FnNeverStuck, Chords
<1>4. InOrder'
  <2> SUFFICES ASSUME Orderly' PROVE (got <= typed /\ Orderliness(k, got, typed))'
    BY DEF InOrder
  <2>1. Orderly /\ got \in Nat /\ typed \in Nat
    BY DEF Orderly, KInv, KType
  <2>2. got <= typed /\ Orderliness(k, got, typed)
    BY <2>1 DEF KInv, InOrder
  <2>3. Orderliness(k', got, typed)
    BY <1>1, <2>1, <2>2
  <2>4. Orderliness(k, got, typed)' <=> Orderliness(k', got', typed')
    BY DEF Orderliness, Handshake, Ascending, Before
  <2> QED
    BY <2>2, <2>3, <2>4
<1> QED
  BY <1>2, <1>3, <1>4 DEF KInv

\* A key that another one of the same value makes silent.
LEMMA UntypedKey ==
    ASSUME KInv, k' = k, typed' = typed, held' \subseteq Keys, Chords' = Chords,
           UNCHANGED <<got, mode>>
    PROVE  KInv' /\ NewEdge
<1>1. NewEdge
  <2>1. Len(k.rx) \in Nat
    BY LenProperties DEF KInv, KType, KbdRec
  <2> QED
    BY <2>1 DEF NewEdge
<1>2. KType' /\ FnNeverStuck'
  BY DEF KInv, KType, FnNeverStuck
<1>3. InOrder'
  <2>1. Orderliness(k, got, typed)' <=> Orderliness(k', got', typed')
    BY DEF Orderliness, Handshake, Ascending, Before
  <2> QED
    BY <2>1 DEF KInv, InOrder, Orderly
<1> QED
  BY <1>1, <1>2, <1>3 DEF KInv

--------------------------------------------------------------------------------
(* The guest's steps.                                                      *)

LEMMA KGuestStep ==
    ASSUME KInv, Good(d), Guest PROVE KInv' /\ NewEdge
<1>0. k \in KbdRec /\ got \in Nat /\ typed \in Nat
  BY DEF KInv, KType
<1>1. CASE GuestLooks \/ GuestPccard \/ GuestEdge \/ GuestLive \/ GuestMask \/ GuestAcks
           \/ UartSignals \/ GuestReadsCable \/ GuestStatus
  <2>1. /\ k' = k \/ k' = KbdTakeWait(k)
        /\ UNCHANGED <<held, typed, got, mode>>
    BY <1>1 DEF GuestLooks, GuestPccard, GuestEdge, GuestLive, GuestMask, GuestAcks,
                UartSignals, GuestReadsCable, GuestStatus, Slice, Latch, KbdStatusWrite, KbdCheck
  <2> QED
    BY <2>1, KbdStill
<1>2. CASE GuestResetsCpu
  <2>1. k' = KbdReset(k.fnrefs) /\ UNCHANGED <<held, typed, got, mode>>
    BY <1>2 DEF GuestResetsCpu, Slice
  <2>2. k.fnrefs \in Nat
    BY <1>0 DEF KbdRec
  <2>3. /\ k' \in KbdRec /\ ~k'.sig /\ k'.rx = <<>> /\ k'.fnrefs = k.fnrefs
        /\ \A lo, hi \in Nat : Orderliness(k', lo, hi)
    BY <2>1, <2>2, ResetGood
  <2>4. NewEdge
    <3>1. Len(k.rx) \in Nat
      BY <1>0, LenProperties DEF KbdRec
    <3>2. Len(<<>>) = 0
      BY EmptySeq
    <3> QED
      BY <2>3, <3>1, <3>2 DEF NewEdge
  <2>5. KType' /\ FnNeverStuck'
    BY <2>1, <2>3 DEF KInv, KType, FnNeverStuck, Chords
  <2>6. InOrder'
    <3>1. Orderliness(k, got, typed)' <=> Orderliness(k', got', typed')
      BY DEF Orderliness, Handshake, Ascending, Before
    <3> QED
      BY <1>0, <2>1, <2>3, <3>1 DEF KInv, InOrder, Orderly
  <2> QED
    BY <2>4, <2>5, <2>6 DEF KInv
<1>3. CASE GuestPops
  <2> DEFINE c == KbdPop(k)
             h == Head(k.rx)
             l == IF IsKey(h) THEN h.n ELSE got
  <2>1. Kbd(c) /\ got' = l /\ k.rx # <<>> /\ UNCHANGED <<held, typed, mode>>
    BY <1>3 DEF GuestPops, Keyboard, Slice
  <2>2. /\ c \in KbdRec /\ Signalled(k, c) /\ c.fnrefs = k.fnrefs /\ h \in KbdByte
        /\ \A lo, hi \in Nat : Orderliness(k, lo, hi)
             => /\ Orderliness(c, IF IsKey(h) THEN h.n ELSE lo, hi)
                /\ IsKey(h) => lo <= h.n /\ h.n <= hi
    BY <1>0, <2>1, PopGood
  <2> HIDE DEF c, h
  <2>3. /\ k' \in KbdRec /\ ~k'.sig /\ k'.fnrefs = k.fnrefs /\ NewEdge
        /\ \A lo, hi \in Nat : Orderliness(c, lo, hi) => Orderliness(k', lo, hi)
    BY <1>0, <2>1, <2>2, KbdEnds
  <2>4. l \in Nat
    BY <1>0, <2>2 DEF KbdByte
  <2>5. KType' /\ FnNeverStuck'
    BY <2>1, <2>3, <2>4 DEF KInv, KType, FnNeverStuck, Chords
  <2>6. InOrder'
    <3> SUFFICES ASSUME Orderly' PROVE (got <= typed /\ Orderliness(k, got, typed))'
      BY DEF InOrder
    <3>1. got <= typed /\ Orderliness(k, got, typed)
      BY <2>1 DEF Orderly, KInv, InOrder
    <3>2. Orderliness(c, l, typed) /\ l <= typed
      BY <1>0, <2>2, <3>1
    <3>3. Orderliness(k', l, typed)
      BY <1>0, <2>3, <2>4, <3>2
    <3>4. Orderliness(k, got, typed)' <=> Orderliness(k', got', typed')
      BY DEF Orderliness, Handshake, Ascending, Before
    <3> HIDE DEF l
    <3> QED
      BY <2>1, <3>2, <3>3, <3>4
  <2> QED
    BY <2>3, <2>5, <2>6 DEF KInv
<1>4. CASE GuestClears
  <2>1. Kbd(KbdClear(k)) /\ (Orderly => ~k.ackp) /\ UNCHANGED <<held, typed, got, mode>>
    BY <1>4 DEF GuestClears, Keyboard, Slice
  <2>2. /\ KbdClear(k) \in KbdRec /\ Signalled(k, KbdClear(k))
        /\ KbdClear(k).fnrefs = k.fnrefs
        /\ ~k.ackp => \A lo, hi \in Nat : Orderliness(k, lo, hi) => Orderliness(KbdClear(k), lo, hi)
    BY <1>0, ClearGood
  <2> QED
    BY <2>1, <2>2, KbdAside
<1>5. CASE GuestLines
  <2>1. PICK dtr \in BOOLEAN, rts \in BOOLEAN :
           (Orderly => OrderlyLines(k, dtr, rts)) /\ Kbd(KbdModemControl(k, dtr, rts))
    BY <1>5 DEF GuestLines, OrderlyLines
  <2>2. UNCHANGED <<held, typed, got, mode>>
    BY <1>5 DEF GuestLines, Keyboard, Slice
  <2> DEFINE c == KbdModemControl(k, dtr, rts)
  <2>3. /\ c \in KbdRec /\ Signalled(k, c) /\ c.fnrefs = k.fnrefs
        /\ OrderlyLines(k, dtr, rts) =>
              \A lo, hi \in Nat : Orderliness(k, lo, hi) => Orderliness(c, lo, hi)
    BY <1>0, LinesGood
  <2> HIDE DEF c
  <2>4. Kbd(c)
    BY <2>1 DEF c
  <2> QED
    BY <2>1, <2>2, <2>3, <2>4, KbdAside
<1>6. CASE GuestWaits \/ GuestDelta
  <2>1. PICK e \in KbdRec : SameKeys(k, e) /\ e.sig = k.sig /\ Kbd(e)
    <3>1. /\ KbdModemWait(k) \in KbdRec /\ SameKeys(k, KbdModemWait(k))
          /\ KbdModemWait(k).sig = k.sig
      BY <1>0 DEF KbdModemWait, KbdRec, SameKeys
    <3>2. /\ KbdTakeDelta(k) \in KbdRec /\ SameKeys(k, KbdTakeDelta(k))
          /\ KbdTakeDelta(k).sig = k.sig
      BY <1>0 DEF KbdTakeDelta, KbdRec, SameKeys
    <3> QED
      BY <1>6, <3>1, <3>2 DEF GuestWaits, GuestDelta
  <2>2. /\ e.fnrefs = k.fnrefs /\ Signalled(k, e)
        /\ \A lo, hi \in Nat : Orderliness(k, lo, hi) => Orderliness(e, lo, hi)
    BY <1>0, <2>1, NoteGood DEF SameKeys
  <2>3. UNCHANGED <<held, typed, got, mode>>
    BY <1>6 DEF GuestWaits, GuestDelta, Keyboard, Slice
  <2> QED
    BY <2>1, <2>2, <2>3, KbdAside
<1>7. CASE GuestConfig
  <2> DEFINE c == KbdReset(k.fnrefs)
  <2>1. Kbd(c) /\ UNCHANGED <<held, typed, got, mode>>
    BY <1>7 DEF GuestConfig, Keyboard, Slice, KbdPortConfig
  <2>2. k.fnrefs \in Nat
    BY <1>0 DEF KbdRec
  <2>3. /\ c \in KbdRec /\ c.rx = <<>> /\ c.fnrefs = k.fnrefs
        /\ \A lo, hi \in Nat : Orderliness(c, lo, hi)
    BY <2>2, ResetGood
  <2> HIDE DEF c
  <2>4. Signalled(k, c)
    <3>1. Len(k.rx) \in Nat
      BY <1>0, LenProperties DEF KbdRec
    <3>2. Len(<<>>) = 0
      BY EmptySeq
    <3> QED
      BY <2>3, <3>1, <3>2 DEF Signalled, KInv, KType
  <2> QED
    BY <2>1, <2>3, <2>4, KbdAside
<1> QED
  BY <1>1, <1>2, <1>3, <1>4, <1>5, <1>6, <1>7 DEF Guest

--------------------------------------------------------------------------------
(* The user's steps.                                                       *)

LEMMA KeyDownStep ==
    ASSUME KInv, Good(d), KeyDown PROVE KInv' /\ NewEdge
<1>1. PICK key \in Keys \ held :
         /\ held' = held \cup {key}
         /\ IF SameValue(key) = {} THEN typed < MaxTyped /\ typed' = typed + 1
                                        /\ Kbd(PressMapped(k, KeyValue[key], typed + 1))
                                   ELSE UNCHANGED <<d, k, typed>>
  BY DEF KeyDown
<1> DEFINE v == KeyValue[key]
<1>2. /\ k \in KbdRec /\ ~k.sig /\ held \subseteq Keys /\ typed \in Nat /\ typed + 1 \in Nat
      /\ held' \subseteq Keys /\ v \in Value /\ v.fn \in BOOLEAN /\ k.fnrefs \in Nat
      /\ UNCHANGED <<got, mode>>
  BY <1>1, OrderTyped DEF KInv, KType, KbdRec, Value, KeyDown, Ui
<1>3. IsFiniteSet(Chords) /\ Cardinality(Chords) \in Nat
  BY <1>2, ChordsFinite
<1>4. Chords' = IF v.fn THEN Chords \cup {v} ELSE Chords
  BY <1>1, <1>2 DEF Chords
<1>5. CASE SameValue(key) = {}
  <2> DEFINE c == PressMapped(k, v, typed + 1)
  <2>1. /\ c \in KbdRec /\ Signalled(k, c)
        /\ c.fnrefs <= k.fnrefs + (IF v.fn THEN 1 ELSE 0)
        /\ \A lo, hi \in Nat : Orderliness(k, lo, hi) /\ lo <= typed + 1 /\ hi <= typed + 1
              => Orderliness(c, lo, typed + 1)
    BY <1>2, PressGood
  <2>2. typed' = typed + 1 /\ Kbd(c)
    BY <1>1, <1>5
  <2> HIDE DEF c
  <2>3. c.fnrefs <= Cardinality(Chords')
    <3>0. c.fnrefs \in Nat /\ k.fnrefs <= Cardinality(Chords)
      BY <2>1 DEF KbdRec, KInv, FnNeverStuck
    <3>1. CASE v.fn
      <4>1. v \notin Chords
        BY <1>5 DEF Chords, SameValue
      <4>2. Cardinality(Chords \cup {v}) = Cardinality(Chords) + 1
        BY <1>3, <4>1, FS_AddElement
      <4> QED
        BY <1>2, <1>3, <1>4, <2>1, <3>0, <3>1, <4>2
    <3>2. CASE ~v.fn
      BY <1>2, <1>3, <1>4, <2>1, <3>0, <3>2
    <3> QED
      BY <3>1, <3>2
  <2> QED
    BY <1>2, <2>1, <2>2, <2>3, KeyEnds
<1>6. CASE SameValue(key) # {}
  <2>1. k' = k /\ typed' = typed
    BY <1>1, <1>6
  <2>2. v.fn => v \in Chords
    BY <1>6 DEF Chords, SameValue
  <2>3. Chords' = Chords
    BY <1>2, <1>4, <2>2
  <2> QED
    BY <1>2, <2>1, <2>3, UntypedKey
<1> QED
  BY <1>5, <1>6

LEMMA KeyUpStep ==
    ASSUME KInv, Good(d), KeyUp PROVE KInv' /\ NewEdge
<1>1. PICK key \in held :
         /\ held' = held \ {key}
         /\ IF SameValue(key) = {key} THEN typed < MaxTyped /\ typed' = typed + 1
                                           /\ Kbd(ReleaseMapped(k, KeyValue[key], typed + 1))
                                      ELSE UNCHANGED <<d, k, typed>>
  BY DEF KeyUp
<1> DEFINE v == KeyValue[key]
<1>2. /\ k \in KbdRec /\ ~k.sig /\ held \subseteq Keys /\ typed \in Nat /\ typed + 1 \in Nat
      /\ held' \subseteq Keys /\ v \in Value /\ v.fn \in BOOLEAN /\ k.fnrefs \in Nat
      /\ UNCHANGED <<got, mode>>
  BY <1>1, OrderTyped DEF KInv, KType, KbdRec, Value, KeyUp, Ui
<1>3. IsFiniteSet(Chords) /\ Cardinality(Chords) \in Nat
  BY <1>2, ChordsFinite
<1>5. CASE SameValue(key) = {key}
  <2> DEFINE c == ReleaseMapped(k, v, typed + 1)
  <2>1. /\ c \in KbdRec /\ Signalled(k, c)
        /\ c.fnrefs = IF v.fn /\ k.fnrefs > 0 THEN k.fnrefs - 1 ELSE k.fnrefs
        /\ \A lo, hi \in Nat : Orderliness(k, lo, hi) /\ lo <= typed + 1 /\ hi <= typed + 1
              => Orderliness(c, lo, typed + 1)
    BY <1>2, ReleaseGood
  <2>2. typed' = typed + 1 /\ Kbd(c)
    BY <1>1, <1>5
  <2> HIDE DEF c
  <2>3. c.fnrefs <= Cardinality(Chords')
    <3>0. k.fnrefs <= Cardinality(Chords)
      BY DEF KInv, FnNeverStuck
    <3>1. CASE v.fn
      <4>1. v \in Chords
        BY <1>1, <3>1 DEF Chords
      <4>2. Chords' = Chords \ {v}
        <5>1. \A x \in held : KeyValue[x] = v => x = key
          BY <1>5 DEF SameValue
        <5> QED
          BY <1>1, <5>1 DEF Chords
      <4>3. Cardinality(Chords \ {v}) = Cardinality(Chords) - 1
            /\ Cardinality(Chords \ {v}) \in Nat
        BY <1>3, <4>1, FS_RemoveElement, FS_CardinalityType
      <4> QED
        BY <1>2, <1>3, <2>1, <3>0, <3>1, <4>2, <4>3
    <3>2. CASE ~v.fn
      <4>1. Chords' = Chords
        BY <1>1, <3>2 DEF Chords
      <4> QED
        BY <1>2, <1>3, <2>1, <3>0, <3>2, <4>1
    <3> QED
      BY <3>1, <3>2
  <2> QED
    BY <1>2, <2>1, <2>2, <2>3, KeyEnds
<1>6. CASE SameValue(key) # {key}
  <2>1. k' = k /\ typed' = typed
    BY <1>1, <1>6
  <2>2. \E x \in held : x # key /\ KeyValue[x] = v
    BY <1>1, <1>6 DEF SameValue
  <2>3. Chords' = Chords
    BY <1>1, <2>2 DEF Chords
  <2> QED
    BY <1>2, <2>1, <2>3, UntypedKey
<1> QED
  BY <1>5, <1>6

(***************************************************************************)
(* The loss of the focus releases each value that is held, and takes back  *)
(* a reference for each chord.                                             *)
(***************************************************************************)
Held(i) == \E x \in held : KeyValue[x] = ValueOrder[i]

LEMMA ReleasedSteps ==
    ASSUME k \in KbdRec, typed \in Nat
    PROVE  \A i \in 0..Len(ValueOrder) :
              Released[i] = IF i = 0 THEN k
                            ELSE IF Held(i) THEN ReleaseMapped(Released[i - 1], ValueOrder[i], typed + 1)
                            ELSE Released[i - 1]
<1> DEFINE N == Len(ValueOrder)
           m == typed + 1
           F == [p \in (1..N) \X KbdRec |->
                   IF Held(p[1]) THEN ReleaseMapped(p[2], ValueOrder[p[1]], m) ELSE p[2]]
           Next1(f) == [i \in 0..N |->
                          IF i = 0 THEN k
                          ELSE IF \E x \in held : KeyValue[x] = ValueOrder[i]
                          THEN ReleaseMapped(f[i - 1], ValueOrder[i], typed + 1)
                          ELSE f[i - 1]]
<1>1. N \in Nat /\ m \in Nat
  BY OrderTyped
<1>2. F \in [(1..N) \X KbdRec -> KbdRec]
  <2>1. ASSUME NEW p \in (1..N) \X KbdRec
        PROVE  (IF Held(p[1]) THEN ReleaseMapped(p[2], ValueOrder[p[1]], m) ELSE p[2]) \in KbdRec
    <3>1. p[1] \in 1..N /\ p[2] \in KbdRec
      OBVIOUS
    <3>2. ValueOrder[p[1]] \in Value
      BY <3>1, OrderTyped
    <3>3. ReleaseMapped(p[2], ValueOrder[p[1]], m) \in KbdRec
      BY <1>1, <3>1, <3>2, ReleaseGood
    <3> QED
      BY <3>1, <3>3
  <2> QED
    BY <2>1
<1> HIDE DEF F
<1>3. PICK f \in [0..N -> KbdRec] : Unfolds(f, N, k, F)
  <2> HIDE DEF N
  <2> QED BY <1>1, <1>2, Recursion
<1>4. f = Next1(f)
  <2>1. ASSUME NEW i \in 0..N, i # 0
        PROVE  F[<<i, f[i - 1]>>] =
                  IF Held(i) THEN ReleaseMapped(f[i - 1], ValueOrder[i], m) ELSE f[i - 1]
    <3>1. i \in 1..N /\ i - 1 \in 0..N
      BY <1>1, <2>1
    <3>2. <<i, f[i - 1]>> \in (1..N) \X KbdRec
      BY <1>3, <3>1
    <3> QED
      BY <3>2 DEF F
  <2>2. ASSUME NEW i \in 0..N PROVE f[i] = Next1(f)[i]
    BY <1>3, <2>1, <2>2 DEF Held, Unfolds
  <2> QED
    BY <1>3, <2>2
<1>5. Released = CHOOSE g : g = Next1(g)
  BY DEF Released
<1>6. Released = Next1(Released)
  <2> HIDE DEF Next1
  <2> QED BY <1>4, <1>5
<1>7. \A i \in 0..N : Released[i] = Next1(Released)[i]
  <2> HIDE DEF Next1
  <2> QED BY <1>6
<1> HIDE DEF Released
<1> QED
  BY <1>7 DEF Held

\* What the first i values have left to take back.
Left(i) == Chords \ {ValueOrder[j] : j \in 1..i}
Freed(i) ==
    /\ Released[i] \in KbdRec /\ Signalled(k, Released[i])
    /\ Released[i].fnrefs <= Cardinality(Left(i))
    /\ \A lo, hi \in Nat : Orderliness(k, lo, hi) /\ lo <= typed + 1 /\ hi <= typed + 1
         => Orderliness(Released[i], lo, hi) \/ Orderliness(Released[i], lo, typed + 1)

LEMMA ReleasedGood ==
    ASSUME KInv PROVE \A i \in 0..Len(ValueOrder) : Freed(i)
<1> DEFINE N == Len(ValueOrder)
           T == {i \in Nat : i <= N => Freed(i)}
<1>0. /\ N \in Nat /\ k \in KbdRec /\ typed \in Nat /\ typed + 1 \in Nat /\ held \subseteq Keys
      /\ k.fnrefs <= Cardinality(Chords) /\ IsFiniteSet(Chords)
  BY OrderTyped, ChordsFinite DEF KInv, KType, FnNeverStuck
<1>1. 0 \in T
  <2>1. Released[0] = k
    BY <1>0, ReleasedSteps
  <2>2. Left(0) = Chords
    BY DEF Left
  <2>3. Signalled(k, k)
    <3>1. Len(k.rx) \in Nat
      BY <1>0, LenProperties DEF KbdRec
    <3> QED
      BY <3>1 DEF Signalled
  <2>4. Freed(0)
    BY <1>0, <2>1, <2>2, <2>3 DEF Freed
  <2> QED
    BY <2>4
<1>2. ASSUME NEW i \in T PROVE i + 1 \in T
  <2> SUFFICES ASSUME i + 1 <= N PROVE Freed(i + 1)
    OBVIOUS
  <2> DEFINE c == Released[i]
             v == ValueOrder[i + 1]
             e == Released[i + 1]
             m == typed + 1
  <2>0. i \in Nat /\ i + 1 \in 0..N /\ i + 1 \in 1..N /\ i + 1 # 0 /\ (i + 1) - 1 = i /\ i <= N
    BY <1>0
  <2>1. Freed(i)
    BY <2>0
  <2>2. e = IF Held(i + 1) THEN ReleaseMapped(c, v, m) ELSE c
    BY <1>0, <2>0, ReleasedSteps
  <2>3. c \in KbdRec /\ Signalled(k, c) /\ c.fnrefs <= Cardinality(Left(i)) /\ c.fnrefs \in Nat
    BY <2>1 DEF Freed, KbdRec
  <2>4. v \in Value /\ v.fn \in BOOLEAN
    BY <2>0, OrderTyped DEF Value
  <2>5. IsFiniteSet(Left(i)) /\ Cardinality(Left(i)) \in Nat
    <3>1. Left(i) \in SUBSET Chords
      BY DEF Left
    <3> QED
      BY <1>0, <3>1, FS_Subset, FS_CardinalityType
  <2>6. Left(i + 1) = Left(i) \ {v}
    <3>1. 1..(i + 1) = (1..i) \cup {i + 1}
      BY <2>0
    <3> QED
      BY <3>1 DEF Left
  <2>7. /\ Cardinality(Left(i + 1)) \in Nat
        /\ Cardinality(Left(i + 1)) = IF v \in Left(i) THEN Cardinality(Left(i)) - 1
                                      ELSE Cardinality(Left(i))
    BY <2>5, <2>6, FS_RemoveElement, FS_CardinalityType
  <2>8. v \in Chords <=> v.fn /\ Held(i + 1)
    BY <2>4 DEF Chords, Held
  <2>9. v \in Left(i) => v \in Chords
    BY DEF Left
  <2>10. CASE Held(i + 1)
    <3> DEFINE r == ReleaseMapped(c, v, m)
    <3>1. /\ r \in KbdRec /\ Signalled(c, r)
          /\ r.fnrefs = IF v.fn /\ c.fnrefs > 0 THEN c.fnrefs - 1 ELSE c.fnrefs
          /\ \A lo, hi \in Nat : Orderliness(c, lo, hi) /\ lo <= m /\ hi <= m
                => Orderliness(r, lo, m)
      BY <1>0, <2>3, <2>4, ReleaseGood
    <3>2. e = r
      BY <2>2, <2>10
    <3> HIDE DEF r, c, e
    <3>3. Signalled(k, r)
      BY <1>0, <2>3, <3>1, SignalledTwice
    <3>4. r.fnrefs <= Cardinality(Left(i + 1))
      BY <2>3, <2>4, <2>5, <2>7, <2>8, <2>9, <3>1
    <3>5. ASSUME NEW lo \in Nat, NEW hi \in Nat, Orderliness(k, lo, hi), lo <= m, hi <= m
          PROVE  Orderliness(r, lo, m)
      <4>1. Orderliness(c, lo, hi) \/ Orderliness(c, lo, m)
        BY <2>1, <3>5 DEF Freed, c
      <4>2. m <= m
        BY <1>0
      <4> QED
        BY <1>0, <3>1, <3>5, <4>1, <4>2
    <3> QED
      BY <3>1, <3>2, <3>3, <3>4, <3>5 DEF Freed, e
  <2>11. CASE ~Held(i + 1)
    <3>1. e = c
      BY <2>2, <2>11
    <3>2. Cardinality(Left(i + 1)) = Cardinality(Left(i))
      BY <2>7, <2>8, <2>9, <2>11
    <3> QED
      BY <2>1, <3>1, <3>2 DEF Freed
  <2> QED
    BY <2>10, <2>11
<1>3. T = Nat
  <2>1. T \in SUBSET Nat
    OBVIOUS
  <2> HIDE DEF T
  <2> QED
    BY <1>1, <1>2, <2>1, SetInduction
<1> QED
  BY <1>0, <1>3

LEMMA FocusLostStep ==
    ASSUME KInv, Good(d), FocusLost PROVE KInv' /\ NewEdge
<1> DEFINE N == Len(ValueOrder)
           c == Released[N]
<1>1. /\ held' = {} /\ typed' = typed + 1 /\ Kbd(c) /\ UNCHANGED <<got, mode>>
  BY DEF FocusLost, Ui
<1>2. k \in KbdRec /\ N \in Nat /\ typed \in Nat /\ typed + 1 \in Nat /\ held \subseteq Keys
  BY OrderTyped DEF KInv, KType
<1>3. Freed(N)
  <2>1. N \in 0..N
    BY <1>2
  <2> QED
    BY <2>1, ReleasedGood
<1>4. c \in KbdRec /\ Signalled(k, c) /\ c.fnrefs <= Cardinality(Left(N))
  BY <1>3 DEF Freed
<1>5. Left(N) = {} /\ Chords' = {}
  BY <1>1, <1>2, ChordsFinite DEF Left, Chords
<1>6. c.fnrefs <= Cardinality(Chords')
  BY <1>4, <1>5
<1>7. ASSUME NEW lo \in Nat, NEW hi \in Nat, Orderliness(k, lo, hi), lo <= typed + 1, hi <= typed + 1
      PROVE  Orderliness(c, lo, typed + 1)
  BY <1>2, <1>3, <1>4, <1>7, Widened DEF Freed
<1>8. held' \subseteq Keys
  BY <1>1
<1> HIDE DEF c
<1> QED
  BY <1>1, <1>4, <1>6, <1>7, <1>8, KeyEnds

--------------------------------------------------------------------------------
(* The dock and its keyboard.                                              *)

AllInv == KInv /\ Good(d)

LEMMA AllInvNext == AllInv /\ [Next]_vars => AllInv' /\ [NewEdge]_vars
<1> SUFFICES ASSUME KInv, Good(d), [Next]_vars PROVE KInv' /\ Good(d)' /\ [NewEdge]_vars
  BY DEF AllInv
<1>1. Good(d)'
  BY IInvNext DEF IInv
<1>2. CASE Guest
  BY <1>1, <1>2, KGuestStep
<1>3. CASE KeyDown
  BY <1>1, <1>3, KeyDownStep
<1>4. CASE KeyUp
  BY <1>1, <1>4, KeyUpStep
<1>5. CASE FocusLost
  BY <1>1, <1>5, FocusLostStep
<1>6. CASE SliceEnds \/ Poll \/ Tick \/ TimePasses \/ UNCHANGED vars
  <2>1. k' = k \/ k' = KbdTakeWait(k)
    BY <1>6 DEF SliceEnds, Poll, Tick, TimePasses, vars, KbdCheck
  <2>2. UNCHANGED <<held, typed, got, mode>>
    BY <1>6 DEF SliceEnds, Poll, Tick, TimePasses, vars
  <2> QED
    BY <1>1, <2>1, <2>2, KbdStill
<1> QED
  BY <1>2, <1>3, <1>4, <1>5, <1>6 DEF Next

LEMMA AllInvInit == Init => AllInv
<1> SUFFICES ASSUME Init PROVE AllInv
  OBVIOUS
<1>1. k = KbdReset(0) /\ held = {} /\ typed = 0 /\ got = 0
  BY DEF Init
<1>2. /\ k \in KbdRec /\ ~k.sig /\ k.fnrefs = 0
      /\ \A lo, hi \in Nat : Orderliness(k, lo, hi)
  BY <1>1, ResetGood
<1>3. KType
  BY <1>1, <1>2 DEF KType
<1>4. FnNeverStuck
  <2>1. Chords = {}
    BY <1>1 DEF Chords
  <2> QED
    BY <1>2, <2>1, FS_EmptySet DEF FnNeverStuck
<1>5. InOrder
  BY <1>1, <1>2 DEF InOrder
<1>6. Good(d)
  BY IInvInit DEF IInv
<1> QED
  BY <1>3, <1>4, <1>5, <1>6 DEF AllInv, KInv

LEMMA TypedInOrder == KInv => InTypingOrder
<1> SUFFICES ASSUME KInv, Orderly
             PROVE  LET q == k.rx \o k.pend
                        KeysOf == {i \in 1..Len(q) : IsKey(q[i])} IN
                    \A i, j \in KeysOf : got <= q[i].n /\ (i <= j => q[i].n <= q[j].n)
  BY DEF InTypingOrder
<1> DEFINE q == k.rx \o k.pend
<1>1. /\ k.rx \in Seq(KbdByte) /\ k.pend \in Seq(KbdByte) /\ got \in Nat /\ typed \in Nat
      /\ Orderliness(k, got, typed)
  BY DEF KInv, KType, KbdRec, InOrder
<1>2. Ascending(q, got, typed) /\ q \in Seq(KbdByte)
  BY <1>1, ConcatOrdered DEF Orderliness
<1> HIDE DEF q
<1>3. ASSUME NEW i \in 1..Len(q), NEW j \in 1..Len(q), IsKey(q[i]), IsKey(q[j])
      PROVE  got <= q[i].n /\ (i <= j => q[i].n <= q[j].n)
  <2>1. Len(q) \in Nat
    BY <1>2, LenProperties
  <2>2. i <= j => j \in i..Len(q)
    BY <2>1
  <2> QED
    BY <1>2, <1>3, <2>2 DEF Ascending
<1> QED
  BY <1>3 DEF q

(***************************************************************************)
(* The dock holds Fn for no more than the chords the user holds, through   *)
(* refused keys, resets and the loss of the focus                          *)
(* (stowaway_queue_mapped_key, ui_stowaway_release_keys).                  *)
(***************************************************************************)
THEOREM FnNeverSticks == Spec => []FnNeverStuck
<1>1. AllInv => FnNeverStuck
  BY DEF AllInv, KInv
<1> QED
  BY <1>1, AllInvInit, AllInvNext, PTL DEF Spec

(***************************************************************************)
(* An orderly driver reads keys in the order of typing: what the ring and  *)
(* the keys held back behind it contain is one queue, and no key in it is  *)
(* older than the one last read (stowaway_queue_key,                       *)
(* stowaway_flush_pending_keys, stowaway_uart_rx_pop).                     *)
(***************************************************************************)
THEOREM KeysInOrder == Spec => []InTypingOrder
<1>1. AllInv => InTypingOrder
  BY TypedInOrder DEF AllInv
<1> QED
  BY <1>1, AllInvInit, AllInvNext, PTL DEF Spec

(***************************************************************************)
(* Every step that leaves more bytes in the ring raises the modem event,   *)
(* with an edge on a line that is up (be300_stowaway_signal_uart_irq).     *)
(***************************************************************************)
THEOREM NewBytesAreEdges == Spec => NewByteIsAnEdge
<1>1. [NewEdge]_vars <=>
        [Len(k'.rx) > Len(k.rx) => "modem" \in d'.pending /\ (d'.irq => d'.edge)]_vars
  BY DEF NewEdge
<1> QED
  BY <1>1, AllInvInit, AllInvNext, PTL DEF Spec, NewByteIsAnEdge
================================================================================
