--------------------------- MODULE HostChardevLemmas ---------------------------
(***************************************************************************)
(* What each handler of the host byte stream makes of a good record, for   *)
(* every kind and every outcome of accept(), connect() and select().       *)
(***************************************************************************)
EXTENDS HostChardev, TLAPS

ChKind  == AllKinds \cup {"none"}
ChFds   == {0, 1}
Channel == [kind : ChKind, listening : BOOLEAN, fd : ChFds,
            connecting : BOOLEAN, new_peer : BOOLEAN, due : BOOLEAN]

(***************************************************************************)
(* A record in which a pending report belongs to a usable descriptor.  The *)
(* second conjunct is needed: try_accept leaves connecting alone, so what  *)
(* it accepts is usable only if no stale connecting flag is left behind.   *)
(***************************************************************************)
ChGood(h) ==
    /\ h \in Channel
    /\ h.connecting => h.fd = 1
    /\ h.new_peer => h.fd = 1 /\ ~h.connecting

--------------------------------------------------------------------------------
(***************************************************************************)
(* host_chardev_open leaves a good record, whatever connect() answers.     *)
(***************************************************************************)
LEMMA OpenGood ==
    ASSUME NEW k \in AllKinds, NEW result \in ChOpenResults(k)
    PROVE  ChGood(ChOpen(ChInit, k, result, 1))
<1> DEFINE d == [ChInit EXCEPT !.kind = k]
           o == ChOpen(ChInit, k, result, 1)
<1>1. d \in Channel /\ d.fd = 0 /\ ~d.new_peer /\ ~d.connecting
  BY DEF ChInit, Channel, ChKind, NoFd, ChFds
<1>2. o = CASE result = "error"       -> d
            [] result = "refused"     -> [d EXCEPT !.due = FALSE]
            [] result = "now"         -> [d EXCEPT !.fd = 1, !.new_peer = TRUE]
            [] result = "in_progress" -> [d EXCEPT !.fd = 1, !.connecting = TRUE]
            [] result = "opened" /\ k \in ListenKinds -> [d EXCEPT !.listening = TRUE]
            [] result = "opened" /\ k = "pty" -> [d EXCEPT !.fd = 1, !.new_peer = TRUE]
  BY Zenon DEF ChOpen
<1>3. \/ result \in {"now", "in_progress", "refused", "error"}
      \/ result = "opened" /\ k \in ListenKinds
      \/ result = "opened" /\ k = "pty"
  BY DEF ChOpenResults, ConnectResults, AllKinds
<1> HIDE DEF d
<1>4. CASE result = "error"
  <2>1. o = d
    BY <1>2, <1>4
  <2> QED
    BY <1>1, <2>1 DEF ChGood
<1>5. CASE result = "refused"
  <2>1. o = [d EXCEPT !.due = FALSE]
    BY <1>2, <1>5
  <2>2. o \in Channel
    BY <1>1, <2>1 DEF Channel
  <2>3. ~o.new_peer /\ ~o.connecting
    BY <1>1, <2>1 DEF Channel
  <2> QED
    BY <2>2, <2>3 DEF ChGood
<1>6. CASE result = "now" \/ (result = "opened" /\ k = "pty")
  <2>1. o = [d EXCEPT !.fd = 1, !.new_peer = TRUE]
    BY <1>2, <1>6 DEF ListenKinds
  <2>2. o \in Channel
    BY <1>1, <2>1 DEF Channel, ChFds
  <2>3. o.fd = 1 /\ ~o.connecting
    BY <1>1, <2>1 DEF Channel
  <2> QED
    BY <2>2, <2>3 DEF ChGood
<1>7. CASE result = "in_progress"
  <2>1. o = [d EXCEPT !.fd = 1, !.connecting = TRUE]
    BY <1>2, <1>7
  <2>2. o \in Channel
    BY <1>1, <2>1 DEF Channel, ChFds
  <2>3. o.fd = 1 /\ ~o.new_peer
    BY <1>1, <2>1 DEF Channel
  <2> QED
    BY <2>2, <2>3 DEF ChGood
<1>8. CASE result = "opened" /\ k \in ListenKinds
  <2>1. o = [d EXCEPT !.listening = TRUE]
    BY <1>2, <1>8 DEF ListenKinds
  <2>2. o \in Channel
    BY <1>1, <2>1 DEF Channel
  <2>3. ~o.new_peer /\ ~o.connecting
    BY <1>1, <2>1 DEF Channel
  <2> QED
    BY <2>2, <2>3 DEF ChGood
<1> QED
  BY <1>3, <1>4, <1>5, <1>6, <1>7, <1>8

(***************************************************************************)
(* host_chardev_tick: a redial leaves no report, an accept reports a       *)
(* descriptor that is usable at once.                                      *)
(***************************************************************************)
LEMMA TickGood ==
    ASSUME NEW h, ChGood(h), NEW result \in ChTickResults(h)
    PROVE  ChGood(ChTick(h, result, 1))
<1> DEFINE t == ChTick(h, result, 1)
<1>1. CASE result = "none"
  BY <1>1 DEF ChTick
<1>2. CASE result = "accepted"
  <2>1. h.fd = 0
    BY <1>2 DEF ChTickResults, ConnectResults, CanAccept, NoFd
  <2>2. h \in Channel /\ ~h.connecting
    BY <2>1 DEF ChGood
  <2>3. t = [h EXCEPT !.fd = 1, !.new_peer = TRUE]
    BY <1>2 DEF ChTick, TryAccept
  <2>4. t \in Channel
    BY <2>2, <2>3 DEF Channel, ChFds
  <2>5. t.fd = 1 /\ ~t.connecting
    BY <2>2, <2>3 DEF Channel
  <2> QED
    BY <2>4, <2>5 DEF ChGood
<1>3. CASE result \in ConnectResults
  <2>1. h.fd = 0
    BY <1>3 DEF ChTickResults, ConnectResults, CanAccept, CanRedial, NoFd
  <2>2. h \in Channel /\ ~h.connecting /\ ~h.new_peer
    BY <2>1 DEF ChGood
  <2>3. t = TryReconnect(h, result, 1)
    BY <1>3 DEF ChTick, ConnectResults
  <2>4. CASE result = "refused"
    <3>1. t = [h EXCEPT !.due = FALSE]
      BY <2>3, <2>4 DEF TryReconnect
    <3>2. t \in Channel /\ ~t.connecting /\ ~t.new_peer
      BY <2>2, <3>1 DEF Channel
    <3> QED
      BY <3>2 DEF ChGood
  <2>5. CASE result # "refused"
    <3> DEFINE b == result = "in_progress"
    <3>1. t = [h EXCEPT !.due = FALSE, !.fd = 1, !.connecting = b]
      BY <2>3, <2>5 DEF TryReconnect
    <3>2. b \in BOOLEAN
      OBVIOUS
    <3> HIDE DEF b
    <3>3. t \in Channel
      BY <2>2, <3>1, <3>2 DEF Channel, ChFds
    <3>4. t.fd = 1 /\ ~t.new_peer
      BY <2>2, <3>1 DEF Channel
    <3> QED
      BY <3>3, <3>4 DEF ChGood
  <2> QED
    BY <2>4, <2>5
<1> QED
  BY <1>1, <1>2, <1>3 DEF ChTickResults

(***************************************************************************)
(* host_chardev_ready reports exactly the connect() it completes.          *)
(***************************************************************************)
LEMMA ReadyGood ==
    ASSUME NEW h, ChGood(h), NEW result \in ChReadyResults(h)
    PROVE  ChGood(ChReady(h, result))
<1> DEFINE r == ChReady(h, result)
<1>1. CASE result \in {"established", "failed"}
  <2>1. h \in Channel /\ h.connecting /\ h.fd = 1 /\ ~h.new_peer
    BY <1>1 DEF ChReadyResults, ChGood
  <2>2. CASE result = "established"
    <3>1. r = [h EXCEPT !.connecting = FALSE, !.new_peer = TRUE]
      BY <2>2 DEF ChReady
    <3>2. r \in Channel
      BY <2>1, <3>1 DEF Channel
    <3>3. r.fd = 1 /\ ~r.connecting
      BY <2>1, <3>1 DEF Channel
    <3> QED
      BY <3>2, <3>3 DEF ChGood
  <2>3. CASE result = "failed"
    <3>1. r = [h EXCEPT !.connecting = FALSE, !.fd = 0]
      BY <2>3 DEF ChReady, NoFd
    <3>2. r \in Channel
      BY <2>1, <3>1 DEF Channel, ChFds
    <3>3. ~r.connecting /\ ~r.new_peer
      BY <2>1, <3>1 DEF Channel
    <3> QED
      BY <3>2, <3>3 DEF ChGood
  <2> QED
    BY <1>1, <2>2, <2>3
<1>2. CASE result \notin {"established", "failed"}
  BY <1>2 DEF ChReady
<1> QED
  BY <1>1, <1>2

(***************************************************************************)
(* host_chardev_drop_peer, host_chardev_close and the PTY that is reopened *)
(* leave no report and no connect() of the peer that is gone.              *)
(***************************************************************************)
LEMMA DropGood ==
    ASSUME NEW h \in Channel
    PROVE  /\ ChGood(ChDropPeer(h))
           /\ ChGood(ChClose(h))
           /\ ChGood(ChReopenPty(ChDropPeer(h), 1))
<1> DEFINE a == ChDropPeer(h)
           b == ChReopenPty(a, 1)
<1>1. a \in Channel /\ ~a.connecting /\ ~a.new_peer
  BY DEF ChDropPeer, Channel, NoFd, ChFds
<1>2. ChClose(h) \in Channel /\ ~ChClose(h).connecting /\ ~ChClose(h).new_peer
  BY DEF ChClose, Channel, NoFd, ChFds
<1> HIDE DEF a
<1>3. b = [a EXCEPT !.fd = 1, !.new_peer = TRUE]
  BY DEF ChReopenPty
<1>4. b \in Channel
  BY <1>1, <1>3 DEF Channel, ChFds
<1>5. b.fd = 1 /\ ~b.connecting
  BY <1>1, <1>3 DEF Channel
<1>6. ChGood(a) /\ ChGood(b) /\ ChGood(ChClose(h))
  BY <1>1, <1>2, <1>4, <1>5 DEF ChGood
<1> QED
  BY <1>6 DEF a

(***************************************************************************)
(* host_chardev_take_new_peer.                                             *)
(***************************************************************************)
LEMMA TakeGood ==
    ASSUME NEW h, ChGood(h)
    PROVE  ChGood(ChTakeNewPeer(h))
<1>1. ChTakeNewPeer(h) = [h EXCEPT !.new_peer = FALSE]
  BY DEF ChTakeNewPeer
<1> QED
  BY <1>1 DEF ChGood, Channel
================================================================================
