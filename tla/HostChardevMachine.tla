--------------------------- MODULE HostChardevMachine --------------------------
(***************************************************************************)
(* The host byte stream with an owner that calls it in the order of        *)
(* usbredir_dev_tick, the other end, and the redial timer.                 *)
(***************************************************************************)
EXTENDS HostChardevLemmas

VARIABLES
    ch,       \* host_chardev_t
    at,       \* where the owner is in its tick
    up,       \* the other end is there: it answers connect() or waits in accept()
    reported  \* how often take_new_peer has reported the present descriptor

chVars == <<ch, at, up, reported>>

OwnerInit ==
    /\ ch = ChInit
    /\ at = "unopened"
    /\ up \in BOOLEAN
    /\ reported = 0

\* A connect() that completes needs the other end to be there.
Possible(result) ==
    /\ result \in {"now", "accepted", "established"} => up
    /\ result = "refused" => ~up
    /\ result = "failed" => ~up

FreshReport == IF ch'.fd # ch.fd THEN 0 ELSE reported

\* usbredir_dev_configure: an open that fails is closed again.
OwnerOpens ==
    /\ at = "unopened"
    /\ \E k \in Kinds : \E result \in ChOpenResults(k) :
         /\ Possible(result)
         /\ ch' = IF result = "error" THEN ChClose(ChOpen(ch, k, result, 1))
                                     ELSE ChOpen(ch, k, result, 1)
         /\ at' = IF result = "error" THEN "closed" ELSE "idle"
    /\ UNCHANGED <<up, reported>>

OwnerTick ==
    /\ at = "idle"
    /\ \E result \in ChTickResults(ch) :
         /\ Possible(result)
         /\ ch' = ChTick(ch, result, 1)
    /\ reported' = FreshReport
    /\ at' = "ticked"
    /\ UNCHANGED up

\* usbredir_dev_tick goes no further while the stream is not ready.
OwnerReady ==
    /\ at = "ticked"
    /\ \E result \in ChReadyResults(ch) :
         /\ Possible(result)
         /\ ch' = ChReady(ch, result)
    /\ reported' = FreshReport
    /\ at' = IF IsReady(ch') THEN "ready" ELSE "idle"
    /\ UNCHANGED up

OwnerTakesPeer ==
    /\ at = "ready"
    /\ reported' = IF ch.new_peer THEN reported + 1 ELSE reported
    /\ ch' = ChTakeNewPeer(ch)
    /\ at' = "serving"
    /\ UNCHANGED up

\* The owner reads and writes; end of file or an error drops the peer.
OwnerServes ==
    /\ at = "serving"
    /\ at' = "idle"
    /\ UNCHANGED <<ch, up, reported>>

OwnerLoses ==
    /\ at = "serving"
    /\ ch' = ChDropPeer(ch)
    /\ reported' = 0
    /\ at' = "idle"
    /\ UNCHANGED up

\* pcconnect_bridge_tick reopens the PTY it has lost.
OwnerReopens ==
    /\ at = "serving"
    /\ ch.kind = "pty"
    /\ ch' = ChReopenPty(ChDropPeer(ch), 1)
    /\ reported' = 0
    /\ at' = "idle"
    /\ UNCHANGED up

\* usbredir_dev_shutdown
OwnerCloses ==
    /\ at = "idle"
    /\ ch' = ChClose(ch)
    /\ reported' = 0
    /\ at' = "closed"
    /\ UNCHANGED up

\* The redial timer, and the other end coming and going.
RedialTimer ==
    /\ ~ch.due
    /\ ch' = [ch EXCEPT !.due = TRUE]
    /\ UNCHANGED <<at, up, reported>>

PeerComesOrGoes ==
    /\ up' = ~up
    /\ UNCHANGED <<ch, at, reported>>

OwnerStep == OwnerTick \/ OwnerReady \/ OwnerTakesPeer \/ OwnerServes \/ OwnerLoses \/ OwnerReopens
OwnerNext == OwnerOpens \/ OwnerStep \/ OwnerCloses \/ RedialTimer \/ PeerComesOrGoes

\* The owner's tick runs in the machine's main loop and time passes; the
\* kernel does not interrupt accept() for ever and decides every connect().
\* A session may be closed, and the other end may stay away, for ever.
OwnerFairness ==
    /\ WF_chVars(OwnerOpens)
    /\ WF_chVars(OwnerStep)
    /\ WF_chVars(RedialTimer)
    /\ SF_chVars(OwnerTick /\ ch'.fd # ch.fd)
    /\ SF_chVars(OwnerReady /\ ch.connecting /\ ~ch'.connecting)

OwnerSpec == OwnerInit /\ [][OwnerNext]_chVars /\ OwnerFairness

--------------------------------------------------------------------------------
(***************************************************************************)
(* host_chardev.h says of host_chardev_take_new_peer: "Returns true once   *)
(* per newly accepted / connected peer".  When the owner starts to read    *)
(* and write, the peer it talks to has been reported, and once only: the   *)
(* owners clear the last peer's half packets and send their greeting on    *)
(* that report and on nothing else.                                        *)
(***************************************************************************)
ReportedOncePerPeer ==
    /\ at = "serving" => reported = 1
    /\ reported <= 1

(***************************************************************************)
(* A report outlives neither its peer nor a connect() still in flight: a   *)
(* pending new_peer always belongs to a usable descriptor, whatever        *)
(* sequence of accepts, failed connects and drops came before.             *)
(***************************************************************************)
NewPeerIsUsable == ch.new_peer => IsReady(ch)

(***************************************************************************)
(* The redial of the connect modes and the accept of the listen modes lose *)
(* nobody: while the other end stays there and the session is not closed,  *)
(* the stream is served again and again, however often it was refused,     *)
(* failed in flight or dropped before.  (A PTY is served at once, and the  *)
(* usbredir owner never reopens one it has dropped.)                       *)
(***************************************************************************)
Redials ==
    (<>[](up /\ at \notin {"unopened", "closed"}) /\ [](ch.kind # "pty"))
        => []<>(at = "serving")

--------------------------------------------------------------------------------
(***************************************************************************)
(* The inductive invariant: the record is good, and the owner reads and    *)
(* writes only a usable descriptor.                                        *)
(***************************************************************************)
StreamInv ==
    /\ ChGood(ch)
    /\ at \in {"ready", "serving"} => IsReady(ch)
    /\ at = "unopened" => ch = ChInit

(***************************************************************************)
(* The record of host_chardev_init satisfies the invariant.                *)
(***************************************************************************)
LEMMA StreamInvInit == OwnerInit => StreamInv
  BY DEF OwnerInit, StreamInv, ChGood, Channel, ChKind, ChInit, NoFd, ChFds

(***************************************************************************)
(* Every step of the owner, of the timer and of the other end keeps it.    *)
(***************************************************************************)
LEMMA StreamInvNext == StreamInv /\ [OwnerNext]_chVars => StreamInv'
<1> SUFFICES ASSUME StreamInv, [OwnerNext]_chVars PROVE StreamInv'
  OBVIOUS
<1>1. CASE OwnerOpens
  <2>0. PICK k \in Kinds : \E result \in ChOpenResults(k) :
          /\ ch' = IF result = "error" THEN ChClose(ChOpen(ch, k, result, 1))
                                       ELSE ChOpen(ch, k, result, 1)
          /\ at' = IF result = "error" THEN "closed" ELSE "idle"
    BY <1>1 DEF OwnerOpens
  <2>1. PICK result \in ChOpenResults(k) :
          /\ ch' = IF result = "error" THEN ChClose(ChOpen(ch, k, result, 1))
                                       ELSE ChOpen(ch, k, result, 1)
          /\ at' = IF result = "error" THEN "closed" ELSE "idle"
    BY <2>0
  <2>2. ChGood(ChOpen(ch, k, result, 1))
    BY <1>1, <2>1, OpenGood, KindsAssumption DEF OwnerOpens, StreamInv
  <2>3. ChGood(ChClose(ChOpen(ch, k, result, 1)))
    BY <2>2, DropGood DEF ChGood
  <2> QED
    BY <2>1, <2>2, <2>3 DEF StreamInv
<1>2. CASE OwnerTick
  <2>1. ChGood(ch')
    BY <1>2, TickGood DEF OwnerTick, StreamInv
  <2> QED
    BY <1>2, <2>1 DEF OwnerTick, StreamInv
<1>3. CASE OwnerReady
  <2>1. ChGood(ch')
    BY <1>3, ReadyGood DEF OwnerReady, StreamInv
  <2> QED
    BY <1>3, <2>1 DEF OwnerReady, StreamInv
<1>4. CASE OwnerTakesPeer
  <2>1. ChGood(ch')
    BY <1>4, TakeGood DEF OwnerTakesPeer, StreamInv
  <2>2. IsReady(ch')
    BY <1>4 DEF OwnerTakesPeer, StreamInv, ChTakeNewPeer, ChGood, Channel, IsReady
  <2> QED
    BY <1>4, <2>1, <2>2 DEF OwnerTakesPeer, StreamInv
<1>5. CASE OwnerServes
  BY <1>5 DEF OwnerServes, StreamInv
<1>6. CASE OwnerLoses
  BY <1>6, DropGood DEF OwnerLoses, StreamInv, ChGood
<1>7. CASE OwnerReopens
  BY <1>7, DropGood DEF OwnerReopens, StreamInv, ChGood
<1>8. CASE OwnerCloses
  BY <1>8, DropGood DEF OwnerCloses, StreamInv, ChGood
<1>9. CASE RedialTimer
  <2>1. ChGood(ch') /\ (IsReady(ch) => IsReady(ch'))
    BY <1>9 DEF RedialTimer, StreamInv, ChGood, Channel, IsReady
  <2>2. at # "unopened"
    BY <1>9 DEF RedialTimer, StreamInv, ChInit
  <2> QED
    BY <1>9, <2>1, <2>2 DEF RedialTimer, StreamInv
<1>10. CASE PeerComesOrGoes
  BY <1>10 DEF PeerComesOrGoes, StreamInv
<1>11. CASE UNCHANGED chVars
  BY <1>11 DEF chVars, StreamInv
<1> QED
  BY <1>1, <1>2, <1>3, <1>4, <1>5, <1>6, <1>7, <1>8, <1>9, <1>10, <1>11
  DEF OwnerNext, OwnerStep

(***************************************************************************)
(* A pending report always belongs to a usable descriptor.                 *)
(***************************************************************************)
THEOREM NewPeerAlwaysUsable == OwnerSpec => []NewPeerIsUsable
<1>1. StreamInv => NewPeerIsUsable
  BY DEF StreamInv, ChGood, NewPeerIsUsable, IsReady, NoFd
<1> QED
  BY StreamInvInit, StreamInvNext, <1>1, PTL DEF OwnerSpec
================================================================================
