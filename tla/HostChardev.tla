------------------------------ MODULE HostChardev ------------------------------
(***************************************************************************)
(* The non-blocking host byte stream of src/host_chardev.c: one descriptor *)
(* that becomes usable by accept() in the listen modes, by connect() in    *)
(* the connect modes and at once for a PTY.  The handlers are operators on *)
(* the record that stands for host_chardev_t, so that the owners' modules  *)
(* can call them.                                                          *)
(*                                                                         *)
(* A descriptor is a number: 0 is HOST_CHARDEV_INVALID, and each new one   *)
(* is a value the caller chooses.  The 500 ms redial timer is one Boolean, *)
(* due: the deadline next_reconnect_ns has passed.                         *)
(***************************************************************************)
EXTENDS Naturals

CONSTANTS
    Kinds,          \* the kinds of stream to consider, a subset of AllKinds
    ImmediateRedial \* a redial may find connect() complete at once

ListenKinds  == {"tcp_listen", "unix_listen"}
ConnectKinds == {"tcp_connect", "unix_connect"}
AllKinds     == ListenKinds \cup ConnectKinds \cup {"pty"}

ASSUME KindsAssumption ==
    /\ Kinds \subseteq AllKinds
    /\ ImmediateRedial \in BOOLEAN

NoFd == 0

--------------------------------------------------------------------------------
(* Variants of the handlers, for testing the properties.                   *)

\* a redial that announces the peer before connect() has succeeded
TryReconnect_AnnouncesEarly(c, result, f) ==
    IF result = "refused" THEN [c EXCEPT !.due = FALSE]
    ELSE [c EXCEPT !.due = FALSE, !.fd = f, !.new_peer = TRUE,
                   !.connecting = (result = "in_progress")]

\* a redial for TCP only
CanRedial_TcpOnly(c) == c.kind = "tcp_connect" /\ c.fd = NoFd /\ c.due

--------------------------------------------------------------------------------
(* The handlers.                                                           *)

\* host_chardev_init
ChInit == [kind |-> "none", listening |-> FALSE, fd |-> NoFd,
           connecting |-> FALSE, new_peer |-> FALSE, due |-> TRUE]

\* connect() of a non-blocking socket returns 0, EINPROGRESS or an error.
ConnectResults == {"now", "in_progress", "refused"}

\* host_chardev_open: false when the PTY or the listener cannot be made; a
\* refused connect() is not a failure, the timer redials.
ChOpenResults(k) ==
    IF k \in ConnectKinds THEN ConnectResults ELSE {"opened", "error"}

ChOpen(c, k, result, f) ==
    LET d == [c EXCEPT !.kind = k] IN
    CASE result = "error"       -> d
      [] result = "refused"     -> [d EXCEPT !.due = FALSE]
      [] result = "now"         -> [d EXCEPT !.fd = f, !.new_peer = TRUE]
      [] result = "in_progress" -> [d EXCEPT !.fd = f, !.connecting = TRUE]
      [] result = "opened" /\ k \in ListenKinds -> [d EXCEPT !.listening = TRUE]
      [] result = "opened" /\ k = "pty" -> [d EXCEPT !.fd = f, !.new_peer = TRUE]

\* host_chardev_close
ChClose(c) == [c EXCEPT !.fd = NoFd, !.listening = FALSE,
                        !.connecting = FALSE, !.new_peer = FALSE]

\* try_accept, when a peer waits in the backlog
CanAccept(c) == c.listening /\ c.fd = NoFd
TryAccept(c, f) == [c EXCEPT !.fd = f, !.new_peer = TRUE]

\* try_reconnect
CanRedial(c) == c.kind \in ConnectKinds /\ c.fd = NoFd /\ c.due
TryReconnect(c, result, f) ==
    IF result = "refused" THEN [c EXCEPT !.due = FALSE]
    ELSE [c EXCEPT !.due = FALSE, !.fd = f, !.connecting = (result = "in_progress")]

\* host_chardev_tick.  "none" is the tick with nobody in the backlog or an
\* interrupted accept(), or before the redial is due.
ChTickResults(c) ==
    CASE CanAccept(c) -> {"none", "accepted"}
      [] CanRedial(c) -> ConnectResults \ (IF ImmediateRedial THEN {} ELSE {"now"})
      [] OTHER        -> {"none"}
ChTick(c, result, f) ==
    CASE result = "none"     -> c
      [] result = "accepted" -> TryAccept(c, f)
      [] OTHER               -> TryReconnect(c, result, f)

\* host_chardev_ready: select() and SO_ERROR give the fate of a connect()
\* in flight: still waiting, established, or failed.
ChReadyResults(c) ==
    IF c.fd # NoFd /\ c.connecting THEN {"waiting", "established", "failed"}
                                   ELSE {"none"}
ChReady(c, result) ==
    CASE result = "established" -> [c EXCEPT !.connecting = FALSE, !.new_peer = TRUE]
      [] result = "failed"      -> [c EXCEPT !.connecting = FALSE, !.fd = NoFd]
      [] OTHER                  -> c

\* the value host_chardev_ready returns, of the record it leaves
IsReady(c) == c.fd # NoFd /\ ~c.connecting

\* host_chardev_take_new_peer: returns c.new_peer and leaves
ChTakeNewPeer(c) == [c EXCEPT !.new_peer = FALSE]

\* host_chardev_drop_peer
ChDropPeer(c) == [c EXCEPT !.fd = NoFd, !.connecting = FALSE, !.new_peer = FALSE]

\* host_chardev_reopen_pty
ChReopenPty(c, f) == [c EXCEPT !.fd = f, !.new_peer = TRUE]
================================================================================
