------------------------------- MODULE MCUsbRedir ------------------------------
(***************************************************************************)
(* The usbredir device on small instances: what the peer, the guest and    *)
(* the stream do in each run.                                              *)
(***************************************************************************)
EXTENDS UsbRedir

Quiet == [kind |-> "tcp_listen", reqs |-> {}, lens |-> {}, ops |-> {"unit", "desc"},
          unplugs |-> FALSE, fails |-> {}, backlog |-> 0, maxreq |-> 0, maxpeers |-> 1]

\* Bulk transfers in both directions, cancelled, reset and cut short
Bulk == [Quiet EXCEPT
    !.reqs = {"config", "bulk_out", "bulk_in", "cancel", "reset"}, !.lens = {0, 3},
    !.ops = {"unit", "desc", "out", "in"}, !.fails = {"hello", "flush"}, !.maxreq = 3]

\* Class requests, with every way the controller can be reset
Control == [Quiet EXCEPT
    !.reqs = {"class", "cancel", "reset"},
    !.ops = {"unit", "desc", "reset", "pulse", "ep0"},
    !.fails = {"hello", "rx", "ctrl", "flush"}, !.maxreq = 3, !.maxpeers = 2]

\* Peers that come and go over a redialled stream whose socket fills up, and
\* a cable that is pulled
Peers == [Quiet EXCEPT
    !.kind = "tcp_connect", !.reqs = {"query", "oversized"}, !.unplugs = TRUE,
    !.fails = {"hello", "rx", "flush"}, !.backlog = 2, !.maxreq = 3, !.maxpeers = 2]

\* Interrupt polling
Intr == [Quiet EXCEPT
    !.reqs = {"config", "start_intr", "stop_intr", "reset"},
    !.ops = {"unit", "desc", "ep3"}, !.fails = {"hello", "intr"}, !.maxreq = 4]

Safety == {Bulk, Control, Peers, Intr}

\* A peer that answers and a stream that does not fail
Progress == {[Quiet EXCEPT
    !.reqs = {"config", "bulk_out", "class", "cancel", "reset"}, !.lens = {0, 3},
    !.ops = {"unit", "desc", "out", "ep0"}, !.maxreq = 2]}

\* A write that fails while an OUT transfer is answered, or the device offered
FailingAnswer == {[Quiet EXCEPT
    !.reqs = {"config", "bulk_out"}, !.lens = {1}, !.ops = {"unit", "desc", "out"},
    !.fails = {"out"}, !.maxreq = 2]}
FailingOffer == {[Quiet EXCEPT !.fails = {"update"}, !.maxpeers = 2]}
================================================================================
