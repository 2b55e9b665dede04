--------------------------------- MODULE Wl54cf ---------------------------------
(***************************************************************************)
(* The WL54CF Marvell card of wl54cf.c: the firmware's download in blocks, *)
(* then station commands with one response at a time, a queue of received  *)
(* frames and the causes of its interrupt; and the access point inside it, *)
(* wifi_security.c.                                                        *)
(***************************************************************************)
EXTENDS Naturals, Sequences

CONSTANT WlQueue      \* frames the card queues
ASSUME WlAssumption == WlQueue \in Nat \ {0}

--------------------------------------------------------------------------------
(***************************************************************************)
(* The access point: the four-way handshake, the keys the station installs *)
(* and the gate they open for data.  A key is named by the nonce the       *)
(* access point chose for the association it belongs to; a message         *)
(* authentication code is right when it was made with the key the access   *)
(* point derives.                                                          *)
(***************************************************************************)
SecRobust(s) == s.mode \in {"wpa", "wpa2"}
SecNothing == [kind |-> "none", replay |-> 0, nonce |-> 0]

\* As if a new association kept the keys of the last one.
SecReset_KeepsKeys(s) ==
  [s EXCEPT !.stage = 0, !.pending = SecNothing, !.authorized = FALSE, !.ptk = 0]
SecReset(s) ==
  [s EXCEPT !.stage = 0, !.pending = SecNothing, !.authorized = FALSE, !.pairwise = FALSE, !.group = FALSE,
            !.ptk = 0]
SecFixture(mode) ==
  [mode |-> mode, stage |-> 0, pending |-> SecNothing, authorized |-> FALSE, pairwise |-> FALSE,
   group |-> FALSE, ptk |-> 0, anonce |-> 0, replay |-> 0]

SecBuild(s, kind) == [s EXCEPT !.pending = [kind |-> kind, replay |-> s.replay, nonce |-> s.anonce]]

\* An association begins: fresh nonces, and the handshake's first message.
SecStart(s) ==
  LET r == SecReset(s)
  IN  IF ~SecRobust(s) THEN [r EXCEPT !.authorized = TRUE]
      ELSE [SecBuild([r EXCEPT !.anonce = @ + 1, !.replay = 1], "first") EXCEPT !.stage = 1]

SecDataPasses(s) == s.authorized /\ (SecRobust(s) => s.pairwise /\ s.group)

\* A key frame p of the station: its key type, its replay counter, whether it carries
\* data, and the nonce of the key its code was made with.
SecKeyFrame(s, p) ==
  LET keyed == IF s.stage = 1 THEN [s EXCEPT !.ptk = s.anonce] ELSE s
  IN  IF ~SecRobust(s) \/ p.replay # s.replay THEN s
      ELSE IF p.key # keyed.ptk THEN keyed
      ELSE IF s.stage = 1 /\ p.pairwise
      THEN [SecBuild([keyed EXCEPT !.replay = @ + 1], "third") EXCEPT !.stage = 2]
      ELSE IF s.stage = 2 /\ p.pairwise /\ p.empty
      THEN IF s.mode = "wpa2" THEN [keyed EXCEPT !.stage = 4, !.authorized = TRUE]
           ELSE [SecBuild([keyed EXCEPT !.replay = @ + 1], "group") EXCEPT !.stage = 3]
      ELSE IF s.stage = 3 /\ ~p.pairwise THEN [keyed EXCEPT !.stage = 4, !.authorized = TRUE]
      ELSE keyed

\* The driver installs or removes a key; the wrong one is refused.
SecKeyFits(s, nonce) == s.stage >= 2 /\ nonce = s.anonce
SecSetKey(s, which, nonce) == IF SecKeyFits(s, nonce) THEN [s EXCEPT ![which] = TRUE] ELSE s
SecDropKey(s, which) == [s EXCEPT ![which] = FALSE]

--------------------------------------------------------------------------------
(* The card. *)

WlNoCommand == [op |-> "none", whole |-> FALSE, arg |-> 0]
WlReset(n) ==
  [n EXCEPT !.sec = SecReset(@), !.stage = "rom", !.helper = FALSE, !.header = FALSE, !.payload = FALSE,
            !.cause = {}, !.mask = {"TX", "RX", "COMMAND", "RESPONSE", "EVENT"}, !.host = {}, !.mac = {},
            !.authenticated = FALSE, !.associated = FALSE, !.radio = TRUE,
            !.response = "none", !.rx = <<>>]
WlCard(mode) ==
  WlReset([sec |-> SecFixture(mode), stage |-> "rom", helper |-> FALSE, header |-> FALSE, payload |-> FALSE,
           cause |-> {}, mask |-> {}, host |-> {}, mac |-> {}, authenticated |-> FALSE, associated |-> FALSE,
           radio |-> TRUE, response |-> "none", rx |-> <<>>, out |-> <<>>])
WlIrq(n) == n.cause \ n.mask # {}

\* A block of the helper or the firmware: "data", "end" or, of the firmware, "payload".
WlFirmwareBlock(n, c) ==
  CASE c.whole /\ n.stage = "rom" /\ c.op = "data" -> [n EXCEPT !.helper = TRUE]
    [] c.whole /\ n.stage = "rom" /\ c.op = "end" /\ n.helper -> [n EXCEPT !.stage = "helper"]
    [] c.whole /\ n.stage = "helper" /\ c.op = "payload" /\ n.payload -> [n EXCEPT !.payload = FALSE]
    [] c.whole /\ n.stage = "helper" /\ c.op = "data" /\ ~n.payload ->
         [n EXCEPT !.payload = TRUE, !.header = TRUE]
    [] c.whole /\ n.stage = "helper" /\ c.op = "end" /\ ~n.payload /\ n.header ->
         [n EXCEPT !.stage = "station"]
    [] OTHER -> [n EXCEPT !.stage = "failed"]

\* What a station command changes; an association needs what the access point is set to.
WlAssociates(n, c) == n.authenticated /\ n.radio /\ c.arg = n.sec.mode
WlObeyed(n, c) ==
  CASE c.op = "authenticate" -> [n EXCEPT !.authenticated = @ \/ n.radio]
    [] c.op = "associate" -> [n EXCEPT !.associated = WlAssociates(n, c),
                                       !.sec = IF WlAssociates(n, c) THEN SecStart(@) ELSE @]
    [] c.op = "deauthenticate" -> [n EXCEPT !.associated = FALSE, !.authenticated = FALSE, !.sec = SecReset(@)]
    [] c.op = "mac" -> [n EXCEPT !.mac = c.arg]
    [] c.op = "radio" -> [n EXCEPT !.radio = c.arg, !.associated = @ /\ c.arg, !.authenticated = @ /\ c.arg]
    [] c.op \in {"pairwise", "group"} -> [n EXCEPT !.sec = SecSetKey(@, c.op, c.arg)]
    [] c.op \in {"nopairwise", "nogroup"} ->
         [n EXCEPT !.sec = SecDropKey(@, IF c.op = "nogroup" THEN "group" ELSE "pairwise")]
    [] OTHER -> n

\* The response stays the driver's until it acknowledges it: meanwhile commands are ignored.
WlStationCommand(n, c) ==
  IF "RESPONSE" \in n.cause THEN n
  ELSE IF ~c.whole THEN [n EXCEPT !.response = "none"]
  ELSE [WlObeyed(n, c) EXCEPT !.response = c.op, !.cause = @ \cup {"RESPONSE"}]

WlSend(n, p) ==
  LET ready == n.associated /\ "tx" \in n.mac
      passed == IF ~ready THEN n
                ELSE IF p.eapol THEN [n EXCEPT !.sec = SecKeyFrame(@, p)]
                ELSE IF SecDataPasses(n.sec) THEN [n EXCEPT !.out = Append(@, p.id)] ELSE n
  IN  [passed EXCEPT !.cause = @ \cup {"TX"}]

-----------------------------------------------------------------------------
WlKeyMessage(m) == [id |-> 0, to |-> "us", cells |-> 1, message |-> m]
WlAccepts(n, f) ==
  /\ n.associated /\ "rx" \in n.mac
  /\ n.sec.authorized
  /\ \/ f.to = "us" \/ "promiscuous" \in n.mac
     \/ f.to = "all" /\ "broadcast" \in n.mac
     \/ f.to = "group" /\ "multicast" \in n.mac
WlFull(n) == Len(n.rx) = WlQueue
WlQueued(n, f) == [n EXCEPT !.rx = Append(@, f), !.cause = @ \cup {"RX"}]
WlTake(n, f) ==
  IF ~WlAccepts(n, f) \/ WlFull(n) THEN n
  ELSE WlQueued(n, [id |-> f.id, to |-> f.to, cells |-> f.cells, message |-> SecNothing])

\* Any register read lets a waiting handshake message in, when there is room for it.
WlPoll(n) ==
  IF n.sec.pending # SecNothing /\ n.associated /\ ~WlFull(n) /\ "rx" \in n.mac
  THEN [WlQueued(n, WlKeyMessage(n.sec.pending)) EXCEPT !.sec.pending = SecNothing] ELSE n

\* The doorbell: the bits the driver announced and now hands to the card.
WlDoorbell(n, bits, c, p) ==
  LET asked == n.host \cap bits
      ran == IF "COMMAND" \notin asked THEN n
             ELSE IF n.stage \in {"rom", "helper"} THEN WlFirmwareBlock(n, c)
             ELSE IF n.stage = "station" THEN WlStationCommand(n, c) ELSE n
      sent == IF "TX" \in asked /\ ran.stage = "station" THEN WlSend(ran, p) ELSE ran
      popped == IF "RX" \in asked /\ sent.rx # <<>> THEN [sent EXCEPT !.rx = Tail(@)] ELSE sent
  IN  [popped EXCEPT !.host = {}]
WlHostStatus(n, bits) == [n EXCEPT !.host = bits]
WlSetMask(n, bits) == [n EXCEPT !.mask = bits]
WlAck(n, bits) ==
  LET left == [n EXCEPT !.cause = @ \ bits, !.response = IF "RESPONSE" \in bits THEN "none" ELSE @]
  IN  [left EXCEPT !.cause = IF left.rx # <<>> THEN @ \cup {"RX"} ELSE @]
=================================================================================
