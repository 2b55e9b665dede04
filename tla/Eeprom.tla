--------------------------------- MODULE Eeprom --------------------------------
(***************************************************************************)
(* The serial EEPROM on its bit-banged bus (src/hw/eeprom.c) and a master  *)
(* that may give up a transaction at any edge and start another.  A byte   *)
(* has Width bits, high bit first: the device byte's high bit is the       *)
(* EEPROM's own and its low bit asks for a read.                           *)
(*   e      phase, scl, sdaMaster, sdaSlave, shift and bits, addr, next,   *)
(*          ackSlot, mackSlot, masterNack and mem, as in eeprom_state_t    *)
(*   todo   the master's edges and samples to come;  got, the bits it read *)
(*   task   the transaction;  told, what complete writes have stored       *)
(***************************************************************************)
EXTENDS Integers, Sequences

CONSTANTS Width,        \* bits of a byte, 8 in the code
          Written,      \* the values the master writes
          MaxTasks      \* bound: transactions

VARIABLES eeprom, todo, got, task, told, tasks
eepromVars == <<eeprom, todo, got, task, told, tasks>>

\* n without its k low bits (n >> k), and 1 << k.
Shifted(n, k) == LET h[i \in 0..k] == IF i = 0 THEN n ELSE h[i - 1] \div 2 IN h[k]
Power(k) == LET p[i \in 0..k] == IF i = 0 THEN 1 ELSE 2 * p[i - 1] IN p[k]
Cells == Power(Width)
ASSUME EepromAssumption == /\ Width \in Nat \ {0, 1} /\ MaxTasks \in Nat
                           /\ Written \subseteq 0..Cells - 1
Bit(n, k) == Shifted(n, Width - 1 - k) % 2
DriveBit(e) == [e EXCEPT !.sdaSlave = Bit(e.mem[e.addr], e.bits)]

EepromInit == [phase |-> "idle", next |-> "idle", scl |-> 1, sdaMaster |-> 1, sdaSlave |-> 1,
               shift |-> 0, bits |-> 0, addr |-> 0, ackSlot |-> FALSE, mackSlot |-> FALSE,
               masterNack |-> 0, mem |-> [c \in 0..Cells - 1 |-> Cells - 1]]

Acknowledged(e, next) == [e EXCEPT !.next = next, !.sdaSlave = 0, !.ackSlot = TRUE]
ByteReceived(e) ==
    CASE e.phase = "device" /\ Bit(e.shift, 0) = 0 -> [e EXCEPT !.phase = "idle"]
      [] e.phase = "device" /\ Bit(e.shift, 0) = 1 ->
            Acknowledged(e, IF e.shift % 2 = 1 THEN "read" ELSE "word")
      [] e.phase = "word"  -> Acknowledged([e EXCEPT !.addr = e.shift], "write")
      [] e.phase = "write" ->
            Acknowledged([e EXCEPT !.mem[e.addr] = e.shift, !.addr = (@ + 1) % Cells], "write")
      [] OTHER -> e

SclRises(e) ==
    CASE e.phase = "read" /\ e.mackSlot  -> [e EXCEPT !.masterNack = e.sdaMaster]
      [] e.phase = "read" /\ ~e.mackSlot -> [e EXCEPT !.bits = @ + 1]
      [] e.phase \notin {"idle", "read"} /\ ~e.ackSlot /\ e.bits < Width ->
            [e EXCEPT !.shift = (2 * @ + e.sdaMaster) % Cells, !.bits = @ + 1]
      [] OTHER -> e
\* The slave changes SDA only at a falling edge.
SclFalls(e) ==
    CASE e.ackSlot ->
            LET t == [e EXCEPT !.ackSlot = FALSE, !.sdaSlave = 1, !.phase = e.next,
                               !.bits = 0, !.shift = 0]
            IN  IF t.phase = "read" THEN DriveBit(t) ELSE t
      [] ~e.ackSlot /\ e.phase = "read" /\ e.mackSlot ->
            IF e.masterNack = 1
            THEN [e EXCEPT !.mackSlot = FALSE, !.phase = "idle", !.sdaSlave = 1]
            ELSE DriveBit([e EXCEPT !.mackSlot = FALSE, !.addr = (@ + 1) % Cells, !.bits = 0])
      [] ~e.ackSlot /\ e.phase = "read" /\ ~e.mackSlot ->
            IF e.bits = Width THEN [e EXCEPT !.sdaSlave = 1, !.mackSlot = TRUE] ELSE DriveBit(e)
      [] ~e.ackSlot /\ e.phase \notin {"idle", "read"} /\ e.bits = Width -> ByteReceived(e)
      [] OTHER -> e
SetScl(e, level) == IF level = e.scl THEN e
                    ELSE IF level = 1 THEN SclRises([e EXCEPT !.scl = 1])
                    ELSE SclFalls([e EXCEPT !.scl = 0])
\* As if a START left the bits of the byte it cut off.
SetSda_KeepsBits(e, level) ==
    IF level = e.sdaMaster THEN e
    ELSE IF e.scl = 0 THEN [e EXCEPT !.sdaMaster = level]
    ELSE [e EXCEPT !.sdaMaster = level, !.ackSlot = FALSE, !.mackSlot = FALSE, !.sdaSlave = 1,
                   !.phase = IF level = 1 THEN "idle" ELSE "device"]
\* While SCL is high an edge of SDA is STOP or START, whatever went before.
SetSda(e, level) ==
    IF level = e.sdaMaster THEN e
    ELSE IF e.scl = 0 THEN [e EXCEPT !.sdaMaster = level]
    ELSE [e EXCEPT !.sdaMaster = level, !.ackSlot = FALSE, !.mackSlot = FALSE, !.sdaSlave = 1,
                   !.bits = 0, !.shift = 0, !.phase = IF level = 1 THEN "idle" ELSE "device"]
SdaLine(e) == IF e.sdaMaster = 1 /\ e.sdaSlave = 1 THEN 1 ELSE 0

--------------------------------------------------------------------------------
(***************************************************************************)
(* The master's transactions, as edges of the two lines and samples of     *)
(* SDA: from wherever the lines are, START, then the bytes, then STOP.     *)
(***************************************************************************)
Scl(l) == [pin |-> "scl", level |-> l]
Sda(l) == [pin |-> "sda", level |-> l]
Sample == [pin |-> "none", level |-> 0]
StartEdges == <<Sda(1), Scl(1), Sda(0), Scl(0)>>
StopEdges  == <<Sda(0), Scl(1), Sda(1)>>
Clocked(bit) == <<Sda(bit), Scl(1), Scl(0)>>
Sampled == <<Sda(1), Scl(1), Sample, Scl(0)>>
Times(s, n) == [k \in 1..n * Len(s) |-> s[1 + ((k - 1) % Len(s))]]
Byte(b) == [k \in 1..3 * Width |-> Clocked(Bit(b, (k - 1) \div 3))[1 + ((k - 1) % 3)]] \o Sampled
OwnWrite == Power(Width - 1)
OwnRead  == OwnWrite + 1

Edges(t) ==
    IF t.kind = "write"
    THEN StartEdges \o Byte(OwnWrite) \o Byte(t.addr) \o Byte(t.value) \o StopEdges
    ELSE StartEdges \o Byte(OwnWrite) \o Byte(t.addr) \o StartEdges \o Byte(OwnRead)
             \o (IF t.kind = "readTwo" THEN Times(Sampled, Width) \o Clocked(0) ELSE <<>>)
             \o Times(Sampled, Width) \o Clocked(1) \o StopEdges
Tasks == [kind : {"write"}, addr : 0..Cells - 1, value : Written]
             \cup [kind : {"read", "readTwo"}, addr : 0..Cells - 1, value : {0}]
NoTask == [kind |-> "none", addr |-> 0, value |-> 0]

BusInit == /\ eeprom = EepromInit /\ todo = <<>> /\ got = <<>> /\ task = NoTask
           /\ told = EepromInit.mem /\ tasks = 0

\* The transaction before may have been cut off anywhere.
Begins == /\ tasks < MaxTasks /\ tasks' = tasks + 1
          /\ \E t \in Tasks : task' = t /\ todo' = Edges(t)
          /\ got' = <<>>
          \* a byte the EEPROM took before the master gave up is stored
          /\ told' = eeprom.mem
          /\ UNCHANGED eeprom
Drives == /\ todo # <<>> /\ todo' = Tail(todo)
          /\ LET x == Head(todo)
             IN  /\ eeprom' = CASE x.pin = "scl" -> SetScl(eeprom, x.level)
                                [] x.pin = "sda" -> SetSda(eeprom, x.level)
                                [] OTHER -> eeprom
                 /\ got' = IF x.pin = "none" THEN Append(got, SdaLine(eeprom)) ELSE got
          /\ UNCHANGED <<task, told, tasks>>
BusNext == Begins \/ Drives
BusSpec == BusInit /\ [][BusNext]_eepromVars

--------------------------------------------------------------------------------
BitsOf(n) == [k \in 1..Width |-> Bit(n, k - 1)]
Acks(n) == [k \in 1..n |-> 0]
Expected(t) ==
    IF t.kind = "write" THEN Acks(3)
    ELSE Acks(3) \o BitsOf(told[t.addr]) \o BitsOf(told[(t.addr + 1) % Cells])
Changed == {c \in 0..Cells - 1 : eeprom.mem[c] # told[c]}

(***************************************************************************)
(* Wherever the transaction before was cut off, each byte of this one is   *)
(* acknowledged, a read returns what the cell holds and a write changes    *)
(* its own cell and no other (eeprom_set_scl, eeprom_set_sda).             *)
(***************************************************************************)
EepromAnswers ==
    task # NoTask =>
        /\ \A k \in DOMAIN got : got[k] = Expected(task)[k]
        /\ Changed \subseteq (IF task.kind = "write" THEN {task.addr} ELSE {})
        /\ todo = <<>> /\ task.kind = "write" => eeprom.mem[task.addr] = task.value
================================================================================
