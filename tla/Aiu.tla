---------------------------------- MODULE Aiu ----------------------------------
(***************************************************************************)
(* The wave-output DMA of the companion (src/hw/aiu.c) and the wave driver *)
(* that feeds it (docs/BE300_AUDIO.md).  Two buffers are played in turn,   *)
(* paced by the host's clock; a drained buffer sets its status bit, which  *)
(* the OAL and the driver's thread turn into a refill.  A record holds     *)
(*   ctl      the bits of AIU_REG_DMA_ENABLE and AIU_REG_ARM that are set  *)
(*   running, cur, pos, status   as in aiu_state_t, pos in frames          *)
(*   reg, len the buffers' lengths in frames, as programmed and as latched *)
(*   owed     frames the clock is ahead of the cursor (due - frames_done)  *)
(*   on, line the source enable AA000030 bit 3 and the interrupt line      *)
(*   out      the frames played in this step, each <<block, index>>        *)
(* and, of the driver, mem the block in each buffer, fresh the buffers     *)
(* filled since they last drained, next the next block, ist and seen its   *)
(* interrupt thread, late whether a buffer was played again before its     *)
(* refill, and last the last frame played.                                 *)
(***************************************************************************)
EXTENDS Integers, Sequences, SequencesExt

CONSTANTS BufLens,      \* the lengths the driver may give a buffer, in frames
          MinBatch,     \* AIU_MIN_BATCH
          Catchup,      \* AIU_MAX_CATCHUP_NS, in frames
          MaxBlocks     \* bound: blocks of sound
ASSUME AiuAssumption == /\ BufLens \subseteq Nat /\ MinBatch \in Nat /\ Catchup \in Nat
                        /\ MaxBlocks \in Nat

VARIABLE aiu
aiuVars == <<aiu>>

AiuSource(s)    == s.status # {} /\ s.on
AiuIrqUpdate(s) == [s EXCEPT !.line = AiuSource(s)]

\* Entering a buffer latches the length programmed for it.
LoadBuffer(s, i) == [s EXCEPT !.len[i] = s.reg[i]]

\* As if the status bit were the one of the buffer entered.
Flip_NextBit(s) ==
    LoadBuffer([s EXCEPT !.status = @ \cup {1 - s.cur}, !.fresh = @ \ {s.cur}, !.cur = 1 - @,
                         !.pos = 0, !.late = @ \/ 1 - s.cur \notin s.fresh], 1 - s.cur)
Flip(s) ==
    LoadBuffer([s EXCEPT !.status = @ \cup {s.cur}, !.fresh = @ \ {s.cur}, !.cur = 1 - @,
                         !.pos = 0, !.late = @ \/ 1 - s.cur \notin s.fresh], 1 - s.cur)

Left(s) == s.len[s.cur] - s.pos
Emitted(s, n) == [k \in 1..n |-> <<s.mem[s.cur], s.pos + k>>]

\* An empty buffer counts as drained, and ends the step: two would spin.
PlayBuffer(s) ==
    LET n == IF s.owed < Left(s) THEN s.owed ELSE Left(s)
        t == [s EXCEPT !.pos = @ + n, !.owed = @ - n, !.out = @ \o Emitted(s, n)]
    IN  IF s.owed = 0 THEN s
        ELSE IF n < Left(s) THEN t
        ELSE IF Left(s) = 0 THEN [Flip(s) EXCEPT !.owed = 0]
        ELSE Flip(t)
\* A round that goes on has played a frame, so there are no more than are owed.
Play(s) == LET rounds[k \in 0..s.owed] == IF k = 0 THEN s ELSE PlayBuffer(rounds[k - 1])
           IN  rounds[s.owed]

\* After a stall of the host the clock restarts at the cursor.
AiuTick(s) ==
    IF ~s.running \/ s.owed = 0 THEN s
    ELSE IF s.owed > Catchup THEN [s EXCEPT !.owed = 0]
    ELSE IF s.owed < MinBatch /\ s.len[s.cur] > 0 /\ s.owed < Left(s) THEN s
    ELSE AiuIrqUpdate(Play(s))

AiuStart(s) ==
    LoadBuffer(LoadBuffer([s EXCEPT !.running = TRUE, !.cur = 0, !.pos = 0, !.owed = 0], 0), 1)
NoteWrite(s) ==
    AiuIrqUpdate(IF s.ctl = {"dma", "arm"} /\ ~s.running THEN AiuStart(s)
                 ELSE [s EXCEPT !.running = (s.ctl = {"dma", "arm"})])
AckBuffer(s, i) == NoteWrite([s EXCEPT !.status = @ \ {i}])

--------------------------------------------------------------------------------
(***************************************************************************)
(* The driver: it fills both buffers, acknowledges both and starts; on the *)
(* interrupt the OAL masks the source, the thread lets it in again, reads  *)
(* the status, acknowledges both buffers and refills those that drained.   *)
(***************************************************************************)
Silent == [ctl |-> {}, running |-> FALSE, cur |-> 0, pos |-> 0, status |-> {},
           reg |-> [i \in 0..1 |-> 0], len |-> [i \in 0..1 |-> 0], owed |-> 0, on |-> TRUE,
           line |-> FALSE, out |-> <<>>, mem |-> [i \in 0..1 |-> 0], fresh |-> {}, next |-> 1,
           ist |-> "idle", seen |-> {}, late |-> FALSE, last |-> <<0, 0>>]

Heard(s) == [s EXCEPT !.out = <<>>, !.last = IF s.out = <<>> THEN @ ELSE Last(s.out)]
AiuStep(s) == aiu' = s
Fill(s, i) == [s EXCEPT !.mem[i] = s.next, !.next = @ + 1, !.fresh = @ \cup {i}]

DriverPrepares ==
    /\ aiu.ist = "idle" /\ aiu.ctl = {} /\ aiu.next <= MaxBlocks
    /\ \E a, b \in BufLens :
          AiuStep([Fill(Fill(Heard(aiu), 0), 1) EXCEPT !.reg = [i \in 0..1 |-> IF i = 0 THEN a ELSE b],
                      !.status = {}, !.line = FALSE, !.ctl = {"dma"}, !.late = FALSE,
                      !.last = <<aiu.next - 1, 0>>])
DriverStarts == /\ aiu.ctl = {"dma"} /\ ~aiu.running
                /\ AiuStep(NoteWrite([aiu EXCEPT !.ctl = {"dma", "arm"}]))
\* The output is armed and then the run bit cleared; each write stops it.
DriverStops  == /\ aiu.running /\ aiu.ist = "idle"
                /\ AiuStep(NoteWrite([Heard(aiu) EXCEPT !.ctl = {}]))
OalTakesAudio == /\ aiu.line /\ aiu.ist = "idle"
                 /\ AiuStep(AiuIrqUpdate([Heard(aiu) EXCEPT !.on = FALSE, !.ist = "woken"]))
IstDone  == /\ aiu.ist = "woken"
            /\ AiuStep(AiuIrqUpdate([Heard(aiu) EXCEPT !.on = TRUE, !.ist = "awake"]))
IstReads == /\ aiu.ist = "awake"
            /\ AiuStep([Heard(aiu) EXCEPT !.seen = aiu.status, !.ist = "ack0"])
IstAcks  == \/ aiu.ist = "ack0" /\ AiuStep([AckBuffer(Heard(aiu), 0) EXCEPT !.ist = "ack1"])
            \/ aiu.ist = "ack1" /\ AiuStep([AckBuffer(Heard(aiu), 1) EXCEPT !.ist = "fill"])
IstFills ==
    /\ aiu.ist = "fill"
    /\ \/ \E i \in aiu.seen : /\ aiu.next <= MaxBlocks
                              /\ AiuStep([Fill(Heard(aiu), i) EXCEPT !.seen = @ \ {i}])
       \/ aiu.seen = {} /\ AiuStep([Heard(aiu) EXCEPT !.ist = "idle"])
HostTime == /\ aiu.running /\ aiu.owed <= Catchup
            /\ \E n \in 1..Catchup + 1 :
                  AiuStep([Heard(aiu) EXCEPT !.owed = IF @ + n > Catchup THEN Catchup + 1 ELSE @ + n])
AudioTick == AiuStep(AiuTick(Heard(aiu)))

AiuInit == aiu = Silent
AiuNext == \/ DriverPrepares \/ DriverStarts \/ DriverStops \/ OalTakesAudio \/ IstDone
           \/ IstReads \/ IstAcks \/ IstFills \/ HostTime \/ AudioTick
AiuSpec == AiuInit /\ [][AiuNext]_aiuVars

--------------------------------------------------------------------------------
\* An empty buffer's block is not heard.
NextBlock(s, b) == IF 0 \in {s.reg[0], s.reg[1]} THEN {b + 1, b + 2} ELSE {b + 1}
InOrder(s) ==
    LET all == <<s.last>> \o s.out
    IN  \A k \in 1..Len(s.out) :
            \/ all[k + 1] = <<all[k][1], all[k][2] + 1>>
            \/ /\ all[k + 1][1] \in NextBlock(s, all[k][1]) /\ all[k + 1][2] = 1
               /\ all[k][2] \in {0, s.reg[0], s.reg[1]}

(***************************************************************************)
(* Unless the driver let a buffer run out before it refilled it, what is   *)
(* heard is every frame of every block, once and in order, and a buffer    *)
(* that has drained is pending or in the thread's hands until its refill   *)
(* (aiu_tick, aiu_note_write).                                             *)
(***************************************************************************)
SoundInOrder ==
    ~aiu.late => /\ InOrder(aiu)
                 /\ aiu.running => {0, 1} \ aiu.fresh \subseteq aiu.status \cup aiu.seen
                 /\ aiu.running /\ aiu.on => (aiu.line <=> aiu.status # {})
================================================================================
