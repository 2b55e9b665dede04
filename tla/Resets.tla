--------------------------------- MODULE Resets --------------------------------
(***************************************************************************)
(* The two timers that reset the BE-300: the VR4131's HALTimer             *)
(* (src/hw/pmu.c), which must be acknowledged once after power-on and once *)
(* after every wake from Hibernate, and the watchdog of the companion's    *)
(* microcontroller (src/hw/cmcu.c, be300_cmcu_tick), which must be         *)
(* reloaded while it runs.  pmu holds                                      *)
(*   int        the causes in PMUINTREG (pmuintreg)                        *)
(*   remaining, arm, sampled   haltimer_remaining_cycles,                  *)
(*              haltimer_arm_cycles and last_count_sample                  *)
(*   staged     pending_reset_cause                                        *)
(* and cmcu holds regs, the command arguments and TIMEOUT, running, and    *)
(* unserved, the time since reloaded_ns.  count is the CPU's Count.        *)
(***************************************************************************)
EXTENDS Integers

CONSTANTS Window,       \* haltimer_window, in cycles
          CountRange,   \* Count wraps at 2^32
          Timeout,      \* the watchdog's TIMEOUT when it is set
          MaxWakes      \* bound: wakes from Hibernate
ASSUME ResetsAssumption ==
    /\ Window \in Nat \ {0} /\ CountRange \in Nat /\ CountRange > 2 * Window
    /\ Timeout \in Nat \ {0} /\ MaxWakes \in Nat

VARIABLES pmu, cmcu, count,
          truth         \* what really went by: see TruthInit
resetVars == <<pmu, cmcu, count, truth>>

Causes == {"RTCRST", "RSTSW", "TIMOUTRST", "RTCINTR"}
NoCause == "none"

PmuInit == [int |-> {"RTCRST"}, remaining |-> 0, arm |-> 0, sampled |-> 0, staged |-> NoCause]
PmuArmed(p, now) == [p EXCEPT !.arm = Window, !.remaining = Window, !.sampled = now]
ApplyPending(p, now) ==
    [p EXCEPT !.int = @ \cup ({p.staged} \ {NoCause}), !.staged = NoCause, !.remaining = 0,
              !.sampled = now]
WriteInt0(p, clear) == [p EXCEPT !.int = @ \ clear]
WriteCnt0(p) == [p EXCEPT !.remaining = 0, !.arm = 0]
WriteCnt2(p) == [p EXCEPT !.staged = "RSTSW"]

\* As if no delta were taken for a write of Count.
Elapsed_NoFilter(p, now) == (now - p.sampled + CountRange) % CountRange
\* A delta above half the window is a write of Count, and counts for nothing.
Elapsed(p, now) ==
    LET delta == (now - p.sampled + CountRange) % CountRange
    IN  IF delta > p.arm \div 2 THEN 0 ELSE delta
HalExpires(p, now) == p.remaining > 0 /\ Elapsed(p, now) >= p.remaining
PmuTick(p, now) ==
    IF p.remaining = 0 THEN p
    ELSE IF HalExpires(p, now) THEN ApplyPending([p EXCEPT !.staged = "TIMOUTRST"], now)
    ELSE [p EXCEPT !.remaining = @ - Elapsed(p, now), !.sampled = now]
ResetSwitch(p) == [p EXCEPT !.staged = "RSTSW"]
HibernateWake(p, causes, now) == PmuArmed([p EXCEPT !.int = @ \cup causes], now)

--------------------------------------------------------------------------------
CmcuInit == [arg |-> {}, timeout |-> 0, running |-> FALSE, unserved |-> 0]
\* The stop needs ARG0 = 35, the start ARG = 53; TIMEOUT reloads.
CmcuStop(c)  == [c EXCEPT !.running = @ /\ "stop" \notin c.arg]
CmcuStart(c) == IF "start" \in c.arg THEN [c EXCEPT !.running = TRUE, !.unserved = 0] ELSE c
CmcuArg(c, which, right) == [c EXCEPT !.arg = IF right THEN @ \cup {which} ELSE @ \ {which}]
CmcuTimeout(c, t) == [c EXCEPT !.timeout = t, !.unserved = 0]
CmcuExpired(c) == c.running /\ c.timeout > 0 /\ c.unserved >= c.timeout

--------------------------------------------------------------------------------
(***************************************************************************)
(* truth: the cycles gone by since the HALTimer was last armed and whether *)
(* it has been acknowledged since, the time since the watchdog was last    *)
(* served (reloaded or started), whether a start was sent and no stop      *)
(* after it, the wakes, and what the last step reset the CPU for.          *)
(***************************************************************************)
TruthInit == [armedFor |-> 0, acked |-> FALSE, unserved |-> 0, guarded |-> FALSE, wakes |-> 0,
              why |-> {}]
Quiet == [truth EXCEPT !.why = {}]
ResetInit == /\ pmu = PmuArmed(PmuInit, 0) /\ cmcu = CmcuInit /\ count = 0
             /\ truth = TruthInit

MinOf2(a, b) == IF a < b THEN a ELSE b
Goes(n) ==
    /\ count' = (count + n) % CountRange
    /\ cmcu' = [cmcu EXCEPT !.unserved = MinOf2(@ + n, Timeout)]
    /\ truth' = [Quiet EXCEPT !.armedFor = MinOf2(@ + n, Window),
                              !.unserved = MinOf2(@ + n, Timeout)]
TimeGoes == \E n \in 1..Window : Goes(n) /\ UNCHANGED pmu
\* dev_vr41xx ticks the PMU with the CPU's Count.
PmuTicks == /\ pmu' = PmuTick(pmu, count)
            /\ truth' = [Quiet EXCEPT !.why = IF HalExpires(pmu, count) THEN {"hal"} ELSE {}]
            /\ UNCHANGED <<cmcu, count>>
\* The watchdog pulses the reset switch's line.
CmcuTicks ==
    /\ IF CmcuExpired(cmcu)
       THEN /\ cmcu' = [cmcu EXCEPT !.running = FALSE]
            /\ pmu' = ApplyPending(ResetSwitch(pmu), count)
            /\ truth' = [Quiet EXCEPT !.why = {"watchdog"}]
       ELSE UNCHANGED <<pmu, cmcu>> /\ truth' = Quiet
    /\ UNCHANGED count
Acknowledges == /\ pmu' = WriteCnt0(pmu) /\ truth' = [Quiet EXCEPT !.acked = TRUE]
                /\ UNCHANGED <<cmcu, count>>
ClearsCauses == /\ pmu' = WriteInt0(pmu, Causes)
                /\ truth' = Quiet /\ UNCHANGED <<cmcu, count>>
SoftResets == /\ pmu' = ApplyPending(WriteCnt2(pmu), count)
              /\ truth' = [Quiet EXCEPT !.why = {"software"}] /\ UNCHANGED <<cmcu, count>>
\* NK starts Count over; not within half a window of its wrap.
WritesCount == /\ count < CountRange - Window \div 2
               /\ count' = 0 /\ truth' = Quiet /\ UNCHANGED <<pmu, cmcu>>
Wakes == /\ truth.wakes < MaxWakes
         /\ \E c \in SUBSET {"RTCINTR"} : pmu' = HibernateWake(pmu, c, count)
         /\ truth' = [Quiet EXCEPT !.wakes = @ + 1, !.armedFor = 0, !.acked = FALSE]
         /\ UNCHANGED <<cmcu, count>>
SetsTimeout == /\ \E t \in {0, Timeout} : cmcu' = CmcuTimeout(cmcu, t)
               /\ truth' = [Quiet EXCEPT !.unserved = 0] /\ UNCHANGED <<pmu, count>>
SetsArg == /\ \E which \in {"start", "stop"}, right \in BOOLEAN :
                  cmcu' = CmcuArg(cmcu, which, right)
           /\ truth' = Quiet /\ UNCHANGED <<pmu, count>>
SendsStart == /\ cmcu' = CmcuStart(cmcu)
              /\ truth' = IF "start" \in cmcu.arg
                          THEN [Quiet EXCEPT !.guarded = TRUE, !.unserved = 0] ELSE Quiet
              /\ UNCHANGED <<pmu, count>>
SendsStop == /\ cmcu' = CmcuStop(cmcu)
             /\ truth' = IF "stop" \in cmcu.arg THEN [Quiet EXCEPT !.guarded = FALSE] ELSE Quiet
             /\ UNCHANGED <<pmu, count>>
\* The two meet in the reset itself, which disarms the HALTimer.
EitherNext   == TimeGoes \/ PmuTicks \/ Acknowledges \/ SoftResets
HaltimerNext == EitherNext \/ ClearsCauses \/ WritesCount \/ Wakes
WatchdogNext == EitherNext \/ CmcuTicks \/ SetsTimeout \/ SetsArg \/ SendsStart \/ SendsStop
ResetSpec == ResetInit /\ [][HaltimerNext \/ WatchdogNext]_resetVars

(***************************************************************************)
(* The HALTimer resets the CPU only when a whole window has gone by since  *)
(* power-on or the last wake without an acknowledgement, even where the    *)
(* kernel starts Count over (WritesCount), and the watchdog only when it   *)
(* was started, not stopped, and a whole timeout has gone by since it was  *)
(* last served; the cause can then be read (pmu_tick, cmcu_expired).       *)
(***************************************************************************)
ResetOnlyWhenDue ==
    /\ "hal" \in truth.why => /\ ~truth.acked /\ truth.armedFor >= Window
                              /\ "TIMOUTRST" \in pmu.int
    /\ "watchdog" \in truth.why => /\ truth.guarded /\ truth.unserved >= Timeout
                                   /\ "RSTSW" \in pmu.int
================================================================================
