--------------------------------- MODULE Clocks --------------------------------
(***************************************************************************)
(* What runs on emulated time alone: the RTC's elapsed-time alarm          *)
(* (src/hw/rtc.c) and the battery's level (src/hw/battery.c).              *)
(*   rtc      etime and ecmp as two digits of DigitRange, high first, for  *)
(*            the 48-bit registers written in parts; whether the alarm bit *)
(*            of rtcint is set; elapsed_compare_armed and _fired           *)
(*   battery  mode, level (milli_pct), started, and since, the time gone   *)
(*            by since last_ns, StepTime of it per step of the level       *)
(***************************************************************************)
EXTENDS Integers

CONSTANTS DigitRange, \* values of half a 48-bit register
          StepTime,   \* ns_per_step
          Full,       \* 100000 thousandths of a percent
          MaxElapsed  \* bound: time the battery is watched for
ASSUME ClocksAssumption == /\ DigitRange \in Nat \ {0, 1} /\ StepTime \in Nat \ {0}
                           /\ Full \in Nat \ {0} /\ MaxElapsed \in Nat

VARIABLES rtc, alarm, battery, drawn
clockVars == <<rtc, alarm, battery, drawn>>

Halves == {"low", "high"}
Digits == 0..DigitRange - 1
Ticks == DigitRange * DigitRange
Value(r) == r["high"] * DigitRange + r["low"]
RegOf(n) == [h \in Halves |-> IF h = "high" THEN n \div DigitRange ELSE n % DigitRange]

RtcInit == [etime |-> RegOf(0), ecmp |-> RegOf(0), int |-> FALSE, armed |-> FALSE,
            fired |-> FALSE]
\* rtc_init_from_ymdhms: the calendar's seconds since 1850, as ticks.
RtcInitAt(n) == [RtcInit EXCEPT !.etime = RegOf(n)]
UpdateElapsed(r) ==
    IF r.armed /\ ~r.fired /\ Value(r.etime) >= Value(r.ecmp)
    THEN [r EXCEPT !.int = TRUE, !.fired = TRUE] ELSE r
\* As if a write of the compare register left the old alarm's mark.
Rearm_KeepsFired(r) == UpdateElapsed([r EXCEPT !.armed = TRUE])
Rearm(r) == UpdateElapsed([r EXCEPT !.armed = TRUE, !.fired = FALSE])
WriteEtime(r, half, d) == UpdateElapsed([r EXCEPT !.etime[half] = d])
WriteEcmp(r, half, d)  == Rearm([r EXCEPT !.ecmp[half] = d])
WriteRtcInt(r)  == [r EXCEPT !.int = FALSE]
RtcTick(r, n) == UpdateElapsed([r EXCEPT !.etime = RegOf((Value(@) + n) % Ticks)])

--------------------------------------------------------------------------------
Modes == {"ac", "charging", "discharging"}
BatteryInit(level, mode) == [mode |-> mode, level |-> level, started |-> FALSE, since |-> 0]
Levelled(b, steps) ==
    CASE b.mode = "discharging" -> [b EXCEPT !.level = IF steps >= @ THEN 0 ELSE @ - steps]
      [] b.mode = "charging" /\ steps >= Full - b.level ->
                [b EXCEPT !.level = Full, !.mode = "ac"]
      [] OTHER -> [b EXCEPT !.level = @ + steps]
Advance(b) ==
    IF ~b.started THEN [b EXCEPT !.started = TRUE, !.since = 0]
    ELSE IF b.mode = "ac" THEN [b EXCEPT !.since = 0]
    ELSE [Levelled(b, b.since \div StepTime) EXCEPT !.since = @ % StepTime]
\* battery_gpio: bit 12 on battery, bit 2 while charging.
BatteryGpio(b) == CASE b.mode = "discharging" -> {12} [] b.mode = "charging" -> {2}
                    [] OTHER -> {}

--------------------------------------------------------------------------------
(***************************************************************************)
(* alarm: the guest sets the RTC's compare register half by half, and with *)
(* the last half the alarm at target is on.  Its handler clears RTCINT and *)
(* then looks at the time (look: it has still to), with a read it repeats  *)
(* until the high half stands still; an alarm whose time has come it takes *)
(* for served.  back: the alarm has come and the clock gone back behind it *)
(* since.  drawn: the time since the battery was first read and its level  *)
(* and mode then.                                                          *)
(***************************************************************************)
ClockInit ==
    /\ rtc \in {RtcInit} \cup {RtcInitAt(n) : n \in {1, Ticks - 1}}
    /\ alarm = [target |-> 0, left |-> {}, on |-> FALSE, look |-> FALSE, back |-> FALSE]
    /\ \E level \in 0..Full, mode \in Modes :
          battery = BatteryInit(level, mode) /\ drawn = [time |-> 0, from |-> level, mode |-> mode]

RtcStep(r) == /\ rtc' = r /\ UNCHANGED <<battery, drawn>>
SetsTarget == /\ \E n \in 0..Ticks - 1 :
                    alarm' = [alarm EXCEPT !.target = n, !.left = Halves, !.on = FALSE,
                                           !.back = FALSE]
              /\ RtcStep(rtc)
WritesHalf == \E h \in alarm.left :
    /\ RtcStep(WriteEcmp(rtc, h, RegOf(alarm.target)[h]))
    /\ alarm' = [alarm EXCEPT !.left = @ \ {h}, !.on = (alarm.left = {h})]
ClearsAlarm == /\ rtc.int /\ RtcStep(WriteRtcInt(rtc))
               /\ alarm' = [alarm EXCEPT !.look = TRUE]
LooksAtTime == /\ alarm.look /\ RtcStep(rtc)
               /\ alarm' = [alarm EXCEPT !.look = FALSE,
                                         !.on = @ /\ Value(rtc.etime) < alarm.target]
\* The clock moves: half of it is written, or it ticks and may wrap.
GoesBack(t) == alarm.on /\ Value(rtc.etime) >= alarm.target /\ Value(t) < alarm.target
ClockMoves(r) == RtcStep(r) /\ alarm' = [alarm EXCEPT !.back = @ \/ GoesBack(r.etime)]
SetsTime   == \E h \in Halves, d \in Digits : ClockMoves(WriteEtime(rtc, h, d))
ClockTicks == \E n \in 1..2 : ClockMoves(RtcTick(rtc, n))

BatteryStep(b) == battery' = b /\ UNCHANGED <<rtc, alarm>>
BatteryTime == \E n \in 1..StepTime + 1 :
    /\ drawn.time + n <= MaxElapsed
    /\ BatteryStep([battery EXCEPT !.since = IF battery.started THEN @ + n ELSE 0])
    /\ drawn' = [drawn EXCEPT !.time = IF battery.started THEN @ + n ELSE 0]
\* The GPIO pins and the A/D port bring the level up to now.
BatteryRead == BatteryStep(Advance(battery)) /\ UNCHANGED drawn

AlarmNext   == \/ SetsTarget \/ WritesHalf \/ ClearsAlarm \/ LooksAtTime
               \/ SetsTime \/ ClockTicks
BatteryNext == BatteryTime \/ BatteryRead
ClockSpec   == ClockInit /\ [][AlarmNext \/ BatteryNext]_clockVars

--------------------------------------------------------------------------------
(***************************************************************************)
(* The clocks keep time.  An alarm that is set is pending as soon as its   *)
(* time has come, or was and its handler has still to look at the time,    *)
(* although clock and compare register are written half by half and a half *)
(* may set off an alarm of its own (rtc_rearm_elapsed_irq).  The exception *)
(* is a clock that went back behind an alarm that had come, even one that  *)
(* only half a write of the time had brought: a compare goes off once      *)
(* until the compare register is written again (elapsed_compare_fired,     *)
(* rtc_write of ETIME).  What a read of the battery finds is a function of *)
(* the time gone by since the first one, however often it was read         *)
(* between, and the pins say so (battery_advance).                         *)
(***************************************************************************)
ClocksKeepTime ==
    LET steps == drawn.time \div StepTime
        b == Advance(battery)
    IN /\ alarm.on /\ ~alarm.back /\ Value(rtc.etime) >= alarm.target
             => rtc.int \/ alarm.look
       /\ drawn.mode = "ac" => b.level = drawn.from /\ BatteryGpio(b) = {}
       /\ drawn.mode = "discharging" =>
             b.level = (IF steps >= drawn.from THEN 0 ELSE drawn.from - steps)
       /\ drawn.mode = "charging" =>
             /\ b.level = (IF steps >= Full - drawn.from THEN Full ELSE drawn.from + steps)
             /\ battery.started /\ steps > 0 => (2 \in BatteryGpio(b) <=> b.level < Full)
================================================================================
