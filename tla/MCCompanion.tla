------------------------------ MODULE MCCompanion ------------------------------
(***************************************************************************)
(* The companion chip's peripherals: those that share GIU line 0, and      *)
(* beside them the wave output, the reset timers, the clocks and the       *)
(* serial EEPROM, which share nothing.  A behaviour is of one part.        *)
(***************************************************************************)
EXTENDS Companion, Aiu, Resets, Clocks, Eeprom

VARIABLE part
mcVars == <<vars, aiu, resetVars, clockVars, eepromVars, part>>

MCInit == /\ part \in {"girq", "sound", "haltimer", "watchdog", "alarm", "battery",
                      "eeprom"}
          /\ Init /\ AiuInit /\ ResetInit /\ ClockInit /\ BusInit
          /\ part # "girq" => source = "keys"
          /\ part # "alarm" => rtc = RtcInit
          /\ part # "battery" => battery = BatteryInit(0, "ac")
MCNext == /\ UNCHANGED part
          /\ \/ part = "girq" /\ Next /\ UNCHANGED <<aiu, resetVars, clockVars, eepromVars>>
             \/ part = "sound" /\ AiuNext /\ UNCHANGED <<vars, resetVars, clockVars, eepromVars>>
             \/ part = "haltimer" /\ HaltimerNext /\ UNCHANGED <<vars, aiu, clockVars, eepromVars>>
             \/ part = "watchdog" /\ WatchdogNext /\ UNCHANGED <<vars, aiu, clockVars, eepromVars>>
             \/ part = "alarm" /\ AlarmNext /\ UNCHANGED <<vars, aiu, resetVars, eepromVars>>
             \/ part = "battery" /\ BatteryNext /\ UNCHANGED <<vars, aiu, resetVars, eepromVars>>
             \/ part = "eeprom" /\ BusNext /\ UNCHANGED <<vars, aiu, resetVars, clockVars>>
MCSpec == MCInit /\ [][MCNext]_mcVars /\ Fairness
================================================================================
