--------------------------------- MODULE MCUsbf --------------------------------
(***************************************************************************)
(* The controller on small instances: values the guest writes to the       *)
(* interrupt registers.  A behaviour is of the controller or of the OUT    *)
(* path over the two rings.                                                *)
(***************************************************************************)
EXTENDS UsbfMachine, UsbOutPath

VARIABLE part

MCInit == /\ part \in {"controller", "path"} /\ Init /\ PathInit
          /\ part = "path" => groups = CHOOSE w \in Workloads : TRUE
MCNext == \/ part = "controller" /\ Next /\ UNCHANGED <<pathVars, part>>
          \/ part = "path" /\ PathNext /\ UNCHANGED <<vars, part>>
MCSpec == MCInit /\ [][MCNext]_<<vars, pathVars, part>>

\* The interrupt sources off and on, the masks opened, every event cleared
\* or every event but SETUP, which usb.dll leaves to the FIFO.
TopEnOffOn == {{}, TopEvents}
Unmask     == {{}}
KeepSetup  == {{"SETUP"}}

\* The two pipes by themselves, and each endpoint with the interrupts.
Mixes == {{"out", "power", "watch"}, {"in", "power", "watch"},
          {"out", "irq", "power", "address"}, {"in", "irq", "power"},
          {"intr", "irq", "power"}, {"control", "irq", "power"}}
================================================================================
