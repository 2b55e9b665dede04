---------------------------------- MODULE MCLive --------------------------------
(***************************************************************************)
(* What must eventually happen: the host byte stream with its owner, and   *)
(* the usbredir device with a peer that answers.  A behaviour is of one    *)
(* part.                                                                   *)
(***************************************************************************)
EXTENDS MCUsbRedir, HostChardevMachine

VARIABLE part
liveVars == <<vars, chVars, part>>

LiveInit == part \in {"stream", "device"} /\ Init /\ OwnerInit /\ (part = "device" => up)
LiveNext == \/ part = "stream" /\ OwnerNext /\ UNCHANGED <<vars, part>>
            \/ part = "device" /\ Next /\ UNCHANGED <<chVars, part>>

\* Each part is scheduled in its own behaviours.
LiveSpec == /\ LiveInit /\ [][LiveNext]_liveVars
            /\ part = "stream" => OwnerFairness
            /\ part = "device" => RedirFairness
================================================================================
