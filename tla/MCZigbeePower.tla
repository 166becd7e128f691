---------------------------- MODULE MCZigbeePower ----------------------------
(* Small instances of ZigbeePower for TLC, with a clock the code does not   *)
(* keep: the time since the filtered sense last changed.                    *)
EXTENDS ZigbeePower

Method(name, delay) == [strategy |-> name, hold |-> FALSE, delay |-> delay, inter |-> 0]

(* Local users switch a board whose method reports the sense; and the       *)
(* coordinator, a button and BLE act on a latch, which may be on with its   *)
(* shutdown pending, while the AP comes and goes.                           *)
Quiet == [configs |-> {Method("ps_on_only", 0), Method("button_only", 2)},
          local |-> {"on", "off"}, other |-> {}, remote |-> {}, zigbee |-> "up"]
Busy  == [configs |-> {Method("ps_on_latched", 1)},
          local |-> {}, other |-> {"toggle", "ble"}, remote |-> BOOLEAN, zigbee |-> "restarts"]

(* Only the coordinator acts, and switches a board off after a delay.       *)
RemoteOff == [configs |-> {Method("ps_on_only", 2)},
              local |-> {}, other |-> {}, remote |-> {FALSE}, zigbee |-> "up"]

(* A controller without Zigbee, and with every action of its users.         *)
Alone == [configs |-> {Method("ps_on_then_button", 2), Method("ps_on_latched", 2)},
          local |-> {"on", "off", "toggle", "force_off"}, other |-> {}, remote |-> {}, zigbee |-> "never"]

AllConfigs == Quiet.configs \cup Busy.configs \cup RemoteOff.configs \cup Alone.configs
AllButOff  == {Quiet, Busy, Alone}
OffOnly    == {RemoteOff}

VARIABLE sinceFlip
clockVars == <<allVars, sinceFlip>>

ClockInit == ZInit /\ sinceFlip = 0
ClockSample ==
    \E dt \in 1 .. MaxStep, raw \in Readings :
        /\ Pass(dt, raw) /\ UNCHANGED zigbeeVars
        /\ sinceFlip' = IF sensed' # sensed THEN 0 ELSE PL!Older(sinceFlip, dt)
ClockTask == ClockSample \/ ((Serve \/ Tick) /\ UNCHANGED <<zigbeeVars, sinceFlip>>)
ClockNext == ClockTask \/ (Surroundings /\ UNCHANGED sinceFlip)

(* power_task is the highest of the application's priorities and blocks     *)
(* only in its 20 ms delay.                                                 *)
ClockSpec == ClockInit /\ [][ClockNext]_clockVars /\ WF_clockVars(ClockTask)

(* The debounce of update_sense: however the input bounces, the filtered    *)
(* sense comes on no sooner than sense_on_ms, and goes off no sooner than   *)
(* sense_off_ms, after it last changed.                                     *)
FlipsAreSpaced ==
    [][\A dt \in 1 .. MaxStep :
        Pass(dt, sensed') /\ sensed' # sensed
            => PL!Older(sinceFlip, dt) >= (IF sensed' THEN SenseOn ELSE SenseOff)]_clockVars

(* The sense is acted on when it has settled, at boot and ever after.       *)
SenseSettles == []NothingBeforeSettled /\ FlipsAreSpaced

===============================================================================
