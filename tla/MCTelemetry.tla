------------------------------ MODULE MCTelemetry ------------------------------
(* A small instance of Telemetry for TLC: four roles, a button and the bus  *)
(* on five pins, one of them blocked and one input only; a bus of two       *)
(* registers and two EEPROM addresses.                                      *)
EXTENDS Telemetry

Unset == [configured |-> FALSE, profile |-> "wifi", strategy |-> "ps_on_only", hold |-> FALSE,
          role |-> [r \in Roles |-> Disabled],
          psu |-> [enabled |-> FALSE, sda |-> Disabled, scl |-> Disabled],
          buttons |-> [b \in ButtonSlots |-> [enabled |-> FALSE, gpio |-> Disabled, radio |-> "none",
                                              debounce |-> 1, double |-> 1, long |-> 2]],
          ssid |-> FALSE, mqtt |-> "off",
          timing |-> [pulse |-> 1, forceOff |-> 1, start |-> 2, shutdown |-> 2], ranged |-> TRUE]
Latch == [Unset EXCEPT !.configured = TRUE, !.strategy = "ps_on_latched", !.role["psOn"] = 0,
                       !.psu = [enabled |-> TRUE, sda |-> 1, scl |-> 2], !.ssid = TRUE]
BootSettings == {Unset, [Latch EXCEPT !.mqtt = "complete"], [Latch EXCEPT !.profile = "zigbee"]}

PinPairs == {<<1, 2>>, <<0, 1>>, <<2, 3>>}
OneEeprom == {{}, {1}, {2}}
TwoEeproms == {{1, 2}}

===============================================================================
