---------------------------- MODULE MCZigbeeRuntime ---------------------------
(* Small instances of ZigbeeRuntime for TLC.                                *)
EXTENDS ZigbeeRuntime

OneFault   == {{"timeouts"}, {"stop_fails"}}
BothFaults == {Faults}

===============================================================================
