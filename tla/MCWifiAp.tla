------------------------------- MODULE MCWifiAp --------------------------------
(* Scenarios for TLC.                                                       *)
EXTENDS WifiAp

(* One operation at a time with up to two failing calls, and openers that   *)
(* overlap.                                                                 *)
Orderly ==
    [overlap : {"none"}, failures : 0 .. 2] \cup [overlap : {"opens"}, failures : {0}]

(* Anybody any time, without a failure.                                     *)
Overlapping == [overlap : {"all"}, failures : {0}]

===============================================================================
